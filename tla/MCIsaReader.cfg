CONSTANT Directories <- OneOrThree
SPECIFICATION Spec
INVARIANT TypeOK BlocksNest BundleInOrder
