-------------------------------- MODULE MCVm --------------------------------
(* One or two machines, two identifiers (x and print), one datum.          *)
EXTENDS Vm
NameX == "x"
NamePrint == "print"
MCNames == {NameX, NamePrint}
OneName == {NamePrint}
=============================================================================
