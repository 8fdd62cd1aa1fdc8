---------------------------- MODULE MCRepairLoop ----------------------------
(* Instances of RepairLoop: three allowlisted prefixes, and compilers that declare *)
(* none of them, one, or all of them as the shipped one does.                      *)
EXTENDS RepairLoop

CONSTANTS rdf, xsd, cifsup

SomeCompilers == {{}, {rdf}, {rdf, xsd, cifsup}}
=============================================================================
