--------------------------- MODULE MCStorageDomain ---------------------------
(* Small instances of StorageDomain.                                          *)
EXTENDS StorageDomain

CONSTANT k1

MCLayouts == {"per-record", "single"}

\* units never written, and losses of power or none
MCNew == [layout : MCLayouts, legacy : {{}}, skip : {FALSE}, aged : {FALSE}, power : BOOLEAN, writes : {MaxWrites}]

\* units of any age, also of another program version or edited by hand, and
\* losses of power
MCAny == [layout : MCLayouts, legacy : {{}}, skip : {TRUE}, aged : {TRUE}, power : {TRUE}, writes : {2}]

\* a legacy file lies beside the unit
MCLegacy == [layout : MCLayouts, legacy : {{k1}}, skip : {FALSE}, aged : {FALSE}, power : {FALSE}, writes : {2}]

\* a legacy file whose import a loss of power may undo
MCImport == [layout : {"per-record"}, legacy : {{k1}}, skip : {FALSE}, aged : {FALSE}, power : {TRUE}, writes : {1}]

MCAll == MCNew \cup MCAny \cup MCLegacy \cup MCImport
=============================================================================
