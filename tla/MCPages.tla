------------------------------ MODULE MCPages ------------------------------
(* A small machine for TLC: 16 pages, 4 pages to a page table.             *)
EXTENDS PageMgr

Region(lo, hi, type) == [lo |-> lo, hi |-> hi, type |-> type]

\* Usable memory from 0 and a reserved region that begins within its last page;
\* and a map with usable memory that begins within the page in which ACPI data
\* listed before it ends, and regions listed later that reserve parts of it.
MCMaps == {
  << Region(0, 29, "free"), Region(29, 32, "reserved") >>,
  << Region(0, 9, "free"), Region(9, 11, "acpi"), Region(11, 29, "free"),
     Region(19, 21, "nvs"), Region(29, 32, "reserved") >> }

\* The kernel and the video memory; by linker.ld the template's page tables lie
\* behind all of the kernel and are in no section the boot marks.
MCSections == << [first |-> 1, count |-> 2], [first |-> 8, count |-> 1] >>
MCTemplateTables == <<12, 13>>
=============================================================================
