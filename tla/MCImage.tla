------------------------------ MODULE MCImage ------------------------------
(* Small instances of Image for TLC: short reaches, pages of two           *)
(* instructions and headers of a few bytes, so that labels fall out of     *)
(* reach, data lies on other pages and no part is aligned by chance.       *)
EXTENDS Image, TLC

MCReach == [op \in Branches |-> IF op = "INST_BC" THEN 1 ELSE 2]

MCBytes ==
  [s \in Structs |->
     CASE s = "Elf64_Ehdr" -> 2
       [] s \in {"Elf64_Phdr", "Elf64_Shdr", "SectionHeader"} -> 1
       [] s \in {"shstrtab", "PeHeader"} -> 5
       [] OTHER -> 8]

MCFileAlignment == [windows |-> 8, macos |-> 4]
MCRamAlignment == [windows |-> 16, macos |-> 32]

\* Labels are only compared with each other.
Symmetry == Permutations(Labels) \cup Permutations(DataLabels)
=============================================================================
