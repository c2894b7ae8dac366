------------------------------- MODULE Image -------------------------------
(***************************************************************************)
(* Writing the object file (generator/assembler.cpp, wrapper/elf.cpp,      *)
(* pe.cpp, macho.cpp and file/file.cpp), composed with the instruction and *)
(* data lists of Reloc.  generateTargetFile opens the file, has the code   *)
(* emitted and relocated, computes from the sizes what the headers say,    *)
(* and then writes the parts one after the other.  Where a part is in the  *)
(* file is thus computed twice: for the headers, and by writing.           *)
(*                                                                         *)
(* A part is written with its size but without its bytes.  What a header   *)
(* says is a set of claims: that such a stretch of the file holds such     *)
(* parts.                                                                  *)
(***************************************************************************)
EXTENDS Reloc

CONSTANTS
  Platforms,  \* the platforms to generate for, "other" for one that is not there
  Bytes,      \* the sizes of the header structures and of shstrtabString
  FileAlignment, RamAlignment  \* of generatePeArm64 and generateMachoArm64

Formats == {"linux", "windows", "macos"}

Structs == {"Elf64_Ehdr", "Elf64_Phdr", "Elf64_Shdr", "shstrtab", "PeHeader",
            "SectionHeader", "mach_header_64", "segment_command_64",
            "entry_point_command", "section_64"}

\* The smallest multiple of alignment that is at least value.
Rounded(value, alignment) == ((value + alignment - 1) \div alignment) * alignment

(* The headers of an ELF file fit into a page (368 of 4096 bytes), a       *)
(* second section header does not move the text of a PE file (552 and 592  *)
(* of 1024 bytes), and Mach-O structures are whole words.                  *)
ASSUME ImageAssumption ==
  /\ Platforms \subseteq Formats \cup {"other"}
  /\ Bytes \in [Structs -> Nat \ {0}]
  /\ FileAlignment \in [{"windows", "macos"} -> Nat \ {0}]
  /\ RamAlignment \in [{"windows", "macos"} -> Nat \ {0}]
  /\ Bytes["Elf64_Ehdr"] + 2 * Bytes["Elf64_Phdr"] + 3 * Bytes["Elf64_Shdr"] <= Page
  /\ Rounded(Bytes["PeHeader"] + Bytes["SectionHeader"], FileAlignment["windows"])
       = Rounded(Bytes["PeHeader"] + 2 * Bytes["SectionHeader"], FileAlignment["windows"])
  /\ \A s \in {"mach_header_64", "segment_command_64", "entry_point_command", "section_64"} :
       Bytes[s] % FileAlignment["macos"] = 0

VARIABLES
  stage,     \* "start", "code", "written" or "closed"
  platform,
  isOpen,    \* targetFile # nullptr
  file,      \* what has been written, each with its offset
  header     \* what the headers say

imageVars == <<stage, platform, isOpen, file, header>>
allVars == <<vars, imageVars>>

-----------------------------------------------------------------------------
\* The sections generateArm64Target counts.
SectionCount == IF dataList = <<>> THEN 1 ELSE 2

TextSize == 4 * (instCount + Len(text))

\* programEntry of generateElfArm64, the offset and address of the text.
ProgramEntry ==
  AlignTo(Bytes["Elf64_Ehdr"] + SectionCount * Bytes["Elf64_Phdr"]
            + (SectionCount + 1) * Bytes["Elf64_Shdr"], Page)

\* Faulty: the data is taken to follow the text immediately.
DataEntryUnaligned == ProgramEntry + TextSize

DataEntry == AlignTo(ProgramEntry + TextSize, Page)

\* The dataSectionVaddrOffset each generator passes to relocateBinary.
DataSectionVaddrOffset ==
  IF platform = "linux" THEN DataEntry - ProgramEntry ELSE 0

-----------------------------------------------------------------------------
(* What the headers say: each claim names parts and the stretch of the     *)
(* file they fill, each segment a stretch and the address it is loaded to. *)

Claim(parts, at, size) == [parts |-> parts, at |-> at, size |-> size]
Segment(at, vaddr, size) == [at |-> at, vaddr |-> vaddr, size |-> size]

SectionHeaders == {"text shdr", "data shdr", "shstrtab shdr"}

ElfHeader ==
  LET phoff == Bytes["Elf64_Ehdr"]
      shoff == phoff + SectionCount * Bytes["Elf64_Phdr"]
      shnum == SectionCount + 1
      shstrndx == shnum - 1
  IN [entry    |-> ProgramEntry,
      segments |-> {Segment(0, 0, ProgramEntry + TextSize),
                    Segment(DataEntry, DataEntry, dataOffset)},
      claims   |->
        {Claim({"Elf64_Phdr"}, phoff, SectionCount * Bytes["Elf64_Phdr"]),
         Claim(SectionHeaders, shoff, shnum * Bytes["Elf64_Shdr"]),
         Claim({"shstrtab shdr"}, shoff + shstrndx * Bytes["Elf64_Shdr"], Bytes["Elf64_Shdr"]),
         Claim({"text"}, ProgramEntry, TextSize),
         Claim({"data"}, DataEntry, dataOffset),
         Claim({"shstrtab"}, AlignTo(DataEntry + dataOffset, Page), Bytes["shstrtab"])}]

PeHeader ==
  LET offset == Bytes["PeHeader"] + SectionCount * Bytes["SectionHeader"]
      rawAt == AlignTo(offset, FileAlignment["windows"])
      rawSize == AlignTo(TextSize, FileAlignment["windows"])
      vaddr == AlignTo(offset, RamAlignment["windows"])
  IN [entry    |-> vaddr,
      segments |-> {Segment(rawAt, vaddr, rawSize)},
      claims   |->
        {Claim({"SectionHeader"}, Bytes["PeHeader"], SectionCount * Bytes["SectionHeader"]),
         Claim({"text"}, rawAt, rawSize)}]

LoadCommands == {"segment_command_64", "section_64", "entry_point_command"}

\* Faulty: the text is taken to follow the load commands counted in sizeofcmds.
CodeFileAddrShort ==
  AlignTo(Bytes["mach_header_64"] + 2 * Bytes["segment_command_64"]
            + Bytes["entry_point_command"], FileAlignment["macos"])

CodeFileAddr ==
  AlignTo(Bytes["mach_header_64"] + 2 * Bytes["segment_command_64"]
            + Bytes["entry_point_command"] + Bytes["section_64"], FileAlignment["macos"])

(* Addresses are counted from the end of __PAGEZERO.  The size of the      *)
(* section is not among those of the load commands.                        *)
MachHeader ==
  [entry    |-> CodeFileAddr,
   segments |-> {Segment(0, 0, AlignTo(CodeFileAddr + TextSize, RamAlignment["macos"]))},
   claims   |->
     {Claim(LoadCommands, Bytes["mach_header_64"],
            2 * Bytes["segment_command_64"] + Bytes["entry_point_command"]),
      Claim({"text"}, CodeFileAddr, TextSize)}]

-----------------------------------------------------------------------------
(* The calls of writeFileB and writeEmptyAlignment each generator makes.   *)

Part(part, size) == [name |-> "writeFileB", part |-> part, size |-> size]
Struct(part) == Part(part, Bytes[part])
Empty(alignment) == [name |-> "writeEmptyAlignment", part |-> "empty", size |-> alignment]

ElfWrites ==
  <<Struct("Elf64_Ehdr"), Struct("Elf64_Phdr"), Struct("Elf64_Phdr"),
    Part("text shdr", Bytes["Elf64_Shdr"]), Part("data shdr", Bytes["Elf64_Shdr"]),
    Part("shstrtab shdr", Bytes["Elf64_Shdr"]),
    Empty(Page), Part("text", TextSize), Empty(Page), Part("data", dataOffset),
    Empty(Page), Struct("shstrtab")>>

PeWrites ==
  <<Struct("PeHeader"), Struct("SectionHeader"), Empty(FileAlignment["windows"]),
    Part("text", TextSize), Empty(FileAlignment["windows"])>>

MachWrites ==
  <<Struct("mach_header_64"), Struct("segment_command_64"), Struct("segment_command_64"),
    Struct("section_64"), Struct("entry_point_command"),
    Empty(FileAlignment["macos"]), Part("text", TextSize)>>

-----------------------------------------------------------------------------
NoHeader == [entry |-> 0, segments |-> {}, claims |-> {}]

End(write) == write.at + write.size

FileOffset(written) == IF written = <<>> THEN 0 ELSE End(written[Len(written)])

(* openFile, which may fail: then nothing is written, and nobody is told.  *)
(* A platform that is not there opens nothing.                             *)
OpenFile(p) ==
  /\ stage = "start"
  /\ platform' = p
  /\ stage' = IF p = "other" THEN "written" ELSE "code"
  /\ isOpen' \in IF p = "other" THEN {FALSE} ELSE BOOLEAN
  /\ UNCHANGED <<vars, file, header>>

Emit ==
  /\ stage = "code" /\ Emitting
  /\ \/ \E l \in Labels : EmitLabel(l)
     \/ EmitInst
     \/ \E op \in Branches, l \in Labels : EmitRelocateBranchInst(op, l)
     \/ \E l \in DataLabels : EmitRelocateDataInst(l)
     \/ \E l \in DataLabels, size \in Sizes : BinaryData(l, size)
  /\ UNCHANGED imageVars

Relocate ==
  /\ stage = "code"
  /\ RelocateBinary(DataSectionVaddrOffset)
  /\ UNCHANGED imageVars

\* Only generateElfArm64 asks for the data.
GetBuffers ==
  /\ stage = "code"
  /\ \/ GetEmittedInstBuffer
     \/ platform = "linux" /\ GetEmittedDataBuffer
  /\ UNCHANGED imageVars

\* Faulty: an aligned offset is filled up by a whole alignment.
FilledTwice(call, offset) ==
  IF call.name = "writeFileB" THEN call.size
  ELSE call.size - (offset % call.size)

\* The bytes a call writes at this offset of the file.
Written(call, offset) ==
  IF call.name = "writeFileB" THEN call.size
  ELSE AlignTo(offset, call.size) - offset

\* The file after the calls, which nothing interrupts.
After(calls) ==
  LET written[i \in 0 .. Len(calls)] ==
        IF i = 0 THEN <<>>
        ELSE LET before == written[i - 1]
                 offset == FileOffset(before)
             IN Append(before, [part |-> calls[i].part, at |-> offset,
                                size |-> Written(calls[i], offset)])
  IN written[Len(calls)]

WriteImage(p, said, calls) ==
  /\ stage = "code" /\ platform = p /\ text # <<>>
  /\ phase = IF p = "linux" THEN "done" ELSE "relocated"
  /\ stage' = "written"
  /\ header' = said
  /\ file' = IF isOpen THEN After(calls) ELSE <<>>
  /\ UNCHANGED <<vars, platform, isOpen>>

\* Faulty: the file is left open.
CloseFileNot ==
  /\ stage = "written"
  /\ stage' = "closed"
  /\ UNCHANGED <<vars, platform, isOpen, file, header>>

CloseFile ==
  /\ stage = "written"
  /\ stage' = "closed" /\ isOpen' = FALSE
  /\ UNCHANGED <<vars, platform, file, header>>

ImageInit ==
  /\ Init
  /\ stage = "start" /\ platform = "other" /\ isOpen = FALSE
  /\ file = <<>> /\ header = NoHeader

ImageNext ==
  \/ \E p \in Platforms : OpenFile(p)
  \/ Emit
  \/ Relocate
  \/ GetBuffers
  \/ WriteImage("linux", ElfHeader, ElfWrites)
  \/ WriteImage("windows", PeHeader, PeWrites)
  \/ WriteImage("macos", MachHeader, MachWrites)
  \/ CloseFile

ImageSpec == ImageInit /\ [][ImageNext]_allVars

-----------------------------------------------------------------------------
Parts == Structs \cup SectionHeaders \cup {"text", "data", "empty"}

(* The type invariant.  A file is open only from openFile to closeFile,    *)
(* and nothing is in it before the code is relocated: a compiler that      *)
(* exits for an unknown label leaves no half of a file.                    *)
ImageTypeOK ==
  /\ TypeOK
  /\ stage \in {"start", "code", "written", "closed"}
  /\ platform \in Platforms \cup {"other"}
  /\ isOpen \in BOOLEAN /\ (isOpen => stage \in {"code", "written"})
  /\ file \in Seq([part : Parts, at : Nat, size : Nat])
  /\ file # <<>> => stage \in {"written", "closed"} /\ phase \in {"relocated", "done"}

\* The file is complete.
Finished == stage = "closed" /\ file # <<>>

(* The stretch a claim names lies in the file, starts with its parts, and  *)
(* holds all of them and nothing else but padding.                         *)
ClaimTrue(claim) ==
  /\ End(claim) <= FileOffset(file)
  /\ \E i \in DOMAIN file : file[i].part \in claim.parts /\ file[i].at = claim.at
  /\ \A i \in DOMAIN file :
       IF file[i].part \in claim.parts
         THEN claim.at <= file[i].at /\ End(file[i]) <= End(claim)
         ELSE \/ file[i].part = "empty" \/ file[i].size = 0
              \/ End(file[i]) <= claim.at \/ End(claim) <= file[i].at

(* In every file, for every platform, the headers are true: elf.cpp and    *)
(* macho.cpp call their arguments the number of program headers, the       *)
(* number of section headers and the size of the load commands.            *)
HeadersTrue == Finished => \A claim \in header.claims : ClaimTrue(claim)

(* In an ELF file with data everything the headers say of the file is so,  *)
(* although generateElfArm64 computes it before it writes: the tables, the *)
(* sections and the index of the names are where they are said to be.      *)
ElfHeadersTrue == platform = "linux" /\ dataList # <<>> => HeadersTrue

(* Whatever the platform, and with or without data, a loader that follows  *)
(* the segments finds the whole text, enters the program at its first      *)
(* instruction, and loads no two segments to the same page.                *)
Loadable ==
  Finished =>
    /\ \E i \in DOMAIN file, s \in header.segments :
         /\ file[i].part = "text"
         /\ s.at <= file[i].at /\ End(file[i]) <= s.at + s.size
         /\ header.entry = s.vaddr + file[i].at - s.at
    /\ \A s, t \in header.segments :
         s.vaddr < t.vaddr => AlignTo(s.vaddr + s.size, Page) <= t.vaddr

(* In an ELF file the address an ADRP and its ADD compute at run time is   *)
(* where the loader has put the bytes of that label: the offsets taken at  *)
(* relocation, the headers and the order of writing agree.                 *)
DataWhereCodeLooks ==
  Finished /\ platform = "linux" =>
    \A i \in DOMAIN text :
      text[i].kind = "data" =>
        \E k \in DOMAIN dataList, j \in DOMAIN file, s \in header.segments :
          /\ IsFirst(dataList, k, text[i].label)
          /\ file[j].part = "data"
          /\ s.at <= file[j].at /\ End(file[j]) <= s.at + s.size
          /\ header.entry + Address(i) = s.vaddr + (file[j].at + starts[k]) - s.at

=============================================================================
