-------------------------- MODULE MCStaticAnalysis --------------------------
(***************************************************************************)
(* Small instances of StaticAnalysis.  The policy is the shipped           *)
(* scoring.default.json, rule for rule, but for the denial threshold.  PE *)
(* structures are one unit each, a block two units, a read at most four.   *)
(***************************************************************************)
EXTENDS StaticAnalysis

MCCategory == [r \in EngineRules |-> CASE r \in EntropyRules -> "entropy"
                                       [] r \in StaticRules -> "static"
                                       [] OTHER -> "context"]

MCWeight ==
  [r \in EngineRules |->
     CASE r \in {"WORLD_WRITABLE", "SGID_BIT_SET", "ELF_ENTRY_POINT_ZERO", "DOWNLOAD_DIRECTORY"} -> 8
       [] r \in {"SUID_BIT_SET", "MIME_EXTENSION_INCONSISTENT", "TEMPORARY_DIRECTORY"} -> 15
       [] r \in {"MALFORMED_ELF", "WRITABLE_EXECUTABLE_SECTION"} -> 25
       [] r \in {"ELF_NO_SECTION_HEADERS", "REMOVABLE_OR_MOUNTED_MEDIA"} -> 12
       [] r = "WRITABLE_EXECUTABLE_SEGMENT" -> 30
       [] r = "WORLD_WRITABLE_AND_EXECUTABLE" -> 18
       [] r = "HIGH_WHOLE_FILE_ENTROPY" -> 10
       [] r = "HIGH_ENTROPY_BLOCK_RATIO" -> 16
       [] OTHER -> 7]

MCCap == [entropy |-> 30, static |-> 60, context |-> 25]

Plain == [type |-> "regular", readable |-> TRUE, mode |-> {}, magic |-> "OTHER", mime |-> "text",
          elf |-> "valid", anomalies |-> {}, pe |-> None, entropy |-> {}, size |-> 3]

Packed == [Plain EXCEPT !.entropy = EntropyRules, !.mime = "octet", !.size = 9]

Program == [Plain EXCEPT !.magic = "ELF", !.mime = "elf", !.mode = {"worldWritable", "worldExecutable"}]

Implant == [Program EXCEPT !.anomalies = {"WRITABLE_EXECUTABLE_SEGMENT", "ELF_NO_SECTION_HEADERS"},
                           !.entropy = EntropyRules, !.size = 6]

Header == [lfanew |-> 1, signature |-> TRUE, optional |-> 1, supported |-> TRUE, directories |-> 0,
           headers |-> 6, sections |-> [i \in 1..3 |-> [offset |-> 6, size |-> 0, wx |-> FALSE]],
           certificate |-> [offset |-> 0, size |-> 0]]

Image(header) == [Plain EXCEPT !.magic = "MZ", !.mime = "pe", !.pe = header, !.size = 10]

\* Every header field at, below and above its limit.
Headers ==
  {[Header EXCEPT !.lfanew = l, !.optional = o, !.directories = d, !.headers = h, !.signature = s]
     : l \in 0..3, o \in {0, 1, 3, 4}, d \in 0..1, h \in 5..6, s \in {TRUE}}
  \cup {[Header EXCEPT !.sections = [i \in 1..n |-> Header.sections[1]]] : n \in {0, 1, 2, 4}}
  \cup {[Header EXCEPT !.supported = FALSE], [Header EXCEPT !.signature = FALSE],
        [Header EXCEPT !.certificate = [offset |-> 0, size |-> 1]]}

\* Two or three sections and a certificate around the ends of the headers and of
\* the file, in any order.
Sections == [offset : {6, 7, 9}, size : 0..2, wx : {FALSE}]

Triples == {s \in [1..3 -> {r \in Sections : r.size > 0}] : s[1].size = 1 /\ s[3].offset < 9}

Layouts == {[Header EXCEPT !.sections = s, !.certificate = c] :
              s \in [1..2 -> Sections] \cup Triples,
              c \in {[offset |-> 0, size |-> 0], [offset |-> 8, size |-> 2]}}

MCRewrites == {Plain, Implant}

MCContents ==
  MCRewrites
  \cup {Packed, Program, [Plain EXCEPT !.type = "symlink"], [Plain EXCEPT !.type = "directory"],
        [Plain EXCEPT !.readable = FALSE], [Plain EXCEPT !.size = 0],
        [Plain EXCEPT !.mode = {"worldWritable"}, !.size = 8],
        [Implant EXCEPT !.elf = "malformed"], [Implant EXCEPT !.elf = "failed", !.mode = {"suid", "sgid"}]}
  \cup {Image(h) : h \in Headers \cup Layouts}

MCContexts ==
  {[ext |-> "none", location |-> {}], [ext |-> "binary", location |-> {}],
   [ext |-> "content", location |-> {"TEMPORARY_DIRECTORY", "HIDDEN_PATH_COMPONENT"}]}

Symmetry == Permutations(Files)
=============================================================================
