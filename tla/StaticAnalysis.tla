-------------------------- MODULE StaticAnalysis --------------------------
(***************************************************************************)
(* One scan of one file: StaticFileScanner (static_analyzer.py) with the   *)
(* entropy engine (entropy.py) and the PE inspection (pe.py), and the      *)
(* score of its result (Scoring).                                          *)
(*                                                                         *)
(* A scan reads the file six times: stat, head, libmagic, ELF, PE and      *)
(* entropy, each through its own open of the path (a manual scan) or of    *)
(* /proc/self/fd/N (a fanotify event).  Between any two reads a program    *)
(* may put another file at the path or rewrite the file in place.  The     *)
(* contents of a file are what the analyses tell apart; sizes are counted  *)
(* in units chosen by the instance.                                        *)
(*                                                                         *)
(* A definition just before another of nearly the same name is a plausible *)
(* defect, used only to test that the properties notice it.                *)
(***************************************************************************)
EXTENDS Scoring, Sequences, FiniteSets, TLC

CONSTANTS
  Files,            \* inodes
  Contents,         \* what a file may hold, a set of Content
  Rewrites,         \* the contents programs write during a scan
  Contexts,         \* what the context path says, a set of Context
  DosSize, CoffSize, MagicSize, BaseSize, DirSize, SectionSize,   \* sizes of PE structures
  MaxPeOffset, MaxOptional, MaxSections,               \* the inspection limits of pe.py
  BlockSize, ReadChunk, MaxReported,                   \* EntropyConfig
  MaxChanges,       \* bound on what programs do during the scan
  None

ExtensionClasses == {"none", "content", "document", "binary", "other"}

\* offset, size: the raw range of a section; wx: writable and executable.
Section == [offset : Nat, size : Nat, wx : BOOLEAN]

PeHeader == [lfanew : Nat, signature : BOOLEAN, optional : Nat, supported : BOOLEAN,
             directories : Nat, headers : Nat, sections : Seq(Section),
             certificate : [offset : Nat, size : Nat]]

\* elf: what pyelftools makes of it; anomalies: the ELF rules it satisfies.
Content == [type : {"regular", "symlink", "directory"}, readable : BOOLEAN,
            mode : SUBSET {"suid", "sgid", "worldWritable", "worldExecutable"},
            magic : {"ELF", "MZ", "OTHER"}, mime : {"elf", "pe", "text", "octet"},
            elf : {"valid", "malformed", "failed"}, anomalies : SUBSET ElfRules,
            pe : PeHeader \cup {None}, entropy : SUBSET EntropyRules, size : Nat]

\* The extension of the path and the rules its directories satisfy.
Context == [ext : ExtensionClasses, location : SUBSET ContextRules]

\* EntropyConfig.__post_init__
ValidEntropyConfig == BlockSize > 0 /\ ReadChunk >= BlockSize /\ ReadChunk % BlockSize = 0 /\ MaxReported > 0

ASSUME AnalysisAssumption ==
  /\ Contents \subseteq Content /\ Rewrites \subseteq Contents
  /\ \A c \in Contents : c.magic = "MZ" => c.pe \in PeHeader
  /\ Contexts \subseteq Context
  /\ {DosSize, CoffSize, MagicSize, BaseSize, DirSize, SectionSize} \subseteq Nat \ {0}
  /\ {MaxPeOffset, MaxOptional, MaxSections, BlockSize, ReadChunk, MaxReported, MaxChanges} \subseteq Nat
  /\ MagicSize <= BaseSize /\ ValidEntropyConfig

VARIABLES
  path,     \* the file at the scanned path, or None
  disk,     \* what each file holds
  changes,
  scan,     \* the StaticScanResult under construction
  stream,   \* the entropy engine's open stream and its counters
  sources   \* history: the files that evidence was read from

scanVars == <<path, disk, changes, scan, stream, sources>>

Unreadable(c) == IF c = None THEN TRUE ELSE ~c.readable \/ c.type = "directory"
NotRegular(c) == IF c = None THEN TRUE ELSE c.type # "regular"

CeilDiv(a, b) == (a + b - 1) \div b
-----------------------------------------------------------------------------
(* PE inspection: the first check that fails, in the order of _inspect.    *)
(* The read budget, the sum of the largest headers the other checks let    *)
(* through, is never exceeded and has no check here.                       *)

TableOffset(h) == h.lfanew + CoffSize + h.optional
TableEnd(h) == TableOffset(h) + Len(h.sections) * SectionSize

\* The sections with raw data, by index.
RawSections(h) == {i \in DOMAIN h.sections : h.sections[i].size > 0}

\* The ranges of sections i and then j overlap.
RunsInto(h, i, j) == h.sections[j].offset < h.sections[i].offset + h.sections[i].size

\* Neighbours in the order of the section table.
AdjacentOverlapUnsorted(h) ==
  \E i, j \in RawSections(h) :
    /\ i < j /\ \A k \in RawSections(h) : k <= i \/ j <= k
    /\ RunsInto(h, i, j)

\* The order of the tuples (raw_offset, end, index).
SortsBefore(h, i, j) ==
  LET a == h.sections[i]
      b == h.sections[j]
  IN \/ a.offset < b.offset
     \/ a.offset = b.offset /\ a.size < b.size
     \/ a.offset = b.offset /\ a.size = b.size /\ i < j

\* raw_ranges.sort() and the comparison of neighbours.
AdjacentOverlap(h) ==
  \E i, j \in RawSections(h) :
    /\ SortsBefore(h, i, j)
    /\ ~\E k \in RawSections(h) : SortsBefore(h, i, k) /\ SortsBefore(h, k, j)
    /\ RunsInto(h, i, j)

BadCertificate(h, size) ==
  /\ h.certificate.offset > 0 \/ h.certificate.size > 0
  /\ \/ h.certificate.offset = 0 \/ h.certificate.size = 0
     \/ h.certificate.offset < h.headers
     \/ h.certificate.offset + h.certificate.size > size

CertificateOverlap(h) ==
  /\ h.certificate.size > 0
  /\ \E i \in RawSections(h) :
       LET s == h.sections[i] IN
       /\ h.certificate.offset < s.offset + s.size
       /\ s.offset < h.certificate.offset + h.certificate.size

PeChecks(h, size) ==
  <<[fails |-> size < DosSize, code |-> "INCOMPLETE"],
    [fails |-> h.lfanew < DosSize \/ h.lfanew + CoffSize > size, code |-> "INCOMPLETE"],
    [fails |-> h.lfanew > MaxPeOffset, code |-> "UNSUPPORTED"],
    [fails |-> ~h.signature, code |-> "INCOMPLETE"],
    [fails |-> Len(h.sections) = 0, code |-> "INCOMPLETE"],
    [fails |-> Len(h.sections) > MaxSections, code |-> "UNSUPPORTED"],
    [fails |-> h.optional < MagicSize, code |-> "INCOMPLETE"],
    [fails |-> h.optional > MaxOptional, code |-> "UNSUPPORTED"],
    [fails |-> TableOffset(h) > size, code |-> "INCOMPLETE"],
    [fails |-> ~h.supported, code |-> "UNSUPPORTED"],
    [fails |-> h.optional < BaseSize, code |-> "INCOMPLETE"],
    [fails |-> h.directories > (h.optional - BaseSize) \div DirSize, code |-> "INCOMPLETE"],
    [fails |-> TableEnd(h) > size, code |-> "INCOMPLETE"],
    [fails |-> h.headers < TableEnd(h) \/ h.headers > size, code |-> "INCOMPLETE"],
    [fails |-> \E i \in RawSections(h) :
                 LET s == h.sections[i] IN s.offset < h.headers \/ s.offset + s.size > size,
     code |-> "INCOMPLETE"],
    [fails |-> AdjacentOverlap(h), code |-> "INCOMPLETE"],
    [fails |-> BadCertificate(h, size), code |-> "INCOMPLETE"],
    [fails |-> CertificateOverlap(h), code |-> "INCOMPLETE"]>>

\* status: of pe_summary; isPe: set once the signature is read.
Inspect(h, size) ==
  LET failing == {i \in DOMAIN PeChecks(h, size) : PeChecks(h, size)[i].fails}
      first == CHOOSE i \in failing : \A j \in failing : i <= j
  IN IF failing = {}
     THEN [status |-> "COMPLETE", isPe |-> TRUE]
     ELSE [status |-> PeChecks(h, size)[first].code, isPe |-> first > 4]

NotPe == [status |-> "NOT_PE", isPe |-> FALSE]

\* analyze_pe: the head only saves the open; every field is read again.
AnalyzePe(head, c) ==
  IF head # "MZ" THEN NotPe
  ELSE IF Unreadable(c) THEN [NotPe EXCEPT !.status = "ERROR"]
  ELSE IF c.magic # "MZ" THEN NotPe
  ELSE Inspect(c.pe, c.size)
-----------------------------------------------------------------------------
(* Evidence.                                                               *)

\* analyze_permissions, and the elif of _collect_static between the two.
PermissionRules(mode) ==
       (IF "suid" \in mode THEN {"SUID_BIT_SET"} ELSE {})
  \cup (IF "sgid" \in mode THEN {"SGID_BIT_SET"} ELSE {})
  \cup (IF "worldWritable" \notin mode THEN {}
        ELSE IF "worldExecutable" \in mode THEN {"WORLD_WRITABLE_AND_EXECUTABLE"}
                                           ELSE {"WORLD_WRITABLE"})

\* _fallback_mime: the signature, else what the extension suggests, else the bytes.
FallbackMime(ext, head) ==
  CASE head = "ELF" -> {"elf"}
    [] head = "MZ" -> {"pe"}
    [] head = "OTHER" /\ ext = "content" -> {"text"}
    [] OTHER -> {"text", "octet"}

Expected(ext) == CASE ext = "content" -> {"text"} [] ext = "binary" -> {"elf", "pe"} [] OTHER -> {}

\* evaluate_mime_extension
Inconsistent(ext, mime, isElf, isPe) ==
  /\ ext # "none"
  /\ \/ isPe /\ ext \in {"content", "document"}
     \/ isElf /\ ext = "content"
     \/ Expected(ext) # {} /\ mime \notin Expected(ext)

\* The file each read of the scan opens by name: by its path.
TargetByPath == path

\* A trusted scan opens /proc/self/fd/N, which is the file of the event.
Target == IF scan.trusted THEN scan.fd ELSE path

Holds(f) == IF f = None THEN None ELSE disk[f]

From(f) == sources' = IF f = None THEN sources ELSE sources \cup {f}
-----------------------------------------------------------------------------
At(pc) == scan.pc = pc
Goto(pc) == scan' = [scan EXCEPT !.pc = pc]
Fail(pc) == scan' = [scan EXCEPT !.pc = pc, !.errors = TRUE]

NoScan == [pc |-> "start", trusted |-> FALSE, fd |-> None, ext |-> "none", identity |-> None,
           indicators |-> {}, errors |-> FALSE, head |-> "OTHER", mime |-> "octet", pe |-> NotPe,
           status |-> "ERROR", result |-> Degraded]

NoStream == [file |-> None, size |-> 0, read |-> 0, carry |-> 0, blocks |-> 0, reported |-> 0,
             seen |-> {}, complete |-> FALSE]

ScanInit ==
  /\ path \in Files
  /\ disk \in {[f \in Files |-> IF f = path THEN c ELSE d] : c \in Contents, d \in Rewrites}
  /\ changes = 0 /\ scan = NoScan /\ stream = NoStream /\ sources = {}

\* scan and scan_open_fd
Begin ==
  /\ At("start")
  /\ \E trusted \in BOOLEAN, context \in Contexts :
       /\ trusted => disk[path].type # "symlink"
       /\ scan' = [scan EXCEPT !.pc = "stat", !.trusted = trusted, !.ext = context.ext,
                               !.fd = IF trusted THEN path ELSE None,
                               !.indicators = context.location]
  /\ UNCHANGED <<path, disk, changes, stream, sources>>

\* stat or lstat.  A failure here, or in reading the head, leaves the status ERROR.
Stat ==
  /\ At("stat")
  /\ IF NotRegular(Holds(Target))
     THEN Fail("score") /\ UNCHANGED sources
     ELSE /\ scan' = [scan EXCEPT !.pc = "head", !.identity = Target,
                                  !.indicators = @ \cup PermissionRules(disk[Target].mode)]
          /\ From(Target)
  /\ UNCHANGED <<path, disk, changes, stream>>

ReadHead ==
  /\ At("head")
  /\ IF Unreadable(Holds(Target))
     THEN Fail("score") /\ UNCHANGED sources
     ELSE scan' = [scan EXCEPT !.pc = "mime", !.head = disk[Target].magic] /\ From(Target)
  /\ UNCHANGED <<path, disk, changes, stream>>

\* libmagic opens the file by name; when it is missing or fails, the head decides.
DetectMime ==
  /\ At("mime")
  /\ \/ /\ ~Unreadable(Holds(Target))
        /\ scan' = [scan EXCEPT !.pc = "elf", !.mime = disk[Target].mime]
        /\ From(Target)
     \/ /\ \E mime \in FallbackMime(scan.ext, scan.head) :
             scan' = [scan EXCEPT !.pc = "elf", !.mime = mime]
        /\ UNCHANGED sources
  /\ UNCHANGED <<path, disk, changes, stream>>

\* Nothing to do for other files; without pyelftools only the magic is known.
SkipElf == At("elf") /\ Goto("pe") /\ UNCHANGED <<path, disk, changes, stream, sources>>

\* An exception keeps the anomalies found before it, and MALFORMED_ELF is the one
\* error that is also evidence.
AnalyzeElf ==
  /\ At("elf") /\ scan.head = "ELF"
  /\ IF Unreadable(Holds(Target))
     THEN Fail("pe") /\ UNCHANGED sources
     ELSE LET c == disk[Target]
              parsed == IF c.magic = "ELF" THEN c.elf ELSE "malformed"
              evidence == CASE parsed = "valid" -> {c.anomalies}
                            [] parsed = "malformed" -> {found \cup {"MALFORMED_ELF"} : found \in SUBSET c.anomalies}
                            [] OTHER -> SUBSET c.anomalies
          IN /\ \E found \in evidence :
                  scan' = [scan EXCEPT !.pc = "pe", !.errors = parsed # "valid",
                                       !.indicators = @ \cup found]
             /\ From(Target)
  /\ UNCHANGED <<path, disk, changes, stream>>

\* The PE evidence that counts is its status and is_pe; its anomalies are advisory.
InspectPe ==
  /\ At("pe")
  /\ LET pe == AnalyzePe(scan.head, Holds(Target)) IN
     scan' = [scan EXCEPT !.pc = "entropyStat", !.pe = pe,
                !.indicators = IF Inconsistent(scan.ext, scan.mime, scan.head = "ELF", pe.isPe)
                               THEN @ \cup {"MIME_EXTENSION_INCONSISTENT"} ELSE @]
  /\ IF scan.head = "MZ" THEN From(Target) ELSE UNCHANGED sources
  /\ UNCHANGED <<path, disk, changes, stream>>

\* _validate_target, or fstat of the event's descriptor.
EntropyStat ==
  /\ At("entropyStat")
  /\ IF NotRegular(Holds(Target))
     THEN Fail("conclude") /\ UNCHANGED stream
     ELSE Goto("entropyOpen") /\ stream' = [stream EXCEPT !.size = disk[Target].size]
  /\ UNCHANGED <<path, disk, changes, sources>>

\* _open_binary, or dup of the event's descriptor, rewound.
EntropyOpen ==
  /\ At("entropyOpen")
  /\ IF Unreadable(Holds(Target))
     THEN Fail("conclude") /\ UNCHANGED stream
     ELSE Goto("entropy") /\ stream' = [stream EXCEPT !.file = Target]
  /\ UNCHANGED <<path, disk, changes, sources>>

\* max(1, ceil(expected_blocks / max_reported_blocks))
Stride(size) ==
  LET needed == CeilDiv(CeilDiv(size, BlockSize), MaxReported) IN IF needed < 1 THEN 1 ELSE needed

\* Of the blocks with indices first..last-1, how many are sampled.
Sampled(first, last, stride) == Cardinality({i \in first..(last - 1) : i % stride = 0})

\* Forgets the bytes carried over from the previous chunk.
BlocksOfChunk(carry, n) == [blocks |-> n \div BlockSize, carry |-> n % BlockSize]

\* The complete blocks in the carried bytes and a chunk of n.
BlocksOf(carry, n) == [blocks |-> (carry + n) \div BlockSize, carry |-> (carry + n) % BlockSize]

\* One unbuffered read: any number of bytes up to a chunk, or the end of the file.
EntropyRead ==
  /\ At("entropy")
  /\ \E n \in 1..Lesser(ReadChunk, disk[stream.file].size - stream.read) :
       LET done == BlocksOf(stream.carry, n) IN
       stream' = [stream EXCEPT !.read = @ + n, !.carry = done.carry, !.blocks = @ + done.blocks,
                    !.reported = @ + Sampled(stream.blocks, stream.blocks + done.blocks, Stride(stream.size)),
                    !.seen = @ \cup {disk[stream.file]}]
  /\ From(stream.file)
  /\ UNCHANGED <<path, disk, changes, scan>>

\* The rules the bytes read may satisfy; bytes of several contents, any of them.
EntropyEvidence(seen) ==
  IF Cardinality(seen) > 1 THEN SUBSET EntropyRules
  ELSE IF seen = {} THEN {{}} ELSE {c.entropy : c \in seen}

\* The end of the file: the carried bytes are the last block.
EntropyEnd ==
  /\ At("entropy") /\ stream.read >= disk[stream.file].size
  /\ LET last == stream.blocks + (IF stream.carry > 0 THEN 1 ELSE 0) IN
     stream' = [stream EXCEPT !.blocks = last, !.carry = 0, !.complete = stream.read = stream.size,
                  !.reported = @ + Sampled(stream.blocks, last, Stride(stream.size))]
  /\ IF stream.read # stream.size
     THEN Fail("conclude")
     ELSE \E rules \in EntropyEvidence(stream.seen) :
            scan' = [scan EXCEPT !.pc = "conclude", !.indicators = @ \cup rules]
  /\ UNCHANGED <<path, disk, changes, sources>>

EntropyFails ==
  /\ At("entropy") /\ Fail("conclude")
  /\ UNCHANGED <<path, disk, changes, stream, sources>>

Conclude ==
  /\ At("conclude")
  /\ scan' = [scan EXCEPT !.pc = "score",
                !.status = IF scan.errors \/ scan.pe.status \in {"INCOMPLETE", "UNSUPPORTED", "ERROR"}
                           THEN "PARTIAL" ELSE "OK"]
  /\ UNCHANGED <<path, disk, changes, stream, sources>>

ScoreResult ==
  /\ At("score")
  /\ scan' = [scan EXCEPT !.pc = "done", !.result = ScoreScan(scan.status, scan.indicators)]
  /\ UNCHANGED <<path, disk, changes, stream, sources>>

Scan == \/ Begin \/ Stat \/ ReadHead \/ DetectMime \/ SkipElf \/ AnalyzeElf \/ InspectPe
        \/ EntropyStat \/ EntropyOpen \/ EntropyRead \/ EntropyEnd \/ EntropyFails
        \/ Conclude \/ ScoreResult
-----------------------------------------------------------------------------
(* Other programs.                                                         *)

UnderWay == scan.pc \notin {"start", "score", "done"} /\ changes < MaxChanges

\* The path is removed, or given to another file.
Replace ==
  /\ UnderWay
  /\ path' \in (Files \cup {None}) \ {path}
  /\ changes' = changes + 1
  /\ UNCHANGED <<disk, scan, stream, sources>>

\* A file is truncated, extended or overwritten in place.
Rewrite ==
  /\ UnderWay
  /\ \E f \in Files, c \in Rewrites :
       /\ c.type = disk[f].type /\ c # disk[f]
       /\ disk' = [disk EXCEPT ![f] = c]
  /\ changes' = changes + 1
  /\ UNCHANGED <<path, scan, stream, sources>>

ScanNext == Scan \/ Replace \/ Rewrite

ScanSpec == ScanInit /\ [][ScanNext]_scanVars
-----------------------------------------------------------------------------
(* Properties.                                                             *)

Done == At("done")

\* The evidence of a fanotify scan is that of the file the kernel opened for the
\* event, whatever is put at its path meanwhile (the promise of scan_open_fd).
EvidenceOfOneFile == Done /\ scan.trusted => sources \subseteq {scan.fd}

\* A complete entropy report counts every block of the file once, however the
\* reads split it, and lists an even sample that fits max_reported_blocks.
BlocksCounted ==
  Done /\ stream.complete =>
    /\ stream.blocks = CeilDiv(stream.size, BlockSize)
    /\ stream.reported = CeilDiv(stream.blocks, Stride(stream.size))
    /\ stream.reported <= MaxReported

Disjoint(a, b) == a.offset + a.size <= b.offset \/ b.offset + b.size <= a.offset

\* The ranges of the headers (0), of the sections and of the certificate.
Ranges(h) ==
  LET certificate == Len(h.sections) + 1 IN
  [i \in {0} \cup RawSections(h) \cup {k \in {certificate} : h.certificate.size > 0} |->
     IF i = 0 THEN [offset |-> 0, size |-> h.headers]
     ELSE IF i = certificate THEN h.certificate ELSE h.sections[i]]

\* What the PE format asks of an image of the given size within the limits of
\* pe.py, as one set of ranges rather than a sequence of checks.
WellFormed(h, size) ==
  /\ h.signature /\ h.supported
  /\ h.lfanew \in DosSize..MaxPeOffset /\ h.optional \in BaseSize..MaxOptional
  /\ Len(h.sections) \in 1..MaxSections
  /\ BaseSize + h.directories * DirSize <= h.optional
  /\ TableEnd(h) <= h.headers
  /\ h.certificate.offset > 0 <=> h.certificate.size > 0
  /\ \A i \in DOMAIN Ranges(h) : Ranges(h)[i].offset + Ranges(h)[i].size <= size
  /\ \A i, j \in DOMAIN Ranges(h) : i # j => Disjoint(Ranges(h)[i], Ranges(h)[j])

\* An MZ file that nobody changes is reported as a COMPLETE image exactly when it
\* is well formed: headers, sections and certificate within the file and disjoint,
\* although _inspect compares only neighbours of the sorted sections.
PeReportExact ==
  Done /\ scan.trusted /\ changes = 0 /\ scan.head = "MZ" =>
    (scan.pe.status = "COMPLETE" <=> WellFormed(disk[scan.fd].pe, disk[scan.fd].size))

\* The entropy and location rules are not counted as static evidence, and the gate
\* asks for some: true of the shipped policy, not required by validate.
GateMeaningful == DenyMinStatic > 0 /\ \A r \in PolicyRules \ StaticRules : Category[r] # "static"

\* A denial is earned: the scan was complete, entropy and location were not enough
\* without static evidence, and no part of the evidence alone would have led to a
\* stronger decision (more evidence never weakens a verdict).
VerdictJustified ==
  Done =>
    /\ scan.result.decision = "DENY" =>
         /\ scan.status = "OK"
         /\ GateMeaningful => scan.indicators \cap StaticRules # {}
    /\ scan.result.status = "OK" =>
         \A part \in SUBSET scan.indicators :
           DecisionRank(Decision(part)) <= DecisionRank(scan.result.decision)
=============================================================================
