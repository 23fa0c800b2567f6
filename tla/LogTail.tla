------------------------------ MODULE LogTail -------------------------------
(***************************************************************************)
(* runFile of receiver.LogTailReceiver (internal/receiver/logtail.go): the *)
(* goroutine that follows a log file while a program writes to it and      *)
(* something rotates or truncates it.                                      *)
(*                                                                         *)
(* A line is two pieces, its beginning and its end with the newline, which *)
(* a writer may append at once or one after the other; an offset counts    *)
(* pieces.  Files are inodes: `path` is the one the name leads to.  The    *)
(* file system, the writer and the rotation are external: the writer       *)
(* appends to the file it has open, also after a rename, until it opens    *)
(* the name again.  `emitted` is what is given to emit, which offers it to *)
(* the bus and drops it when the bus is full (Bus.tla).                    *)
(***************************************************************************)
EXTENDS Naturals, Sequences, SequencesExt

CONSTANTS MaxLines,    \* bound: lines written
          MaxFiles,    \* bound: files there are, one after the other
          MaxTruncs    \* bound: truncations

ASSUME TailAssumption == MaxLines \in Nat /\ MaxFiles \in Nat \ {0} /\ MaxTruncs \in Nat

Inodes == 1 .. MaxFiles

(* Piece 2n-1 is the beginning of line n, piece 2n its end. *)
Pieces == 1 .. 2 * MaxLines
Newline(p) == p % 2 = 0

VARIABLES
    content,    \* the pieces in each file
    path,       \* the file the name leads to, 0 if none
    files,      \* how many files there have been
    writer,     \* the file the writer has open, 0 before the first
    written,    \* pieces written
    truncs,     \* truncations so far
    at,         \* runFile: "open" | "seek" | "loop" | "read" | "stat" |
                \* "reopen" | "sleep" | "ended"
    opening,    \* nf, the file open() is about to switch to
    file,       \* f and fi, the file being read, 0 before the first
    offset,     \* how far it has been read
    buffer,     \* what reader has read and not returned
    cancelled,  \* the context is done
    emitted,    \* history: the pieces of each event emitted
    got,        \* history: the pieces read from the files
    skipped     \* history: the pieces there were when the first file was opened

diskVars == << content, path, files, writer, written, truncs >>
tailVars == << at, opening, file, offset, buffer, emitted, got, skipped >>
vars == << diskVars, tailVars, cancelled >>

Init ==
    /\ content = [i \in Inodes |-> << >>]
    /\ path \in {0, 1}
    /\ files = path
    /\ writer = path
    /\ written = 0
    /\ truncs = 0
    /\ at = "open"
    /\ opening = 0
    /\ file = 0
    /\ offset = 0
    /\ buffer = << >>
    /\ cancelled = FALSE
    /\ emitted = << >>
    /\ got = << >>
    /\ skipped = {}

-----------------------------------------------------------------------------
(* The writer: the rest of a line it has begun, a whole line, or the       *)
(* beginning of one.                                                       *)
Write ==
    /\ writer # 0
    /\ \E last \in Pieces :
         /\ last \in written + 1 .. written + 2
         /\ Newline(written) \/ last = written + 1
         /\ content' = [content EXCEPT ![writer] =
                          @ \o [i \in 1 .. last - written |-> written + i]]
         /\ written' = last
    /\ UNCHANGED << path, files, writer, truncs, tailVars, cancelled >>

(* The rotation: the name is taken away, leads to a new file, and the      *)
(* writer turns to it between two lines.                                   *)
Rename ==
    /\ path # 0
    /\ path' = 0
    /\ UNCHANGED << content, files, writer, written, truncs, tailVars, cancelled >>

Create ==
    /\ path = 0
    /\ files < MaxFiles
    /\ files' = files + 1
    /\ path' = files + 1
    /\ UNCHANGED << content, writer, written, truncs, tailVars, cancelled >>

WriterReopens ==
    /\ path \notin {0, writer}
    /\ Newline(written)
    /\ writer' = path
    /\ UNCHANGED << content, path, files, written, truncs, tailVars, cancelled >>

Truncate ==
    /\ truncs < MaxTruncs
    /\ writer # 0 /\ content[writer] # << >>
    /\ content' = [content EXCEPT ![writer] = << >>]
    /\ truncs' = truncs + 1
    /\ UNCHANGED << path, files, writer, written, tailVars, cancelled >>

Cancel ==
    /\ ~ cancelled
    /\ cancelled' = TRUE
    /\ UNCHANGED << diskVars, tailVars >>

-----------------------------------------------------------------------------
(* open(), at the start and after a rotation. *)
OpenFile ==
    /\ at \in {"open", "reopen"}
    /\ path # 0
    /\ opening' = path
    /\ at' = "seek"
    /\ UNCHANGED << file, offset, buffer, emitted, got, skipped, diskVars, cancelled >>

(* There is no file of the name, or it cannot be opened, sought or asked   *)
(* for its inode: the first open is retried every 500 ms, a later one      *)
(* leaves the old file in use.                                             *)
OpenFails ==
    /\ at \in {"open", "reopen"}
    /\ at' = IF at = "reopen" THEN "sleep" ELSE IF cancelled THEN "ended" ELSE "open"
    /\ UNCHANGED << opening, file, offset, buffer, emitted, got, skipped, diskVars, cancelled >>

(* A mutated form: the file is read from its start. *)
SeekStart ==
    /\ at = "seek"
    /\ file' = opening
    /\ opening' = 0
    /\ offset' = 0
    /\ buffer' = << >>
    /\ skipped' = IF file = 0 THEN Range(content[opening]) ELSE skipped
    /\ at' = "loop"
    /\ UNCHANGED << emitted, got, diskVars, cancelled >>

(* "Seek to end so we don't replay history." *)
SeekEnd ==
    /\ at = "seek"
    /\ file' = opening
    /\ opening' = 0
    /\ offset' = Len(content[opening])
    /\ buffer' = << >>
    /\ skipped' = IF file = 0 THEN Range(content[opening]) ELSE skipped
    /\ at' = "loop"
    /\ UNCHANGED << emitted, got, diskVars, cancelled >>

LoopTop ==
    /\ at = "loop"
    /\ at' = IF cancelled THEN "ended" ELSE "read"
    /\ UNCHANGED << opening, file, offset, buffer, emitted, got, skipped, diskVars, cancelled >>

(* What there is to read, nothing when the file was cut below the offset. *)
Rest == IF file = 0 THEN << >> ELSE SubSeq(content[file], offset + 1, Len(content[file]))

Ends(s) == { i \in DOMAIN s : Newline(s[i]) }

(* ReadString asks the file for more while no newline is in the buffer; a *)
(* read returns some of what there is.                                    *)
Fill ==
    /\ at = "read"
    /\ Ends(buffer) = {}
    /\ \E n \in 1 .. Len(Rest) :
         /\ buffer' = buffer \o SubSeq(Rest, 1, n)
         /\ got' = got \o SubSeq(Rest, 1, n)
         /\ offset' = offset + n
    /\ UNCHANGED << at, opening, file, emitted, skipped, diskVars, cancelled >>

(* ReadString returns the buffer up to its first newline, which is emitted. *)
ReadLine ==
    /\ at = "read"
    /\ Ends(buffer) # {}
    /\ LET end == Min(Ends(buffer))
       IN /\ emitted' = Append(emitted, SubSeq(buffer, 1, end))
          /\ buffer' = SubSeq(buffer, end + 1, Len(buffer))
    /\ at' = "loop"
    /\ UNCHANGED << opening, file, offset, skipped, got, diskVars, cancelled >>

(* A mutated form: what has no newline is thrown away. *)
ReadEOFDrops ==
    /\ at = "read"
    /\ Ends(buffer) = {} /\ Rest = << >>
    /\ buffer' = << >>
    /\ at' = "stat"
    /\ UNCHANGED << opening, file, offset, emitted, got, skipped, diskVars, cancelled >>

(* At the end of the file ReadString returns what it has without newline;  *)
(* that is emitted as a line of its own.                                   *)
ReadEOF ==
    /\ at = "read"
    /\ Ends(buffer) = {} /\ Rest = << >>
    /\ emitted' = IF buffer = << >> THEN emitted ELSE Append(emitted, buffer)
    /\ buffer' = << >>
    /\ at' = "stat"
    /\ UNCHANGED << opening, file, offset, skipped, got, diskVars, cancelled >>

(* Any error but the end of the file ends the goroutine. *)
ReadError ==
    /\ at = "read"
    /\ at' = "ended"
    /\ UNCHANGED << opening, file, offset, buffer, emitted, got, skipped, diskVars, cancelled >>

(* A mutated form: a rotation is not looked for. *)
StatNothing ==
    /\ at = "stat"
    /\ at' = "sleep"
    /\ UNCHANGED << opening, file, offset, buffer, emitted, got, skipped, diskVars, cancelled >>

(* The rotation check: the name leads to another file. *)
Stat ==
    /\ at = "stat"
    /\ at' = IF path \notin {0, file} THEN "reopen" ELSE "sleep"
    /\ UNCHANGED << opening, file, offset, buffer, emitted, got, skipped, diskVars, cancelled >>

(* It may fail though the name leads to a file. *)
StatFails ==
    /\ at = "stat"
    /\ at' = "sleep"
    /\ UNCHANGED << opening, file, offset, buffer, emitted, got, skipped, diskVars, cancelled >>

(* A mutated form: the sleep does not look at the context. *)
SleepOn ==
    /\ at = "sleep"
    /\ at' = "read"
    /\ UNCHANGED << opening, file, offset, buffer, emitted, got, skipped, diskVars, cancelled >>

Sleep ==
    /\ at = "sleep"
    /\ at' = IF cancelled THEN "ended" ELSE "loop"
    /\ UNCHANGED << opening, file, offset, buffer, emitted, got, skipped, diskVars, cancelled >>

TailStep ==
    \/ OpenFile \/ OpenFails \/ SeekEnd \/ LoopTop \/ Fill \/ ReadLine \/ ReadEOF
    \/ Stat \/ StatFails \/ Sleep

Next ==
    \/ TailStep \/ ReadError \/ Cancel
    \/ Write \/ Rename \/ Create \/ WriterReopens \/ Truncate

Spec == Init /\ [][Next]_vars


-----------------------------------------------------------------------------
TypeOK ==
    /\ content \in [Inodes -> Seq(Pieces)]
    /\ path \in Inodes \cup {0} /\ files \in Inodes \cup {0} /\ writer \in Inodes \cup {0}
    /\ written \in 0 .. 2 * MaxLines
    /\ truncs \in 0 .. MaxTruncs
    /\ at \in {"open", "seek", "loop", "read", "stat", "reopen", "sleep", "ended"}
    /\ opening \in Inodes \cup {0} /\ (opening # 0 <=> at = "seek")
    /\ file \in Inodes \cup {0} /\ (at \notin {"open", "seek", "ended"} => file # 0)
    /\ offset \in 0 .. 2 * MaxLines
    /\ buffer \in Seq(Pieces) /\ (buffer # << >> => at \in {"read", "loop", "ended"})
    /\ cancelled \in BOOLEAN
    /\ emitted \in Seq(Seq(Pieces) \ {<< >>}) /\ got \in Seq(Pieces)
    /\ skipped \subseteq Pieces

(* What is read from the files is emitted, in the order of writing and no  *)
(* piece twice or left out: not after a rotation, not after a truncation,  *)
(* not when the end of the file falls into a line.                         *)
InWritingOrder ==
    /\ FlattenSeq(emitted) \o buffer = got
    /\ \A i, j \in DOMAIN got : got[i] =< written /\ (i < j => got[i] < got[j])

(* "Seek to end so we don't replay history": what the file held when the   *)
(* tail began is not emitted, whatever happens to the file later.          *)
NoHistory == \A i \in DOMAIN emitted : Range(emitted[i]) \cap skipped = {}

(* The file of this name has pieces that are not emitted. *)
FileBehind == path = file /\ at # "ended" /\ (Rest # << >> \/ buffer # << >>)

(* "Detect rotation": once the name stays with a file, that file is read.  *)
FollowsRotation ==
    \A i \in Inodes : <>[](path = i) => <>[](file = i \/ at = "ended")
=============================================================================
