--------------------------- MODULE ReceiverProofs ---------------------------
(***************************************************************************)
(* For any lines, rotations, datagrams, streams, processes and targets:    *)
(* what the receivers emit is what there was to read, in its order; a      *)
(* scraped program that is well is seen again in time; and the share of a  *)
(* process is bounded by what the host did.                                *)
(***************************************************************************)
EXTENDS Sources, OTLPReceiver, ListProofs

-----------------------------------------------------------------------------
(* The tail of a file (LogTail).                                           *)

(* Pieces were written in the order of their numbers, up to n. *)
Ordered(s, n) == \A i, j \in DOMAIN s : s[i] =< n /\ (i < j => s[i] < s[j])

(* Pieces are numbered. *)
LEMMA PiecesNumbered == \A p \in Pieces : p \in Nat
  BY TailAssumption DEF Pieces

FileTyped ==
    /\ content \in [Inodes -> Seq(Pieces)]
    /\ path \in Inodes \cup {0} /\ files \in Nat /\ writer \in Inodes \cup {0}
    /\ written \in Nat
    /\ at \in {"open", "seek", "loop", "read", "stat", "reopen", "sleep", "ended"}
    /\ opening \in Inodes \cup {0} /\ (opening # 0 <=> at = "seek")
    /\ file \in Inodes \cup {0} /\ (at \notin {"open", "seek", "ended"} => file # 0)
    /\ offset \in Nat
    /\ buffer \in Seq(Pieces) /\ (buffer # << >> => at \in {"read", "loop", "ended"})
    /\ emitted \in Seq(Seq(Pieces)) /\ got \in Seq(Pieces)
    /\ skipped \subseteq Pieces

(* The files hold what was written in its order. *)
FilesOrdered == \A f \in Inodes : Ordered(content[f], written)

(* What lies behind the offset is newer than all that was read or skipped. *)
AheadIsNew ==
    file # 0 => \A k \in DOMAIN content[file] : k > offset =>
        /\ \A i \in DOMAIN got : got[i] < content[file][k]
        /\ \A x \in skipped : x < content[file][k]

(* What was skipped is older than all that was read. *)
SkippedIsOld ==
    /\ \A x \in skipped : x =< written /\ \A i \in DOMAIN got : x < got[i]
    /\ file = 0 => got = << >>

(* An event has only what was read. *)
EventsWereRead ==
    /\ \A i \in DOMAIN emitted : Range(emitted[i]) \subseteq Range(got)
    /\ Range(buffer) \subseteq Range(got)

FileInv ==
    /\ FileTyped /\ FilesOrdered /\ AheadIsNew /\ SkippedIsOld /\ EventsWereRead
    /\ InWritingOrder

(* The invariant holds of a tail that was just started. *)
LEMMA FileInit == Init => FileInv
<1> SUFFICES ASSUME Init PROVE FileInv
  OBVIOUS
<1> USE DEF Init
<1>1. << >> \in Seq(Pieces) /\ << >> \in Seq(Seq(Pieces))
  OBVIOUS
<1>2. 1 \in Inodes
  BY TailAssumption DEF Inodes
<1>3. FileTyped
  <2>1. path \in Inodes \cup {0} /\ files \in Nat /\ writer \in Inodes \cup {0}
    BY <1>2
  <2>2. content \in [Inodes -> Seq(Pieces)]
    BY <1>1
  <2> QED
    BY <1>1, <2>1, <2>2 DEF FileTyped
<1>4. FilesOrdered
  BY DEF FilesOrdered, Ordered
<1>5. AheadIsNew /\ SkippedIsOld
  BY DEF AheadIsNew, SkippedIsOld
<1>6. EventsWereRead
  BY DEF EventsWereRead, Range
<1>7. InWritingOrder
  <2>1. FlattenSeq(emitted) \o buffer = got
    BY FlattenEmpty
  <2> QED
    BY <2>1 DEF InWritingOrder
<1> QED
  BY <1>3, <1>4, <1>5, <1>6, <1>7 DEF FileInv

(* The disk changes under the tail: what is written is newer than all.     *)
LEMMA WriteKeeps == FileInv /\ Write => FileInv'
<1> SUFFICES ASSUME FileInv, Write PROVE FileInv'
  OBVIOUS
<1> USE DEF FileInv
<1>0. UNCHANGED << path, files, writer, truncs, tailVars, cancelled >>
  BY DEF Write
<1>1. PICK last \in Pieces :
         /\ last \in written + 1 .. written + 2
         /\ content' = [content EXCEPT ![writer] = @ \o [i \in 1 .. last - written |-> written + i]]
         /\ written' = last
  BY DEF Write
<1>2. writer \in Inodes /\ written \in Nat /\ last \in Nat /\ written < last
  BY <1>1 DEF Write, FileTyped
<1> DEFINE more == [i \in 1 .. last - written |-> written + i]
           old == content[writer]
<1>3. more \in Seq(Pieces) /\ Len(more) = last - written
      /\ \A i \in 1 .. Len(more) : more[i] = written + i
  BY <1>1, <1>2, TailAssumption DEF Pieces
<1>4. old \in Seq(Pieces) /\ Ordered(old, written)
  BY <1>2 DEF FileTyped, FilesOrdered
<1> HIDE DEF more, old
<1>5. /\ old \o more \in Seq(Pieces) /\ Len(old \o more) = Len(old) + Len(more)
      /\ \A i \in 1 .. Len(old) : (old \o more)[i] = old[i]
      /\ \A i \in Len(old) + 1 .. Len(old) + Len(more) : (old \o more)[i] = written + (i - Len(old))
  BY <1>3, <1>4
<1>6. content' = [content EXCEPT ![writer] = old \o more]
  BY <1>1 DEF more, old
<1>7. Ordered(old \o more, last)
  <2> SUFFICES ASSUME NEW i \in 1 .. Len(old) + Len(more), NEW j \in 1 .. Len(old) + Len(more)
               PROVE  (old \o more)[i] =< last /\ (i < j => (old \o more)[i] < (old \o more)[j])
    BY <1>5 DEF Ordered
  <2>1. CASE i \in 1 .. Len(old)
    <3>1. (old \o more)[i] = old[i] /\ old[i] =< written /\ old[i] \in Nat
      BY <1>4, <1>5, <2>1, PiecesNumbered DEF Ordered
    <3>2. CASE j \in 1 .. Len(old)
      <4>1. (old \o more)[j] = old[j] /\ (i < j => old[i] < old[j])
        BY <1>4, <1>5, <2>1, <3>2 DEF Ordered
      <4> QED
        BY <1>2, <3>1, <4>1
    <3>3. CASE j \notin 1 .. Len(old)
      <4>1. (old \o more)[j] = written + (j - Len(old)) /\ j - Len(old) > 0
        BY <1>4, <1>5, <3>3
      <4> QED
        BY <1>2, <1>4, <3>1, <4>1
    <3> QED
      BY <3>2, <3>3
  <2>2. CASE i \notin 1 .. Len(old)
    <3>1. i \in Len(old) + 1 .. Len(old) + Len(more) /\ (i < j => j \in Len(old) + 1 .. Len(old) + Len(more))
      BY <1>3, <1>4, <2>2
    <3>2. (old \o more)[i] = written + (i - Len(old))
          /\ (i < j => (old \o more)[j] = written + (j - Len(old)))
      BY <1>5, <3>1
    <3> QED
      BY <1>2, <1>3, <1>4, <3>2
  <2> QED
    BY <2>1, <2>2
<1>8. \A f \in Inodes : Ordered(content[f], last)
  <2>1. \A f \in Inodes : content[f] \in Seq(Pieces) /\ Ordered(content[f], written)
    BY DEF FileTyped, FilesOrdered
  <2>2. \A f \in Inodes : \A i \in DOMAIN content[f] : content[f][i] \in Nat
    BY <2>1, PiecesNumbered
  <2> QED
    BY <1>2, <2>1, <2>2 DEF Ordered
<1>9. FilesOrdered'
  <2> SUFFICES ASSUME NEW f \in Inodes PROVE Ordered(content'[f], last)
    BY <1>1 DEF FilesOrdered
  <2>1. content'[f] = IF f = writer THEN old \o more ELSE content[f]
    BY <1>2, <1>6 DEF FileTyped
  <2> QED
    BY <1>7, <1>8, <2>1
<1>10. FileTyped'
  <2>1. content' \in [Inodes -> Seq(Pieces)]
    BY <1>5, <1>6 DEF FileTyped
  <2> QED
    BY <1>0, <1>1, <1>2, <2>1 DEF FileTyped, tailVars
<1>11. \A i \in DOMAIN got : got[i] =< written /\ got[i] \in Nat
  BY PiecesNumbered DEF InWritingOrder, FileTyped
<1>12. \A x \in skipped : x =< written /\ x \in Nat
  BY PiecesNumbered DEF SkippedIsOld, FileTyped
<1>13. AheadIsNew'
  <2> SUFFICES ASSUME file # 0, NEW k \in DOMAIN content'[file], k > offset
               PROVE  /\ \A i \in DOMAIN got : got[i] < content'[file][k]
                      /\ \A x \in skipped : x < content'[file][k]
    BY <1>0 DEF AheadIsNew, tailVars
  <2>1. file \in Inodes
    BY DEF FileTyped
  <2>2. CASE k \in DOMAIN content[file]
    <3>1. content'[file][k] = content[file][k]
      BY <1>2, <1>4, <1>5, <1>6, <2>1, <2>2 DEF FileTyped, old
    <3> QED
      BY <2>2, <3>1 DEF AheadIsNew
  <2>3. CASE k \notin DOMAIN content[file]
    <3>0. file = writer
      BY <1>2, <1>6, <2>1, <2>3 DEF FileTyped
    <3>1. file = writer /\ k \in Len(old) + 1 .. Len(old) + Len(more)
      <4>0. content'[file] = old \o more /\ content[file] = old
        BY <1>2, <1>6, <3>0 DEF FileTyped, old
      <4>1. DOMAIN content'[file] = 1 .. Len(old) + Len(more) /\ DOMAIN content[file] = 1 .. Len(old)
        BY <1>4, <1>5, <4>0
      <4>2. Len(old) \in Nat /\ Len(more) \in Nat
        BY <1>3, <1>4
      <4> QED
        BY <2>3, <3>0, <4>1, <4>2
    <3>2. content'[file] = old \o more /\ Len(old) \in Nat /\ Len(more) \in Nat
      BY <1>2, <1>3, <1>4, <1>6, <3>1 DEF FileTyped
    <3>3. content'[file][k] = written + (k - Len(old)) /\ k - Len(old) > 0
      BY <1>5, <3>1, <3>2
    <3> QED
      BY <1>2, <1>11, <1>12, <3>1, <3>2, <3>3
  <2> QED
    BY <2>2, <2>3
<1>14. SkippedIsOld' /\ EventsWereRead'
  <2>1. \A x \in skipped : x =< last
    BY <1>2, <1>12
  <2> QED
    BY <1>0, <1>1, <2>1 DEF SkippedIsOld, EventsWereRead, tailVars
<1>15. InWritingOrder'
  <2>1. \A i \in DOMAIN got : got[i] =< last
    BY <1>2, <1>11
  <2> QED
    BY <1>0, <1>1, <2>1 DEF InWritingOrder, tailVars
<1> QED
  BY <1>9, <1>10, <1>13, <1>14, <1>15

(* The rotation, the truncation and the steps that only go on. *)
LEMMA QuietKeeps ==
  ASSUME FileInv,
         Rename \/ Create \/ WriterReopens \/ OpenFile \/ OpenFails \/ LoopTop \/ ReadError
             \/ Stat \/ StatFails \/ Sleep \/ UNCHANGED fileVars
  PROVE  FileInv'
<1>1. UNCHANGED << content, written, file, offset, buffer, emitted, got, skipped >>
  BY DEF Rename, Create, WriterReopens, OpenFile, OpenFails, LoopTop, ReadError, Stat, StatFails,
         Sleep, tailVars, diskVars, fileVars
<1>2. FileTyped'
  <2> USE DEF FileInv, FileTyped
  <2>1. CASE Create
    <3>1. files' \in Nat /\ path' \in Inodes
      BY <2>1, TailAssumption DEF Create, Inodes
    <3> QED
      BY <1>1, <2>1, <3>1 DEF Create, tailVars
  <2>2. CASE Rename \/ WriterReopens \/ UNCHANGED fileVars
    BY <1>1, <2>2 DEF Rename, WriterReopens, tailVars, diskVars, fileVars
  <2>3. CASE OpenFile \/ OpenFails
    BY <1>1, <2>3 DEF OpenFile, OpenFails, diskVars
  <2>4. CASE LoopTop \/ ReadError
    BY <1>1, <2>4 DEF LoopTop, ReadError, diskVars
  <2>5. CASE Stat \/ StatFails \/ Sleep
    BY <1>1, <2>5 DEF Stat, StatFails, Sleep, diskVars
  <2> QED
    BY <2>1, <2>2, <2>3, <2>4, <2>5
<1> QED
  BY <1>1, <1>2 DEF FileInv, FilesOrdered, AheadIsNew, SkippedIsOld, EventsWereRead, InWritingOrder

(* A file that is cut has nothing ahead until more is written.             *)
LEMMA TruncateKeeps == FileInv /\ Truncate => FileInv'
<1> SUFFICES ASSUME FileInv, Truncate PROVE FileInv'
  OBVIOUS
<1> USE DEF FileInv
<1>1. UNCHANGED << path, files, writer, written, tailVars >>
      /\ content' = [content EXCEPT ![writer] = << >>] /\ writer \in Inodes
  BY DEF Truncate, FileTyped
<1>2. FileTyped'
  BY <1>1 DEF FileTyped, tailVars
<1>3. \A f \in Inodes : content'[f] = IF f = writer THEN << >> ELSE content[f]
  BY <1>1 DEF FileTyped
<1>4. FilesOrdered'
  BY <1>1, <1>3 DEF FilesOrdered, Ordered
<1>5. AheadIsNew'
  <2>1. file # 0 => file \in Inodes
    BY DEF FileTyped
  <2> QED
    BY <1>1, <1>3, <2>1 DEF AheadIsNew, tailVars
<1> QED
  BY <1>1, <1>2, <1>4, <1>5 DEF SkippedIsOld, EventsWereRead, InWritingOrder, tailVars

(* The seek leaves nothing ahead, and skips only what is older than all    *)
(* that will be read.                                                      *)
LEMMA SeekKeeps == FileInv /\ SeekEnd => FileInv'
<1> SUFFICES ASSUME FileInv, SeekEnd PROVE FileInv'
  OBVIOUS
<1> USE DEF FileInv
<1>1. /\ file' = opening /\ opening' = 0 /\ offset' = Len(content[opening]) /\ buffer' = << >>
      /\ skipped' = (IF file = 0 THEN Range(content[opening]) ELSE skipped)
      /\ at' = "loop" /\ UNCHANGED << emitted, got, diskVars >>
  BY DEF SeekEnd
<1>2. opening \in Inodes /\ buffer = << >> /\ content[opening] \in Seq(Pieces)
  BY DEF SeekEnd, FileTyped
<1>3. \A x \in Range(content[opening]) : x \in Pieces /\ x =< written
  BY <1>2 DEF Range, FilesOrdered, Ordered
<1>4. FileTyped'
  <2>1. offset' \in Nat
    BY <1>1, <1>2
  <2>2. skipped' \subseteq Pieces
    BY <1>1, <1>3 DEF FileTyped
  <2>3. opening # 0
    BY DEF SeekEnd, FileTyped
  <2>4. buffer' \in Seq(Pieces)
    BY <1>1
  <2> QED
    BY <1>1, <1>2, <2>1, <2>2, <2>3, <2>4 DEF FileTyped, diskVars
<1>5. AheadIsNew'
  <2>1. \A k \in DOMAIN content[opening] : ~ (k > Len(content[opening]))
    BY <1>2
  <2> QED
    BY <1>1, <2>1 DEF AheadIsNew, diskVars
<1>6. SkippedIsOld'
  <2>1. opening # 0
    BY DEF SeekEnd, FileTyped
  <2>2. CASE file = 0
    BY <1>1, <1>3, <2>1, <2>2 DEF SkippedIsOld, diskVars
  <2>3. CASE file # 0
    BY <1>1, <2>1, <2>3 DEF SkippedIsOld, diskVars
  <2> QED
    BY <2>2, <2>3
<1>7. EventsWereRead'
  BY <1>1 DEF EventsWereRead, Range
<1> QED
  BY <1>1, <1>2, <1>4, <1>5, <1>6, <1>7 DEF FilesOrdered, InWritingOrder, diskVars

(* A read takes the pieces behind the offset, in their order.              *)
LEMMA FillKeeps == FileInv /\ Fill => FileInv'
<1> SUFFICES ASSUME FileInv, Fill PROVE FileInv'
  OBVIOUS
<1> USE DEF FileInv
<1>0. UNCHANGED << at, opening, file, emitted, skipped, diskVars >> /\ file \in Inodes /\ at = "read"
  BY DEF Fill, FileTyped
<1> DEFINE held == content[file]
<1>1. held \in Seq(Pieces) /\ Ordered(held, written) /\ Len(held) \in Nat /\ offset \in Nat
  BY <1>0 DEF FileTyped, FilesOrdered
<1>2. Rest = SubSeq(held, offset + 1, Len(held))
  <2>1. file # 0
    BY <1>0, TailAssumption DEF Inodes
  <2> QED
    BY <2>1 DEF Rest
<1> HIDE DEF held
<1>3. PICK n \in 1 .. Len(Rest) : /\ buffer' = buffer \o SubSeq(Rest, 1, n)
                                  /\ got' = got \o SubSeq(Rest, 1, n)
                                  /\ offset' = offset + n
  BY DEF Fill
<1> DEFINE piece == SubSeq(Rest, 1, n)
<1>4. Rest \in Seq(Pieces) /\ Len(Rest) = IF offset < Len(held) THEN Len(held) - offset ELSE 0
  BY <1>1, <1>2
<1>5. n \in Nat /\ n > 0 /\ offset + n =< Len(held) /\ n =< Len(Rest)
  BY <1>1, <1>3, <1>4
<1>6. \A i \in 1 .. n : Rest[i] = held[offset + i]
  BY <1>1, <1>2, <1>5
<1>7. piece \in Seq(Pieces) /\ Len(piece) = n /\ \A i \in 1 .. n : piece[i] = held[offset + i]
  BY <1>4, <1>5, <1>6
<1> HIDE DEF piece
<1>8. buffer' = buffer \o piece /\ got' = got \o piece
  BY <1>3 DEF piece
<1>9. buffer \in Seq(Pieces) /\ got \in Seq(Pieces) /\ Len(got) \in Nat
  BY DEF FileTyped
<1>10. /\ got' \in Seq(Pieces) /\ DOMAIN got' = 1 .. Len(got) + n
       /\ \A i \in 1 .. Len(got) : got'[i] = got[i]
       /\ \A i \in Len(got) + 1 .. Len(got) + n : got'[i] = held[offset + (i - Len(got))]
  <2>1. got' \in Seq(Pieces) /\ Len(got') = Len(got) + n
    BY <1>5, <1>7, <1>8, <1>9
  <2>2. \A i \in 1 .. Len(got) : got'[i] = got[i]
    BY <1>7, <1>8, <1>9
  <2>3. ASSUME NEW i \in Len(got) + 1 .. Len(got) + n
        PROVE  got'[i] = held[offset + (i - Len(got))]
    <3>1. i - Len(got) \in 1 .. n
      BY <1>5, <1>9
    <3>2. got'[i] = piece[i - Len(got)]
      BY <1>5, <1>7, <1>8, <1>9
    <3> QED
      BY <1>7, <3>1, <3>2
  <2> QED
    BY <1>5, <1>9, <2>1, <2>2, <2>3
<1>11. \A i \in 1 .. Len(got) : got[i] \in Nat /\ got[i] =< written
  <2> SUFFICES ASSUME NEW i \in 1 .. Len(got) PROVE got[i] \in Nat /\ got[i] =< written
    OBVIOUS
  <2>1. i \in DOMAIN got /\ got[i] \in Pieces
    BY <1>9
  <2>2. got[i] \in Nat
    BY <2>1, PiecesNumbered
  <2>3. \A k, l \in DOMAIN got : got[k] =< written
    BY DEF InWritingOrder
  <2> QED
    BY <2>1, <2>2, <2>3
<1>12. \A k \in 1 .. Len(held) : held[k] \in Nat /\ held[k] =< written
                                 /\ \A l \in 1 .. Len(held) : k < l => held[k] < held[l]
  BY <1>1, PiecesNumbered DEF Ordered
<1>13. \A k \in 1 .. Len(held) : k > offset => /\ \A i \in 1 .. Len(got) : got[i] < held[k]
                                               /\ \A x \in skipped : x < held[k]
  <2>1. file # 0 /\ DOMAIN held = 1 .. Len(held) /\ DOMAIN got = 1 .. Len(got)
    BY <1>0, <1>1, <1>9, TailAssumption DEF Inodes
  <2> QED
    BY <2>1 DEF AheadIsNew, held
<1>14. FileTyped'
  <2>1. offset' \in Nat
    BY <1>1, <1>3
  <2>2. buffer' \in Seq(Pieces)
    BY <1>7, <1>8, <1>9
  <2> QED
    BY <1>0, <1>10, <2>1, <2>2 DEF FileTyped, diskVars
<1>15. FilesOrdered'
  BY <1>0 DEF FilesOrdered, diskVars
<1>16. \A i \in 1 .. Len(got) + n : i \in 1 .. Len(got) \/
           /\ i \in Len(got) + 1 .. Len(got) + n
           /\ offset + (i - Len(got)) \in offset + 1 .. offset + n
           /\ offset + (i - Len(got)) \in 1 .. Len(held)
  BY <1>1, <1>5, <1>9
<1>17. AheadIsNew'
  <2> SUFFICES ASSUME NEW k \in 1 .. Len(held), k > offset + n
               PROVE  /\ \A i \in 1 .. Len(got) + n : got'[i] < held[k]
                      /\ \A x \in skipped : x < held[k]
    <3>1. /\ file' = file /\ skipped' = skipped /\ content'[file] = held
          /\ DOMAIN held = 1 .. Len(held)
      BY <1>0, <1>1 DEF held, diskVars
    <3> QED
      BY <1>3, <1>10, <3>1 DEF AheadIsNew
  <2>1. k > offset
    BY <1>1, <1>5
  <2>2. ASSUME NEW i \in 1 .. Len(got) + n PROVE got'[i] < held[k]
    <3>1. CASE i \in 1 .. Len(got)
      BY <1>10, <1>13, <2>1, <3>1
    <3>2. CASE i \notin 1 .. Len(got)
      <4> DEFINE l == offset + (i - Len(got))
      <4>1. l \in 1 .. Len(held) /\ l < k /\ got'[i] = held[l]
        BY <1>1, <1>5, <1>10, <1>16, <3>2
      <4> QED
        BY <1>12, <4>1
    <3> QED
      BY <3>1, <3>2
  <2> QED
    BY <1>13, <2>1, <2>2
<1>18. SkippedIsOld'
  <2>1. ASSUME NEW x \in skipped, NEW i \in 1 .. Len(got) + n PROVE x < got'[i]
    <3>1. CASE i \in 1 .. Len(got)
      BY <1>9, <1>10, <3>1 DEF SkippedIsOld
    <3>2. CASE i \notin 1 .. Len(got)
      <4> DEFINE l == offset + (i - Len(got))
      <4>1. l \in 1 .. Len(held) /\ l > offset /\ got'[i] = held[l]
        BY <1>1, <1>5, <1>10, <1>16, <3>2
      <4> QED
        BY <1>13, <4>1
    <3> QED
      BY <3>1, <3>2
  <2>2. file # 0
    BY <1>0, TailAssumption DEF Inodes
  <2> QED
    BY <1>0, <1>10, <2>1, <2>2 DEF SkippedIsOld, diskVars
<1>19. EventsWereRead'
  <2>1. Range(got') = Range(got) \cup Range(piece)
    BY <1>7, <1>8, <1>9, ConcatRange
  <2>2. Range(buffer') = Range(buffer) \cup Range(piece)
    BY <1>7, <1>8, <1>9, ConcatRange
  <2> QED
    BY <1>0, <2>1, <2>2 DEF EventsWereRead
<1>20. InWritingOrder'
  <2>1. FlattenSeq(emitted) \in Seq(Pieces)
    BY FlattenTyped DEF FileTyped
  <2>2. FlattenSeq(emitted) \o (buffer \o piece) = (FlattenSeq(emitted) \o buffer) \o piece
    BY <1>7, <1>9, <2>1
  <2>3. FlattenSeq(emitted') \o buffer' = got'
    BY <1>0, <1>8, <2>2 DEF InWritingOrder
  <2>4. ASSUME NEW i \in 1 .. Len(got) + n PROVE got'[i] =< written
    BY <1>10, <1>11, <1>12, <1>16
  <2>5. ASSUME NEW i \in 1 .. Len(got) + n, NEW j \in 1 .. Len(got) + n, i < j
        PROVE  got'[i] < got'[j]
    <3>1. CASE j \in 1 .. Len(got)
      <4>1. i \in 1 .. Len(got)
        BY <1>9, <2>5, <3>1
      <4> QED
        <5>1. DOMAIN got = 1 .. Len(got)
          BY <1>9
        <5> QED
          BY <1>10, <2>5, <3>1, <4>1, <5>1 DEF InWritingOrder
    <3>2. CASE j \notin 1 .. Len(got)
      <4> DEFINE m == offset + (j - Len(got))
      <4>1. m \in 1 .. Len(held) /\ m > offset /\ got'[j] = held[m]
        BY <1>1, <1>5, <1>10, <1>16, <3>2
      <4>2. CASE i \in 1 .. Len(got)
        BY <1>10, <1>13, <4>1, <4>2
      <4>3. CASE i \notin 1 .. Len(got)
        <5> DEFINE l == offset + (i - Len(got))
        <5>1. l \in 1 .. Len(held) /\ got'[i] = held[l]
          BY <1>10, <1>16, <4>3
        <5>2. l < m
          BY <1>1, <1>9, <2>5
        <5> QED
          BY <1>12, <4>1, <5>1, <5>2
      <4> QED
        BY <4>2, <4>3
    <3> QED
      BY <3>1, <3>2
  <2> QED
    BY <1>0, <1>10, <2>3, <2>4, <2>5 DEF InWritingOrder, diskVars
<1> QED
  BY <1>14, <1>15, <1>17, <1>18, <1>19, <1>20

(* A line more that is emitted, or what there is of it.                    *)
LEMMA EmitKeeps ==
  ASSUME FileInv, NEW piece \in Seq(Pieces), NEW rest \in Seq(Pieces), buffer = piece \o rest,
         emitted' = Append(emitted, piece), buffer' = rest,
         UNCHANGED << file, opening, offset, got, skipped, diskVars >>,
         at' \in {"loop", "stat"}, at' = "stat" => rest = << >>, at = "read"
  PROVE  FileInv'
<1> USE DEF FileInv
<1>1. /\ buffer \in Seq(Pieces) /\ emitted \in Seq(Seq(Pieces))
      /\ UNCHANGED << content, path, files, writer, written >>
  BY DEF FileTyped, diskVars
<1>2. emitted' \in Seq(Seq(Pieces)) /\ FlattenSeq(emitted) \in Seq(Pieces)
  BY <1>1, FlattenTyped
<1>3. FileTyped'
  BY <1>1, <1>2 DEF FileTyped
<1>4. FilesOrdered' /\ AheadIsNew' /\ SkippedIsOld'
  BY <1>1 DEF FilesOrdered, AheadIsNew, SkippedIsOld
<1>5. EventsWereRead'
  <2>1. Range(buffer) = Range(piece) \cup Range(rest)
    BY <1>1, ConcatRange
  <2>2. Range(piece) \subseteq Range(got) /\ Range(rest) \subseteq Range(got)
    BY <2>1 DEF EventsWereRead
  <2>3. ASSUME NEW i \in DOMAIN emitted' PROVE Range(emitted'[i]) \subseteq Range(got)
    <3>1. CASE i \in DOMAIN emitted
      <4>1. emitted'[i] = emitted[i]
        BY <1>1, <3>1
      <4> QED
        BY <3>1, <4>1 DEF EventsWereRead
    <3>2. CASE i \notin DOMAIN emitted
      <4>1. emitted'[i] = piece
        BY <1>1, <3>2
      <4> QED
        BY <2>2, <4>1
    <3> QED
      BY <3>1, <3>2
  <2> QED
    BY <2>2, <2>3 DEF EventsWereRead
<1>6. InWritingOrder'
  <2>1. FlattenSeq(emitted') = FlattenSeq(emitted) \o piece
    BY <1>1, FlattenAppend
  <2>2. (FlattenSeq(emitted) \o piece) \o rest = FlattenSeq(emitted) \o buffer
    BY <1>2
  <2> QED
    BY <1>1, <2>1, <2>2 DEF InWritingOrder
<1> QED
  BY <1>3, <1>4, <1>5, <1>6

LEMMA LineKeeps == FileInv /\ ReadLine => FileInv'
<1> SUFFICES ASSUME FileInv, ReadLine PROVE FileInv'
  OBVIOUS
<1>1. buffer \in Seq(Pieces)
  BY DEF FileInv, FileTyped
<1> DEFINE end == Min(Ends(buffer))
<1>2. end \in 1 .. Len(buffer)
  <2>1. Ends(buffer) \in SUBSET Nat /\ Ends(buffer) \subseteq 1 .. Len(buffer) /\ Ends(buffer) # {}
    BY <1>1 DEF ReadLine, Ends
  <2> QED
    BY <2>1, LeastIsIn
<1> HIDE DEF end
<1> DEFINE piece == SubSeq(buffer, 1, end)
           rest == SubSeq(buffer, end + 1, Len(buffer))
<1>3. piece \in Seq(Pieces) /\ rest \in Seq(Pieces) /\ buffer = piece \o rest
  BY <1>1, <1>2
<1>4. /\ emitted' = Append(emitted, piece) /\ buffer' = rest /\ at' = "loop" /\ at = "read"
      /\ UNCHANGED << file, opening, offset, got, skipped, diskVars >>
  BY DEF ReadLine, end
<1> HIDE DEF piece, rest
<1> QED
  BY <1>3, <1>4, EmitKeeps

LEMMA EOFKeeps == FileInv /\ ReadEOF => FileInv'
<1> SUFFICES ASSUME FileInv, ReadEOF PROVE FileInv'
  OBVIOUS
<1>1. buffer \in Seq(Pieces) /\ << >> \in Seq(Pieces) /\ at = "read" /\ at' = "stat"
      /\ buffer' = << >> /\ UNCHANGED << file, opening, offset, got, skipped, diskVars >>
  BY DEF FileInv, FileTyped, ReadEOF
<1>2. CASE buffer = << >>
  <2>1. emitted' = emitted /\ buffer' = buffer
    BY <1>1, <1>2 DEF ReadEOF
  <2> QED
    BY <1>1, <2>1 DEF FileInv, FileTyped, FilesOrdered, AheadIsNew, SkippedIsOld, EventsWereRead,
                      InWritingOrder, diskVars
<1>3. CASE buffer # << >>
  <2>1. emitted' = Append(emitted, buffer) /\ buffer = buffer \o << >>
    BY <1>1, <1>3 DEF ReadEOF
  <2> QED
    BY <1>1, <2>1, EmitKeeps
<1> QED
  BY <1>2, <1>3

(* Every step of the tail and of the disk keeps the invariant. *)
LEMMA FileKeeps == FileInv /\ (Next \/ UNCHANGED fileVars) => FileInv'
<1>1. ASSUME FileInv, Cancel PROVE FileInv'
  BY <1>1, QuietKeeps DEF Cancel, fileVars
<1> QED
  BY <1>1, WriteKeeps, QuietKeeps, TruncateKeeps, SeekKeeps, FillKeeps, LineKeeps, EOFKeeps
     DEF Next, TailStep

(* Nothing that was skipped was read, so nothing of it was emitted. *)
LEMMA FileIsRight == FileInv => InWritingOrder /\ NoHistory
<1> SUFFICES ASSUME FileInv PROVE NoHistory
  BY DEF FileInv
<1>1. Range(got) \cap skipped = {}
  <2> SUFFICES ASSUME NEW i \in DOMAIN got, got[i] \in skipped PROVE FALSE
    BY DEF Range
  <2>1. got[i] < got[i] /\ got[i] \in Nat
    BY PiecesNumbered DEF FileInv, FileTyped, SkippedIsOld
  <2> QED
    BY <2>1
<1> QED
  BY <1>1 DEF FileInv, EventsWereRead, NoHistory

-----------------------------------------------------------------------------
(* The streams (StreamTail).                                               *)

(* A stream, the lines in its channel and those it was heard to say. *)
StreamStates ==
    [is : {"none", "queued", "read"}, sent : Nat, over : BOOLEAN,
     scanAt : {"scan", "send", "ended"}, scanned : Nat, lines : Seq(Nat), closed : BOOLEAN,
     emitAt : {"select", "ended"}, heard : Seq(Nat)]

(* What was heard and what is in the channel are the first n lines. *)
FirstLines(said, queue, n) ==
    /\ Len(said) + Len(queue) = n
    /\ \A i \in 1 .. Len(said) : said[i] = i
    /\ \A i \in 1 .. Len(queue) : queue[i] = Len(said) + i

(* They are those scanned, but for the one the scanner holds. *)
LinesInTransit(st) ==
    /\ st.scanAt = "send" => st.scanned > 0
    /\ FirstLines(st.heard, st.lines, IF st.scanAt = "send" THEN st.scanned - 1 ELSE st.scanned)

(* The scanner has none of the lines that are too long; where it has ended *)
(* all that came of the stream was scanned, or such a line is next.        *)
ScannedUpTo(st) ==
    /\ st.scanned =< st.sent
    /\ Huge \cap 1 .. st.scanned = {}
    /\ st.closed => /\ st.scanAt = "ended"
                    /\ (st.over /\ st.scanned = st.sent) \/ st.scanned + 1 \in Huge

(* A reader that was not told to end has emptied the closed channel. *)
ReaderDone(st, told) == st.emitAt = "ended" /\ told # TRUE => st.closed /\ st.lines = << >>

StreamInv ==
    /\ stream \in [Streams -> StreamStates]
    /\ \A s \in Streams :
         /\ LinesInTransit(stream[s])
         /\ ScannedUpTo(stream[s])
         /\ ReaderDone(stream[s], cancelled)

(* The invariant holds of streams nothing was written to. *)
LEMMA StreamInit == Tails!Init => StreamInv
<1> SUFFICES ASSUME Tails!Init PROVE StreamInv
  OBVIOUS
<1>1. << >> \in Seq(Nat)
  OBVIOUS
<1>2. ASSUME NEW s \in Streams PROVE stream[s] \in StreamStates /\ LinesInTransit(stream[s])
  BY <1>1 DEF Tails!Init, Tails!Fresh, StreamStates, LinesInTransit, FirstLines
<1>4. ASSUME NEW s \in Streams PROVE ScannedUpTo(stream[s]) /\ ReaderDone(stream[s], cancelled)
  <2>1. /\ stream[s].emitAt = "select" /\ stream[s].closed = FALSE
        /\ stream[s].scanned = 0 /\ stream[s].sent = 0
    BY DEF Tails!Init, Tails!Fresh
  <2>2. 1 .. 0 = {}
    OBVIOUS
  <2> QED
    BY <2>1, <2>2 DEF ScannedUpTo, ReaderDone
<1>3. stream = [s \in Streams |-> stream[s]]
  BY DEF Tails!Init
<1> QED
  BY <1>2, <1>3, <1>4 DEF StreamInv

(* It is enough that the stream that changes keeps it. *)
LEMMA OneStream ==
  ASSUME StreamInv, NEW s \in Streams, NEW st \in StreamStates,
         LinesInTransit(st), ScannedUpTo(st), ReaderDone(st, cancelled),
         stream' = [stream EXCEPT ![s] = st], cancelled' \in {TRUE, cancelled}
  PROVE  StreamInv'
  BY DEF StreamInv, ReaderDone

(* Writers, the listener and the ends of the two goroutines leave the lines. *)
LEMMA StreamQuietKeeps ==
  ASSUME StreamInv, NEW s \in Streams, NEW st \in StreamStates,
         ScannedUpTo(st), ReaderDone(st, cancelled),
         stream' = [stream EXCEPT ![s] = st], cancelled' \in {TRUE, cancelled},
         st.scanAt = stream[s].scanAt \/ (stream[s].scanAt = "scan" /\ st.scanAt = "ended"),
         st.scanned = stream[s].scanned, st.lines = stream[s].lines, st.heard = stream[s].heard
  PROVE  StreamInv'
<1>1. LinesInTransit(stream[s])
  BY DEF StreamInv
<1>2. LinesInTransit(st)
  BY <1>1 DEF LinesInTransit
<1> QED
  BY <1>2, OneStream

(* A line more goes behind those in the channel. *)
LEMMA LineIsQueued ==
  ASSUME NEW said \in Seq(Nat), NEW queue \in Seq(Nat), NEW n \in Nat \ {0},
         FirstLines(said, queue, n - 1)
  PROVE  FirstLines(said, Append(queue, n), n)
<1> DEFINE more == Append(queue, n)
<1>1. /\ Len(more) = Len(queue) + 1 /\ more[Len(queue) + 1] = n
      /\ \A i \in 1 .. Len(queue) : more[i] = queue[i]
  OBVIOUS
<1>2. Len(said) \in Nat /\ Len(queue) \in Nat
  OBVIOUS
<1> HIDE DEF more
<1>3. ASSUME NEW i \in 1 .. Len(queue) + 1 PROVE more[i] = Len(said) + i
  <2>1. CASE i \in 1 .. Len(queue)
    BY <1>1, <2>1 DEF FirstLines
  <2>2. CASE i \notin 1 .. Len(queue)
    <3>1. i = Len(queue) + 1
      BY <1>2, <2>2
    <3> QED
      BY <1>1, <1>2, <3>1 DEF FirstLines
  <2> QED
    BY <2>1, <2>2
<1>4. Len(said) + Len(more) = n
  BY <1>1, <1>2 DEF FirstLines
<1>5. FirstLines(said, more, n)
  BY <1>1, <1>3, <1>4 DEF FirstLines
<1> QED
  BY <1>5 DEF more

(* The first line in the channel is the next to be heard. *)
LEMMA LineIsHeard ==
  ASSUME NEW said \in Seq(Nat), NEW queue \in Seq(Nat), NEW n \in Nat,
         FirstLines(said, queue, n), queue # << >>
  PROVE  FirstLines(Append(said, Head(queue)), Tail(queue), n)
<1> DEFINE more == Append(said, Head(queue))
           later == Tail(queue)
<1>1. Len(said) \in Nat /\ Len(queue) \in Nat \ {0} /\ Head(queue) = queue[1] /\ queue[1] \in Nat
  OBVIOUS
<1>2. /\ Len(more) = Len(said) + 1
      /\ \A i \in 1 .. Len(said) : more[i] = said[i]
      /\ more[Len(said) + 1] = queue[1]
  BY <1>1
<1>3. /\ Len(later) = Len(queue) - 1
      /\ \A i \in 1 .. Len(queue) - 1 : later[i] = queue[i + 1]
  BY <1>1
<1> HIDE DEF more, later
<1>4. ASSUME NEW i \in 1 .. Len(said) + 1 PROVE more[i] = i
  <2>1. CASE i \in 1 .. Len(said)
    BY <1>2, <2>1 DEF FirstLines
  <2>2. CASE i \notin 1 .. Len(said)
    <3>1. i = Len(said) + 1 /\ 1 \in 1 .. Len(queue)
      BY <1>1, <2>2
    <3> QED
      BY <1>2, <3>1 DEF FirstLines
  <2> QED
    BY <2>1, <2>2
<1>5. ASSUME NEW i \in 1 .. Len(queue) - 1 PROVE later[i] = Len(more) + i
  <2>1. i + 1 \in 1 .. Len(queue) /\ i \in Nat
    BY <1>1
  <2>2. later[i] = Len(said) + (i + 1)
    BY <1>3, <2>1 DEF FirstLines
  <2> QED
    BY <1>1, <1>2, <2>1, <2>2
<1>6. Len(more) + Len(later) = n
  <2>1. Len(said) + Len(queue) = n
    BY DEF FirstLines
  <2>2. Len(said) \in Nat /\ Len(queue) \in Nat
    OBVIOUS
  <2>3. \A a, b \in Nat : (a + 1) + (b - 1) = a + b
    OBVIOUS
  <2>4. Len(more) + Len(later) = Len(said) + Len(queue)
    BY <1>2, <1>3, <2>2, <2>3
  <2> QED
    BY <2>1, <2>4
<1>7. FirstLines(more, later, n)
  BY <1>2, <1>3, <1>4, <1>5, <1>6 DEF FirstLines
<1> QED
  BY <1>7 DEF more, later

(* The scanner's line is the next; it goes behind those in the channel. *)
LEMMA ScanKeeps ==
  ASSUME StreamInv, NEW s \in Streams, Tails!Scan(s) \/ Tails!SendLine(s)
  PROVE  StreamInv'
<1> DEFINE st == stream[s]
<1>1. st \in StreamStates /\ LinesInTransit(st) /\ ScannedUpTo(st) /\ ReaderDone(st, cancelled)
  BY DEF StreamInv
<1>4. cancelled' = cancelled
  BY DEF Tails!Scan, Tails!SendLine
<1>0. /\ st.is \in {"none", "queued", "read"} /\ st.sent \in Nat /\ st.over \in BOOLEAN
      /\ st.scanned \in Nat /\ st.lines \in Seq(Nat) /\ st.closed \in BOOLEAN
      /\ st.emitAt \in {"select", "ended"} /\ st.heard \in Seq(Nat)
  BY <1>1 DEF StreamStates
<1>2. CASE Tails!Scan(s)
  <2> DEFINE nx == [st EXCEPT !.scanned = @ + 1, !.scanAt = "send"]
  <2>1. /\ stream' = [stream EXCEPT ![s] = nx] /\ st.scanAt = "scan"
        /\ st.scanned < st.sent /\ st.scanned + 1 \notin Huge
    BY <1>2 DEF Tails!Scan
  <2> HIDE DEF st
  <2>2. /\ nx.scanned = st.scanned + 1 /\ nx.scanAt = "send" /\ nx.heard = st.heard
        /\ nx.lines = st.lines /\ nx.sent = st.sent /\ nx.closed = st.closed
        /\ nx.emitAt = st.emitAt
    BY <1>1 DEF StreamStates
  <2>3. nx \in StreamStates
    <3>1. st.scanned + 1 \in Nat
      BY <1>0
    <3> QED
      BY <1>1, <3>1 DEF StreamStates
  <2> HIDE DEF nx
  <2>4. nx.scanned - 1 = st.scanned /\ nx.scanned > 0
    <3>1. nx.scanned = st.scanned + 1 /\ st.scanned \in Nat
      BY <1>0, <2>2
    <3> QED
      BY <3>1
  <2>5. LinesInTransit(nx)
    BY <1>1, <2>1, <2>2, <2>4 DEF LinesInTransit
  <2>6. ~ st.closed
    BY <1>1, <2>1 DEF ScannedUpTo
  <2>7. ScannedUpTo(nx)
    <3>1. nx.scanned =< nx.sent
      BY <1>0, <2>1, <2>2
    <3>2. 1 .. nx.scanned = (1 .. st.scanned) \cup {st.scanned + 1}
      BY <1>0, <2>2
    <3>3. Huge \cap 1 .. nx.scanned = {}
      BY <1>1, <2>1, <3>2 DEF ScannedUpTo
    <3> QED
      BY <2>2, <2>6, <3>1, <3>3 DEF ScannedUpTo
  <2>8. ReaderDone(nx, cancelled)
    BY <1>1, <2>2, <2>6 DEF ReaderDone
  <2> QED
    BY <1>4, <2>1, <2>3, <2>5, <2>7, <2>8, OneStream DEF st
<1>3. CASE Tails!SendLine(s)
  <2> DEFINE nx == [st EXCEPT !.lines = Append(@, st.scanned), !.scanAt = "scan"]
  <2>1. stream' = [stream EXCEPT ![s] = nx] /\ st.scanAt = "send"
    BY <1>3 DEF Tails!SendLine
  <2> HIDE DEF st
  <2>2. /\ nx.scanned = st.scanned /\ nx.scanAt = "scan" /\ nx.heard = st.heard
        /\ nx.lines = Append(st.lines, st.scanned) /\ nx.sent = st.sent
        /\ nx.closed = st.closed /\ nx.emitAt = st.emitAt
    BY <1>1 DEF StreamStates
  <2>3. Append(st.lines, st.scanned) \in Seq(Nat)
    BY <1>0
  <2>4. nx \in StreamStates
    BY <1>1, <2>3 DEF StreamStates
  <2> HIDE DEF nx
  <2>5. st.scanned \in Nat \ {0} /\ FirstLines(st.heard, st.lines, st.scanned - 1)
    BY <1>0, <1>1, <2>1 DEF LinesInTransit
  <2>6. FirstLines(st.heard, Append(st.lines, st.scanned), st.scanned)
    BY <1>0, <2>5, LineIsQueued
  <2>7. LinesInTransit(nx)
    BY <2>2, <2>6 DEF LinesInTransit
  <2>8. ~ st.closed
    BY <1>1, <2>1 DEF ScannedUpTo
  <2>9. ScannedUpTo(nx) /\ ReaderDone(nx, cancelled)
    BY <1>1, <2>2, <2>8 DEF ScannedUpTo, ReaderDone
  <2> QED
    BY <1>4, <2>1, <2>4, <2>7, <2>9, OneStream DEF st
<1> QED
  BY <1>2, <1>3

(* The reader takes the first line from the channel. *)
LEMMA EmitLineKeeps ==
  ASSUME StreamInv, NEW s \in Streams, Tails!EmitLine(s)
  PROVE  StreamInv'
<1> DEFINE st == stream[s]
           nx == [st EXCEPT !.heard = Append(@, Head(st.lines)), !.lines = Tail(@)]
<1>1. st \in StreamStates /\ LinesInTransit(st) /\ ScannedUpTo(st)
  BY DEF StreamInv
<1>2. /\ stream' = [stream EXCEPT ![s] = nx] /\ st.lines # << >> /\ st.emitAt = "select"
      /\ cancelled' = cancelled
  BY DEF Tails!EmitLine
<1> HIDE DEF st
<1>3. /\ st.is \in {"none", "queued", "read"} /\ st.sent \in Nat /\ st.over \in BOOLEAN
      /\ st.scanAt \in {"scan", "send", "ended"}
      /\ st.scanned \in Nat /\ st.lines \in Seq(Nat) /\ st.closed \in BOOLEAN
      /\ st.emitAt \in {"select", "ended"} /\ st.heard \in Seq(Nat)
  BY <1>1 DEF StreamStates
<1>4. /\ nx.scanned = st.scanned /\ nx.scanAt = st.scanAt /\ nx.lines = Tail(st.lines)
      /\ nx.heard = Append(st.heard, Head(st.lines)) /\ nx.emitAt = st.emitAt
      /\ nx.sent = st.sent /\ nx.over = st.over /\ nx.closed = st.closed
  BY <1>1 DEF StreamStates
<1>5. Append(st.heard, Head(st.lines)) \in Seq(Nat) /\ Tail(st.lines) \in Seq(Nat)
  BY <1>2, <1>3
<1>6. nx \in StreamStates
  BY <1>1, <1>5 DEF StreamStates
<1> HIDE DEF nx
<1> DEFINE n == IF st.scanAt = "send" THEN st.scanned - 1 ELSE st.scanned
<1>7. n \in Nat /\ FirstLines(st.heard, st.lines, n)
  BY <1>1, <1>3 DEF LinesInTransit
<1> HIDE DEF n
<1>8. FirstLines(Append(st.heard, Head(st.lines)), Tail(st.lines), n)
  BY <1>2, <1>3, <1>7, LineIsHeard
<1>9. LinesInTransit(nx)
  BY <1>1, <1>4, <1>8 DEF LinesInTransit, n
<1>10. ScannedUpTo(nx) /\ ReaderDone(nx, cancelled)
  BY <1>1, <1>2, <1>4 DEF ScannedUpTo, ReaderDone
<1> QED
  BY <1>2, <1>6, <1>9, <1>10, OneStream DEF st

(* Every step of the streams keeps the invariant, and one that is not theirs. *)
LEMMA StreamKeeps ==
  ASSUME StreamInv,
         Tails!Next \/ (UNCHANGED streamVars /\ cancelled' \in {TRUE, cancelled})
  PROVE  StreamInv'
<1>0. ASSUME NEW s \in Streams
      PROVE  /\ stream[s] \in StreamStates /\ ScannedUpTo(stream[s])
             /\ ReaderDone(stream[s], cancelled)
  BY DEF StreamInv
<1>1. ASSUME NEW s \in Streams, Tails!ScanEnds(s) PROVE StreamInv'
  <2> DEFINE nx == [stream[s] EXCEPT !.scanAt = "ended", !.closed = TRUE]
  <2>1. /\ nx \in StreamStates /\ stream' = [stream EXCEPT ![s] = nx]
        /\ stream[s].scanAt = "scan" /\ nx.scanAt = "ended" /\ nx.closed
        /\ nx.scanned = stream[s].scanned /\ nx.lines = stream[s].lines
        /\ nx.heard = stream[s].heard /\ nx.sent = stream[s].sent
        /\ nx.over = stream[s].over /\ nx.emitAt = stream[s].emitAt /\ cancelled' = cancelled
    BY <1>0, <1>1 DEF Tails!ScanEnds, StreamStates
  <2>2. IF stream[s].scanned = stream[s].sent THEN stream[s].over
                                             ELSE stream[s].scanned + 1 \in Huge
    BY <1>1 DEF Tails!ScanEnds
  <2> HIDE DEF nx
  <2>3. ScannedUpTo(nx)
    BY <1>0, <2>1, <2>2 DEF ScannedUpTo
  <2>4. ReaderDone(nx, cancelled)
    BY <1>0, <2>1 DEF ReaderDone
  <2> QED
    BY <2>1, <2>3, <2>4, StreamQuietKeeps
<1>2. ASSUME NEW s \in Streams, Tails!ReaderEnds(s) PROVE StreamInv'
  <2> DEFINE nx == [stream[s] EXCEPT !.emitAt = "ended"]
  <2>1. /\ nx \in StreamStates /\ stream' = [stream EXCEPT ![s] = nx]
        /\ nx.scanAt = stream[s].scanAt /\ nx.scanned = stream[s].scanned
        /\ nx.lines = stream[s].lines /\ nx.heard = stream[s].heard
        /\ nx.sent = stream[s].sent /\ nx.over = stream[s].over
        /\ nx.closed = stream[s].closed /\ cancelled' = cancelled
    BY <1>0, <1>2 DEF Tails!ReaderEnds, StreamStates
  <2>2. cancelled \/ (stream[s].closed /\ stream[s].lines = << >>)
    BY <1>2 DEF Tails!ReaderEnds
  <2> HIDE DEF nx
  <2>3. ScannedUpTo(nx)
    BY <1>0, <2>1 DEF ScannedUpTo
  <2>4. ReaderDone(nx, cancelled)
    BY <2>1, <2>2 DEF ReaderDone
  <2> QED
    BY <2>1, <2>3, <2>4, StreamQuietKeeps
<1>3. CASE Tails!AcceptConn \/ Tails!Connect
  <2>1. PICK s \in Streams, is \in {"queued", "read"} : stream' = [stream EXCEPT ![s].is = is]
    BY <1>3 DEF Tails!AcceptConn, Tails!Connect
  <2>2. cancelled' = cancelled
    BY <1>3 DEF Tails!AcceptConn, Tails!Connect
  <2> DEFINE nx == [stream[s] EXCEPT !.is = is]
  <2>3. /\ nx \in StreamStates /\ stream' = [stream EXCEPT ![s] = nx]
        /\ nx.scanAt = stream[s].scanAt /\ nx.scanned = stream[s].scanned
        /\ nx.lines = stream[s].lines /\ nx.heard = stream[s].heard
        /\ nx.sent = stream[s].sent /\ nx.over = stream[s].over
        /\ nx.closed = stream[s].closed /\ nx.emitAt = stream[s].emitAt
    BY <1>0, <2>1 DEF StreamStates
  <2> HIDE DEF nx
  <2>4. ScannedUpTo(nx) /\ ReaderDone(nx, cancelled)
    BY <1>0, <2>3 DEF ScannedUpTo, ReaderDone
  <2> QED
    BY <2>2, <2>3, <2>4, StreamQuietKeeps
<1>4. CASE Tails!WriteLine
  <2>1. PICK s \in Streams : ~ stream[s].over /\ stream' = [stream EXCEPT ![s].sent = @ + 1]
    BY <1>4 DEF Tails!WriteLine
  <2>2. cancelled' = cancelled
    BY <1>4 DEF Tails!WriteLine
  <2> DEFINE nx == [stream[s] EXCEPT !.sent = @ + 1]
  <2>3. stream[s] \in StreamStates /\ stream[s].sent + 1 \in Nat
    BY <1>0 DEF StreamStates
  <2>4. /\ nx \in StreamStates /\ stream' = [stream EXCEPT ![s] = nx]
        /\ nx.scanAt = stream[s].scanAt /\ nx.scanned = stream[s].scanned
        /\ nx.lines = stream[s].lines /\ nx.heard = stream[s].heard
        /\ nx.sent = stream[s].sent + 1 /\ nx.over = stream[s].over
        /\ nx.closed = stream[s].closed /\ nx.emitAt = stream[s].emitAt
    BY <2>1, <2>3 DEF StreamStates
  <2> HIDE DEF nx
  <2>5. nx.scanned =< nx.sent
    BY <1>0, <2>3, <2>4 DEF ScannedUpTo, StreamStates
  <2>6. ScannedUpTo(nx) /\ ReaderDone(nx, cancelled)
    BY <1>0, <2>1, <2>4, <2>5 DEF ScannedUpTo, ReaderDone
  <2> QED
    BY <2>2, <2>4, <2>6, StreamQuietKeeps
<1>5. CASE Tails!CloseStream
  <2>1. PICK s \in Streams, came \in Nat :
           /\ ~ stream[s].over /\ came \in stream[s].scanned .. stream[s].sent
           /\ stream' = [stream EXCEPT ![s].over = TRUE, ![s].sent = came]
    <3>1. PICK s \in Streams : \E came \in stream[s].scanned .. stream[s].sent :
             /\ ~ stream[s].over
             /\ stream' = [stream EXCEPT ![s].over = TRUE, ![s].sent = came]
      BY <1>5 DEF Tails!CloseStream
    <3>2. stream[s].scanned .. stream[s].sent \subseteq Nat
      BY <1>0 DEF StreamStates
    <3> QED
      BY <3>1, <3>2
  <2>2. cancelled' = cancelled
    BY <1>5 DEF Tails!CloseStream
  <2> DEFINE nx == [stream[s] EXCEPT !.over = TRUE, !.sent = came]
  <2>3. /\ nx \in StreamStates /\ stream' = [stream EXCEPT ![s] = nx]
        /\ nx.scanAt = stream[s].scanAt /\ nx.scanned = stream[s].scanned
        /\ nx.lines = stream[s].lines /\ nx.heard = stream[s].heard
        /\ nx.sent = came /\ nx.closed = stream[s].closed /\ nx.emitAt = stream[s].emitAt
    BY <1>0, <2>1 DEF StreamStates
  <2> HIDE DEF nx
  <2>4. nx.scanned =< nx.sent
    BY <1>0, <2>1, <2>3 DEF StreamStates
  <2>5. ScannedUpTo(nx) /\ ReaderDone(nx, cancelled)
    BY <1>0, <2>1, <2>3, <2>4 DEF ScannedUpTo, ReaderDone
  <2> QED
    BY <2>2, <2>3, <2>5, StreamQuietKeeps
<1>6. CASE \/ Tails!CloseListener \/ Tails!AcceptFails \/ Tails!Stop \/ Tails!Cancel
           \/ UNCHANGED streamVars /\ cancelled' \in {TRUE, cancelled}
  <2>1. stream' = stream /\ cancelled' \in {TRUE, cancelled}
    BY <1>6 DEF Tails!CloseListener, Tails!AcceptFails, Tails!Stop, Tails!Cancel,
                Tails!streamVars, streamVars
  <2> QED
    BY <2>1 DEF StreamInv, ReaderDone
<1> QED
  BY <1>1, <1>2, <1>3, <1>4, <1>5, <1>6, ScanKeeps, EmitLineKeeps
     DEF Tails!Next, Tails!Scanner, Tails!Reader

(* What was heard is the lines from the first on, none of them too long,   *)
(* and a reader that ended by itself heard all up to where that is.        *)
LEMMA StreamIsRight == StreamInv => Tails!LinesInOrder
<1> SUFFICES ASSUME StreamInv, NEW s \in Streams
             PROVE  LET n == Len(stream[s].heard) IN
                      /\ stream[s].heard = [i \in 1 .. n |-> i]
                      /\ Huge \cap 1 .. n = {}
                      /\ stream[s].emitAt = "ended" /\ ~ cancelled =>
                            \/ stream[s].over /\ n = stream[s].sent
                            \/ n + 1 \in Huge
  BY DEF Tails!LinesInOrder
<1> DEFINE st == stream[s]
           said == st.heard
<1>0. /\ st \in StreamStates /\ LinesInTransit(st) /\ ScannedUpTo(st)
      /\ ReaderDone(st, cancelled)
  BY DEF StreamInv
<1> HIDE DEF st
<1>1. /\ said \in Seq(Nat) /\ st.lines \in Seq(Nat) /\ st.scanned \in Nat
      /\ \A i \in 1 .. Len(said) : said[i] = i
  BY <1>0 DEF StreamStates, LinesInTransit, FirstLines
<1>2. said = [i \in 1 .. Len(said) |-> i]
  <2> HIDE DEF said
  <2>1. said = [i \in 1 .. Len(said) |-> said[i]]
    BY <1>1
  <2> QED
    BY <1>1, <2>1
<1>3. Len(said) =< st.scanned
  <2>1. Len(said) \in Nat /\ Len(st.lines) \in Nat
    BY <1>1
  <2>2. Len(said) + Len(st.lines) \in {st.scanned, st.scanned - 1}
    BY <1>0 DEF LinesInTransit, FirstLines
  <2> HIDE DEF said
  <2> QED
    BY <1>1, <2>1, <2>2
<1>4. 1 .. Len(said) \subseteq 1 .. st.scanned
  BY <1>1, <1>3
<1>5. Huge \cap 1 .. Len(said) = {}
  BY <1>0, <1>4 DEF ScannedUpTo
<1>6. ASSUME st.emitAt = "ended", ~ cancelled
      PROVE  (st.over /\ Len(said) = st.sent) \/ Len(said) + 1 \in Huge
  <2>1. st.closed /\ st.lines = << >>
    BY <1>0, <1>6 DEF ReaderDone
  <2>2. st.scanAt = "ended"
    BY <1>0, <2>1 DEF ScannedUpTo
  <2>3. Len(said) = st.scanned
    BY <1>0, <1>1, <2>1, <2>2 DEF LinesInTransit, FirstLines
  <2> QED
    BY <1>0, <2>1, <2>3 DEF ScannedUpTo
<1> QED
  BY <1>2, <1>5, <1>6 DEF st

-----------------------------------------------------------------------------
(* The datagrams (StatsD).                                                 *)

(* StatsD uses the same lists. *)
LEMMA SameLists ==
  /\ \A s, S : UDP!Kept(s, S) = Kept(s, S)
  /\ \A ss : UDP!FlattenSeq(ss) = FlattenSeq(ss)
<1>1. ASSUME NEW s, NEW S PROVE UDP!Kept(s, S) = Kept(s, S)
  BY Zenon DEF UDP!Kept, Kept
<1>2. ASSUME NEW ss PROVE UDP!FlattenSeq(ss) = FlattenSeq(ss)
  BY Zenon DEF UDP!FlattenSeq, FlattenSeq
<1> QED
  BY <1>1, <1>2

LineIds == [datagram : DOMAIN Datagrams, number : Nat]

(* A datagram is a sequence of lines. *)
LEMMA DatagramIsList ==
  ASSUME NEW d \in DOMAIN Datagrams
  PROVE  Len(Datagrams[d]) \in Nat /\ DOMAIN Datagrams[d] = 1 .. Len(Datagrams[d])
  BY SourcesAssumption

(* A line more goes to the end of what it is joined to. *)
LEMMA LinesAppend ==
  \A s, t \in Seq(LineIds) : \A x \in LineIds : Append(s \o t, x) = s \o Append(t, x)
<1> TAKE s, t \in Seq(LineIds)
<1> TAKE x \in LineIds
<1> QED
  OBVIOUS

(* The good lines of a datagram, one more when the next is good. *)
LEMMA GoodLinesTyped ==
  ASSUME NEW d \in DOMAIN Datagrams, NEW n \in Nat
  PROVE  UDP!GoodLines(d, n) \in Seq(LineIds)
<1>1. [i \in 1 .. n |-> [datagram |-> d, number |-> i]] \in Seq(LineIds)
  BY DEF LineIds
<1>2. Kept([i \in 1 .. n |-> [datagram |-> d, number |-> i]], UDP!Good(d)) \in Seq(LineIds)
  BY <1>1, KeptTyped
<1> QED
  BY <1>2, SameLists DEF UDP!GoodLines

LEMMA NoGoodLines == ASSUME NEW d PROVE UDP!GoodLines(d, 0) = << >>
<1>1. [i \in 1 .. 0 |-> [datagram |-> d, number |-> i]] = << >>
  OBVIOUS
<1> QED
  BY <1>1, KeptEmpty, SameLists DEF UDP!GoodLines

LEMMA NextGoodLine ==
  ASSUME NEW d \in DOMAIN Datagrams, NEW n \in 1 .. Len(Datagrams[d])
  PROVE  UDP!GoodLines(d, n) =
           IF UDP!Parses(Datagrams[d][n])
           THEN Append(UDP!GoodLines(d, n - 1), [datagram |-> d, number |-> n])
           ELSE UDP!GoodLines(d, n - 1)
<1> DEFINE ids(k) == [i \in 1 .. k |-> [datagram |-> d, number |-> i]]
           id == [datagram |-> d, number |-> n]
<1>1. n \in Nat /\ n - 1 \in Nat
  BY DatagramIsList
<1>2. ids(n - 1) \in Seq(LineIds) /\ id \in LineIds
  BY <1>1 DEF LineIds
<1>3. ids(n) = Append(ids(n - 1), id)
  <2>1. Len(ids(n)) = n /\ Len(ids(n - 1)) = n - 1 /\ Len(Append(ids(n - 1), id)) = n
    BY <1>1, <1>2
  <2>2. ids(n) \in Seq(LineIds) /\ Append(ids(n - 1), id) \in Seq(LineIds)
    BY <1>1, <1>2 DEF LineIds
  <2>3. ASSUME NEW i \in 1 .. n PROVE ids(n)[i] = Append(ids(n - 1), id)[i]
    <3>1. CASE i \in 1 .. n - 1
      BY <1>1, <1>2, <2>1, <3>1
    <3>2. CASE i \notin 1 .. n - 1
      <4>1. i = n
        BY <1>1, <3>2
      <4> QED
        BY <1>1, <1>2, <2>1, <4>1
    <3> QED
      BY <3>1, <3>2
  <2> HIDE DEF ids, id
  <2> QED
    BY <2>1, <2>2, <2>3
<1>4. id \in UDP!Good(d) <=> UDP!Parses(Datagrams[d][n])
  <2>1. n \in DOMAIN Datagrams[d]
    BY DatagramIsList
  <2>2. ASSUME id \in UDP!Good(d) PROVE UDP!Parses(Datagrams[d][n])
    <3>1. PICK k \in DOMAIN Datagrams[d] : UDP!Parses(Datagrams[d][k])
                                          /\ id = [datagram |-> d, number |-> k]
      BY <2>2 DEF UDP!Good
    <3>2. k = n
      BY <3>1
    <3> QED
      BY <3>1, <3>2
  <2> QED
    BY <2>1, <2>2 DEF UDP!Good
<1> HIDE DEF ids, id
<1>5. Kept(ids(n), UDP!Good(d)) = IF id \in UDP!Good(d) THEN Append(Kept(ids(n - 1), UDP!Good(d)), id)
                                  ELSE Kept(ids(n - 1), UDP!Good(d))
  <2> DEFINE s == ids(n - 1)
             S == UDP!Good(d)
  <2>1. s \in Seq(LineIds)
    BY <1>2
  <2> HIDE DEF s, S
  <2>2. Kept(Append(s, id), S) = IF id \in S THEN Append(Kept(s, S), id) ELSE Kept(s, S)
    BY <1>2, <2>1, KeptAppend
  <2> QED
    BY <1>3, <2>2 DEF s, S
<1>6. UDP!GoodLines(d, n) = Kept(ids(n), UDP!Good(d))
      /\ UDP!GoodLines(d, n - 1) = Kept(ids(n - 1), UDP!Good(d))
  BY SameLists DEF UDP!GoodLines, ids
<1> QED
  BY <1>4, <1>5, <1>6 DEF id

(* The good lines of whole datagrams, one after the other. *)
Whole(d) == UDP!GoodLines(d, Len(Datagrams[d]))
Wholes(ds) == [i \in DOMAIN ds |-> Whole(ds[i])]

LEMMA WholesTyped ==
  ASSUME NEW ds \in Seq(DOMAIN Datagrams)
  PROVE  Wholes(ds) \in Seq(Seq(LineIds)) /\ FlattenSeq(Wholes(ds)) \in Seq(LineIds)
<1>1. \A i \in DOMAIN ds : Whole(ds[i]) \in Seq(LineIds)
  BY GoodLinesTyped, DatagramIsList DEF Whole
<1>2. Wholes(ds) \in Seq(Seq(LineIds))
  BY <1>1 DEF Wholes
<1> QED
  BY <1>2, FlattenTyped

LEMMA WholesAppend ==
  ASSUME NEW ds \in Seq(DOMAIN Datagrams), NEW d \in DOMAIN Datagrams
  PROVE  FlattenSeq(Wholes(Append(ds, d))) = FlattenSeq(Wholes(ds)) \o Whole(d)
<1>1. Whole(d) \in Seq(LineIds)
  BY GoodLinesTyped, DatagramIsList DEF Whole
<1>2. Wholes(ds) \in Seq(Seq(LineIds)) /\ Append(ds, d) \in Seq(DOMAIN Datagrams)
  BY WholesTyped
<1>3. Wholes(Append(ds, d)) = Append(Wholes(ds), Whole(d))
  <2> DEFINE more == Append(ds, d)
  <2>1. /\ Len(more) = Len(ds) + 1 /\ DOMAIN more = 1 .. Len(ds) + 1 /\ Len(ds) \in Nat
        /\ \A i \in 1 .. Len(ds) : more[i] = ds[i]
        /\ more[Len(ds) + 1] = d /\ DOMAIN ds = 1 .. Len(ds)
    OBVIOUS
  <2> HIDE DEF more
  <2>2. Wholes(more) \in Seq(Seq(LineIds))
    BY <1>2, WholesTyped DEF more
  <2>3. Len(Wholes(ds)) = Len(ds) /\ Len(Wholes(more)) = Len(ds) + 1
    BY <2>1 DEF Wholes
  <2>4. ASSUME NEW i \in 1 .. Len(ds) + 1 PROVE Wholes(more)[i] = Append(Wholes(ds), Whole(d))[i]
    <3>1. CASE i \in 1 .. Len(ds)
      <4>1. Wholes(more)[i] = Whole(ds[i]) /\ Wholes(ds)[i] = Whole(ds[i])
        BY <2>1, <3>1 DEF Wholes
      <4> QED
        BY <1>1, <1>2, <2>3, <3>1, <4>1
    <3>2. CASE i \notin 1 .. Len(ds)
      <4>1. i = Len(ds) + 1
        BY <2>1, <3>2
      <4>2. Wholes(more)[i] = Whole(d)
        BY <2>1, <4>1 DEF Wholes
      <4> QED
        BY <1>1, <1>2, <2>3, <4>1, <4>2
    <3> QED
      BY <3>1, <3>2
  <2>5. Append(Wholes(ds), Whole(d)) \in Seq(Seq(LineIds))
        /\ Len(Append(Wholes(ds), Whole(d))) = Len(ds) + 1
    BY <1>1, <1>2, <2>3
  <2> QED
    BY <2>2, <2>3, <2>4, <2>5 DEF more
<1> QED
  BY <1>1, <1>2, <1>3, FlattenAppend

(* While a datagram is gone through, what was counted is the good lines of *)
(* those before it and of its lines so far; else of all that were read.    *)
DatagramInv ==
    /\ taken \in Seq(DOMAIN Datagrams) /\ unread \subseteq DOMAIN Datagrams
    /\ udpAt # "lines" => counted = FlattenSeq(Wholes(taken))
    /\ udpAt = "lines" =>
         \E ds \in Seq(DOMAIN Datagrams), d \in DOMAIN Datagrams :
           \E n \in 1 .. Len(Datagrams[d]) + 1 :
             /\ taken = Append(ds, d)
             /\ line = [datagram |-> d, number |-> n]
             /\ counted = FlattenSeq(Wholes(ds)) \o UDP!GoodLines(d, n - 1)

(* The invariant holds before anything was read. *)
LEMMA DatagramInit == UDP!Init => DatagramInv
<1> SUFFICES ASSUME UDP!Init PROVE DatagramInv
  OBVIOUS
<1>1. taken = << >> /\ counted = << >> /\ udpAt = "check" /\ unread = DOMAIN Datagrams
  BY DEF UDP!Init
<1>2. Wholes(<< >>) = << >> /\ << >> \in Seq(DOMAIN Datagrams)
  BY DEF Wholes
<1>3. FlattenSeq(Wholes(<< >>)) = << >>
  BY <1>2, FlattenEmpty
<1> QED
  BY <1>1, <1>2, <1>3 DEF DatagramInv

(* A datagram more, with none of its lines so far. *)
LEMMA ReadDatagramKeeps == DatagramInv /\ UDP!ReadDatagram => DatagramInv'
<1> SUFFICES ASSUME DatagramInv, UDP!ReadDatagram PROVE DatagramInv'
  OBVIOUS
<1>1. PICK d \in unread : /\ unread' = unread \ {d}
                          /\ line' = [datagram |-> d, number |-> 1]
                          /\ taken' = Append(taken, d)
  BY DEF UDP!ReadDatagram
<1>2. d \in DOMAIN Datagrams /\ taken \in Seq(DOMAIN Datagrams) /\ counted' = counted
      /\ udpAt' = "lines" /\ counted = FlattenSeq(Wholes(taken)) /\ unread \subseteq DOMAIN Datagrams
  BY <1>1 DEF UDP!ReadDatagram, DatagramInv
<1>3. 1 \in 1 .. Len(Datagrams[d]) + 1
  BY <1>2, DatagramIsList
<1>4. counted' = FlattenSeq(Wholes(taken)) \o UDP!GoodLines(d, 1 - 1)
  <2>1. FlattenSeq(Wholes(taken)) \in Seq(LineIds)
    BY <1>2, WholesTyped
  <2>2. UDP!GoodLines(d, 1 - 1) = << >>
    <3>1. 1 - 1 = 0
      OBVIOUS
    <3> QED
      BY <3>1, NoGoodLines
  <2> QED
    BY <1>2, <2>1, <2>2
<1>5. taken' \in Seq(DOMAIN Datagrams) /\ unread' \subseteq DOMAIN Datagrams
  BY <1>1, <1>2
<1> QED
  BY <1>1, <1>2, <1>3, <1>4, <1>5 DEF DatagramInv

(* A line more of the datagram, counted when it is good. *)
LEMMA NextLineKeeps == DatagramInv /\ UDP!NextLine => DatagramInv'
<1> SUFFICES ASSUME DatagramInv, UDP!NextLine PROVE DatagramInv'
  OBVIOUS
<1>1. udpAt = "lines" /\ UNCHANGED << taken, unread, udpAt >>
      /\ taken \in Seq(DOMAIN Datagrams) /\ unread \subseteq DOMAIN Datagrams
  BY DEF UDP!NextLine, DatagramInv
<1>2. PICK ds \in Seq(DOMAIN Datagrams), d \in DOMAIN Datagrams :
        \E n \in 1 .. Len(Datagrams[d]) + 1 :
          /\ taken = Append(ds, d)
          /\ line = [datagram |-> d, number |-> n]
          /\ counted = FlattenSeq(Wholes(ds)) \o UDP!GoodLines(d, n - 1)
  BY <1>1 DEF DatagramInv
<1>3. PICK n \in 1 .. Len(Datagrams[d]) + 1 :
          /\ taken = Append(ds, d)
          /\ line = [datagram |-> d, number |-> n]
          /\ counted = FlattenSeq(Wholes(ds)) \o UDP!GoodLines(d, n - 1)
  BY <1>2
<1>4. n =< Len(Datagrams[d]) /\ Len(Datagrams[d]) \in Nat
  BY <1>3, DatagramIsList DEF UDP!NextLine
<1>5. n \in 1 .. Len(Datagrams[d]) /\ n + 1 \in 1 .. Len(Datagrams[d]) + 1
      /\ n \in Nat /\ n - 1 \in Nat /\ (n + 1) - 1 = n
  BY <1>4
<1>6. line' = [datagram |-> d, number |-> n + 1]
  BY <1>3 DEF UDP!NextLine
<1>7. counted' = IF UDP!Parses(Datagrams[d][n]) THEN Append(counted, [datagram |-> d, number |-> n])
                 ELSE counted
  BY <1>3 DEF UDP!NextLine
<1> DEFINE before == FlattenSeq(Wholes(ds))
           some == UDP!GoodLines(d, n - 1)
           id == [datagram |-> d, number |-> n]
<1>8. before \in Seq(LineIds) /\ some \in Seq(LineIds) /\ id \in LineIds
  BY <1>5, WholesTyped, GoodLinesTyped DEF LineIds
<1>9. UDP!GoodLines(d, n) = IF UDP!Parses(Datagrams[d][n]) THEN Append(some, id) ELSE some
  BY <1>5, NextGoodLine
<1> HIDE DEF before, some, id
<1>10. Append(before \o some, id) = before \o Append(some, id)
  BY <1>8, LinesAppend
<1>11. counted' = before \o UDP!GoodLines(d, (n + 1) - 1)
  <2>1. counted = before \o some
    BY <1>3 DEF before, some
  <2>2. counted' = before \o UDP!GoodLines(d, n)
    BY <1>7, <1>9, <1>10, <2>1 DEF id
  <2> QED
    BY <1>5, <2>2
<1> QED
  BY <1>1, <1>3, <1>5, <1>6, <1>11 DEF DatagramInv, before

(* At its end the datagram is one of those gone through. *)
LEMMA LinesEndKeeps == DatagramInv /\ UDP!LinesEnd => DatagramInv'
<1> SUFFICES ASSUME DatagramInv, UDP!LinesEnd PROVE DatagramInv'
  OBVIOUS
<1>1. udpAt = "lines" /\ UNCHANGED << taken, unread, counted >> /\ udpAt' = "check"
      /\ taken \in Seq(DOMAIN Datagrams) /\ unread \subseteq DOMAIN Datagrams
  BY DEF UDP!LinesEnd, DatagramInv
<1>2. PICK ds \in Seq(DOMAIN Datagrams), d \in DOMAIN Datagrams :
        \E n \in 1 .. Len(Datagrams[d]) + 1 :
          /\ taken = Append(ds, d)
          /\ line = [datagram |-> d, number |-> n]
          /\ counted = FlattenSeq(Wholes(ds)) \o UDP!GoodLines(d, n - 1)
  BY <1>1 DEF DatagramInv
<1>3. PICK n \in 1 .. Len(Datagrams[d]) + 1 :
          /\ taken = Append(ds, d)
          /\ line = [datagram |-> d, number |-> n]
          /\ counted = FlattenSeq(Wholes(ds)) \o UDP!GoodLines(d, n - 1)
  BY <1>2
<1>4. n > Len(Datagrams[d]) /\ Len(Datagrams[d]) \in Nat
  BY <1>3, DatagramIsList DEF UDP!LinesEnd
<1>5. n - 1 = Len(Datagrams[d])
  BY <1>4
<1>6. counted = FlattenSeq(Wholes(taken))
  BY <1>2, <1>3, <1>5, WholesAppend DEF Whole
<1> QED
  BY <1>1, <1>6 DEF DatagramInv

(* Every step of the receiver keeps the invariant. *)
LEMMA DatagramKeeps == DatagramInv /\ (UDP!Next \/ UNCHANGED udpVars) => DatagramInv'
<1> SUFFICES ASSUME DatagramInv, UDP!Next \/ UNCHANGED udpVars PROVE DatagramInv'
  OBVIOUS
<1>1. CASE UDP!Check \/ UDP!ReadFails \/ UDP!Watch \/ UDP!Stop \/ UDP!Cancel \/ UNCHANGED udpVars
  <2>1. UNCHANGED << taken, unread, line, counted >> /\ (udpAt' = "lines" <=> udpAt = "lines")
    BY <1>1 DEF UDP!Check, UDP!ReadFails, UDP!Watch, UDP!Stop, UDP!Cancel, UDP!statsdVars, udpVars
  <2> QED
    BY <2>1 DEF DatagramInv
<1> QED
  BY <1>1, ReadDatagramKeeps, NextLineKeeps, LinesEndKeeps DEF UDP!Next, UDP!Run

(* What was counted is what the datagrams that were read have to count.    *)
LEMMA DatagramIsRight == DatagramInv => UDP!GoodLinesInOrder
<1> SUFFICES ASSUME DatagramInv PROVE UDP!GoodLinesInOrder
  OBVIOUS
<1> DEFINE of(i) == UDP!GoodLines(taken[i], IF i = Len(taken) /\ udpAt = "lines"
                                            THEN line.number - 1 ELSE Len(Datagrams[taken[i]]))
           parts == [i \in DOMAIN taken |-> of(i)]
<1>1. SUFFICES counted = FlattenSeq(parts)
  BY SameLists DEF UDP!GoodLinesInOrder
<1>2. CASE udpAt # "lines"
  <2>1. parts = Wholes(taken)
    BY <1>2 DEF Wholes, Whole
  <2> QED
    BY <1>2, <2>1 DEF DatagramInv
<1>3. CASE udpAt = "lines"
  <2>1. PICK ds \in Seq(DOMAIN Datagrams), d \in DOMAIN Datagrams :
          \E n \in 1 .. Len(Datagrams[d]) + 1 :
            /\ taken = Append(ds, d)
            /\ line = [datagram |-> d, number |-> n]
            /\ counted = FlattenSeq(Wholes(ds)) \o UDP!GoodLines(d, n - 1)
    BY <1>3 DEF DatagramInv
  <2>2. PICK n \in 1 .. Len(Datagrams[d]) + 1 :
            /\ taken = Append(ds, d)
            /\ line = [datagram |-> d, number |-> n]
            /\ counted = FlattenSeq(Wholes(ds)) \o UDP!GoodLines(d, n - 1)
    BY <2>1
  <2>3. /\ Len(taken) = Len(ds) + 1 /\ DOMAIN taken = 1 .. Len(ds) + 1 /\ Len(ds) \in Nat
        /\ \A i \in 1 .. Len(ds) : taken[i] = ds[i]
        /\ taken[Len(ds) + 1] = d /\ DOMAIN ds = 1 .. Len(ds)
    BY <2>2
  <2>4. line.number = n /\ n - 1 \in Nat
    BY <2>2, DatagramIsList
  <2> DEFINE last == UDP!GoodLines(d, n - 1)
             more == Append(Wholes(ds), last)
  <2>5. Wholes(ds) \in Seq(Seq(LineIds)) /\ last \in Seq(LineIds)
    BY <2>4, WholesTyped, GoodLinesTyped
  <2>6. Len(Wholes(ds)) = Len(ds) /\ \A i \in 1 .. Len(ds) : Wholes(ds)[i] = Whole(ds[i])
    BY <2>3 DEF Wholes
  <2>7. \A i \in 1 .. Len(ds) : of(i) = Whole(ds[i])
    BY <2>3 DEF Whole
  <2>8. of(Len(ds) + 1) = last
    BY <1>3, <2>3, <2>4
  <2> HIDE DEF last, of
  <2>9. DOMAIN parts = 1 .. Len(ds) + 1 /\ \A i \in 1 .. Len(ds) + 1 : parts[i] = of(i)
    BY <2>3
  <2>10. /\ more \in Seq(Seq(LineIds)) /\ Len(more) = Len(ds) + 1
         /\ \A i \in 1 .. Len(ds) : more[i] = Whole(ds[i])
         /\ more[Len(ds) + 1] = last
    BY <2>3, <2>5, <2>6
  <2> HIDE DEF more
  <2>11. \A i \in 1 .. Len(ds) + 1 : parts[i] = more[i]
    <3> SUFFICES ASSUME NEW i \in 1 .. Len(ds) + 1 PROVE parts[i] = more[i]
      OBVIOUS
    <3>1. CASE i \in 1 .. Len(ds)
      BY <2>7, <2>9, <2>10, <3>1
    <3>2. CASE i \notin 1 .. Len(ds)
      <4>1. i = Len(ds) + 1
        BY <2>3, <3>2
      <4> QED
        BY <2>8, <2>9, <2>10, <4>1
    <3> QED
      BY <3>1, <3>2
  <2>12. parts = more
    <3>1. more = [i \in 1 .. Len(ds) + 1 |-> more[i]]
      BY <2>10
    <3>2. parts = [i \in 1 .. Len(ds) + 1 |-> parts[i]]
      BY <2>9
    <3> HIDE DEF parts
    <3> QED
      BY <2>11, <3>1, <3>2
  <2>13. FlattenSeq(more) = FlattenSeq(Wholes(ds)) \o last
    BY <2>5, FlattenAppend DEF more
  <2> QED
    BY <2>2, <2>12, <2>13 DEF last
<1> QED
  BY <1>2, <1>3

-----------------------------------------------------------------------------
(* The scraped program (Prometheus).                                       *)

(* The larger of two numbers, and the smaller. *)
LEMMA MaxOfTwo ==
  ASSUME NEW a \in Nat, NEW b \in Nat
  PROVE  Prom!Max({a, b}) \in Nat /\ a =< Prom!Max({a, b}) /\ b =< Prom!Max({a, b})
<1>1. \E m \in {a, b} : \A y \in {a, b} : m >= y
  <2>1. CASE a =< b
    <3>1. b \in {a, b} /\ \A y \in {a, b} : b >= y
      BY <2>1
    <3> QED
      BY <3>1
  <2>2. CASE ~ (a =< b)
    <3>1. a \in {a, b} /\ \A y \in {a, b} : a >= y
      BY <2>2
    <3> QED
      BY <3>1
  <2> QED
    BY <2>1, <2>2
<1> DEFINE m == CHOOSE x \in {a, b} : \A y \in {a, b} : x >= y
<1>2. m \in {a, b} /\ \A y \in {a, b} : m >= y
  BY <1>1
<1>3. Prom!Max({a, b}) = m
  BY Zenon DEF Prom!Max
<1> HIDE DEF m
<1> QED
  BY <1>2, <1>3

LEMMA LeastPause ==
  ASSUME NEW S \in SUBSET Nat, S # {}
  PROVE  Prom!Min(S) \in S /\ \A n \in S : Prom!Min(S) =< n
<1>1. Prom!Min(S) = Min(S)
  BY Zenon DEF Prom!Min, Min
<1> QED
  BY <1>1, LeastIsIn

(* The powers of two. *)
LEMMA PausesByRecursion ==
  /\ Prom!Pauses[0] = 1
  /\ \A k \in 0 .. Ceiling - 1 : Prom!Pauses[k + 1] = 2 * Prom!Pauses[k]
<1> DEFINE N == Ceiling
           Upto(m) == {f \in [0 .. m -> Nat] :
                         \A k \in 0 .. m : f[k] = IF k = 0 THEN 1 ELSE 2 * f[k - 1]}
           T == {m \in 0 .. N : Upto(m) # {}}
<1>0. N \in Nat
  BY SourcesAssumption
<1> HIDE DEF N
<1>1. 0 \in T
  <2> DEFINE g == [k \in 0 .. 0 |-> 1]
  <2>1. g \in Upto(0)
    OBVIOUS
  <2>2. 0 \in 0 .. N
    BY <1>0
  <2> QED
    BY <2>1, <2>2
<1>2. ASSUME NEW m \in 0 .. N - 1, m \in T PROVE m + 1 \in T
  <2>1. PICK f \in [0 .. m -> Nat] : \A k \in 0 .. m : f[k] = IF k = 0 THEN 1 ELSE 2 * f[k - 1]
    BY <1>2
  <2> DEFINE g == [k \in 0 .. m + 1 |-> IF k = m + 1 THEN 2 * f[m] ELSE f[k]]
  <2>2. m \in Nat /\ f[m] \in Nat /\ m + 1 \in 0 .. N
    BY <1>0
  <2>3. g \in [0 .. m + 1 -> Nat]
    <3>1. 2 * f[m] \in Nat
      BY <2>2
    <3> QED
      BY <2>2, <3>1
  <2>4. ASSUME NEW k \in 0 .. m + 1 PROVE g[k] = IF k = 0 THEN 1 ELSE 2 * g[k - 1]
    <3>1. CASE k = m + 1
      <4>1. k - 1 = m /\ k # 0 /\ m \in 0 .. m + 1 /\ m # m + 1
        BY <2>2, <3>1
      <4>2. g[k] = 2 * f[m] /\ g[k - 1] = f[m]
        BY <3>1, <4>1
      <4> QED
        BY <4>1, <4>2
    <3>2. CASE k # m + 1
      <4>1. k \in 0 .. m /\ (k # 0 => k - 1 \in 0 .. m + 1 /\ k - 1 # m + 1)
        BY <2>2, <3>2
      <4>2. g[k] = f[k] /\ (k # 0 => g[k - 1] = f[k - 1])
        BY <3>2, <4>1
      <4> QED
        BY <2>1, <4>1, <4>2
    <3> QED
      BY <3>1, <3>2
  <2>5. g \in Upto(m + 1)
    <3> HIDE DEF g
    <3> QED
      BY <2>3, <2>4
  <2> QED
    BY <2>2, <2>5
<1>3. N \in T
  <2> HIDE DEF T
  <2>1. 0 .. N \subseteq T
    BY <1>0, <1>1, <1>2, SetInductionUpTo
  <2> QED
    BY <1>0, <2>1
<1>4. PICK f \in [0 .. N -> Nat] : \A k \in 0 .. N : f[k] = IF k = 0 THEN 1 ELSE 2 * f[k - 1]
  BY <1>3
<1>5. f = [k \in 0 .. N |-> IF k = 0 THEN 1 ELSE 2 * f[k - 1]]
  BY <1>4
<1> DEFINE pauses == CHOOSE p : p = [k \in 0 .. N |-> IF k = 0 THEN 1 ELSE 2 * p[k - 1]]
<1>6. pauses = [k \in 0 .. N |-> IF k = 0 THEN 1 ELSE 2 * pauses[k - 1]]
  BY <1>5
<1>7. Prom!Pauses = pauses
  BY DEF Prom!Pauses, N
<1> HIDE DEF pauses
<1>8. pauses[0] = 1
  BY <1>0, <1>6
<1>9. ASSUME NEW k \in 0 .. N - 1 PROVE pauses[k + 1] = 2 * pauses[k]
  <2>1. k + 1 \in 0 .. N /\ k + 1 # 0 /\ (k + 1) - 1 = k
    BY <1>0
  <2> QED
    BY <1>6, <2>1
<1> QED
  BY <1>7, <1>8, <1>9 DEF N

(* They grow, and reach the ceiling. *)
LEMMA PausesGrow == \A k \in 0 .. Ceiling : Prom!Pauses[k] \in Nat /\ Prom!Pauses[k] >= k + 1
<1> DEFINE U == {k \in 0 .. Ceiling : Prom!Pauses[k] \in Nat /\ Prom!Pauses[k] >= k + 1}
<1>0. Ceiling \in Nat
  BY SourcesAssumption
<1>1. 0 \in U
  BY <1>0, PausesByRecursion
<1>2. ASSUME NEW k \in 0 .. Ceiling - 1, k \in U PROVE k + 1 \in U
  <2> DEFINE p == Prom!Pauses[k]
  <2>1. p \in Nat /\ p >= k + 1 /\ k \in Nat /\ k + 1 \in 0 .. Ceiling
    BY <1>0, <1>2
  <2>2. Prom!Pauses[k + 1] = 2 * p
    BY PausesByRecursion
  <2> HIDE DEF p
  <2>3. 2 * p \in Nat /\ 2 * p >= (k + 1) + 1
    BY <2>1
  <2> QED
    BY <2>1, <2>2, <2>3
<1> HIDE DEF U
<1>3. 0 .. Ceiling \subseteq U
  BY <1>0, <1>1, <1>2, SetInductionUpTo
<1> QED
  BY <1>3 DEF U

LEMMA PausesDouble ==
  ASSUME NEW j \in 0 .. Ceiling, NEW k \in 0 .. Ceiling, j < k
  PROVE  2 * Prom!Pauses[j] =< Prom!Pauses[k]
<1> DEFINE U == {i \in j + 1 .. Ceiling : 2 * Prom!Pauses[j] =< Prom!Pauses[i]}
<1>0. Ceiling \in Nat /\ j \in Nat /\ j + 1 \in Nat /\ Prom!Pauses[j] \in Nat
  BY SourcesAssumption, PausesGrow
<1>1. j + 1 \in U
  <2>1. j \in 0 .. Ceiling - 1 /\ j + 1 \in j + 1 .. Ceiling
    BY <1>0
  <2>2. Prom!Pauses[j + 1] = 2 * Prom!Pauses[j]
    BY <2>1, PausesByRecursion
  <2> DEFINE p == 2 * Prom!Pauses[j]
  <2>3. p \in Nat
    BY <1>0
  <2> HIDE DEF p
  <2>4. p =< p
    BY <2>3
  <2> QED
    BY <2>1, <2>2, <2>4 DEF p
<1>2. ASSUME NEW i \in j + 1 .. Ceiling - 1, i \in U PROVE i + 1 \in U
  <2> DEFINE p == 2 * Prom!Pauses[j]
             q == Prom!Pauses[i]
  <2>1. i \in 0 .. Ceiling - 1 /\ i \in 0 .. Ceiling /\ i + 1 \in j + 1 .. Ceiling
    BY <1>0
  <2>2. p =< q
    BY <1>2
  <2>3. Prom!Pauses[i + 1] = 2 * q
    BY <2>1, PausesByRecursion
  <2>4. p \in Nat /\ q \in Nat
    BY <1>0, <2>1, PausesGrow
  <2> HIDE DEF p, q
  <2>5. p =< 2 * q
    BY <2>2, <2>4
  <2> QED
    BY <2>1, <2>3, <2>5 DEF p
<1> HIDE DEF U
<1>3. j + 1 .. Ceiling \subseteq U
  BY <1>0, <1>1, <1>2, SetInductionUpTo
<1> QED
  BY <1>0, <1>3 DEF U

BackoffPauses == {Prom!Pauses[k] : k \in 0 .. Ceiling}

(* The longest pause is one of them, and nothing below the ceiling doubled *)
(* is longer.                                                              *)
LEMMA LongestIsPause ==
  /\ Prom!LongestBackoff \in BackoffPauses /\ Prom!LongestBackoff \in Nat
  /\ Prom!LongestBackoff >= Ceiling
<1> DEFINE S == {n \in BackoffPauses : n >= Ceiling}
<1>0. Ceiling \in Nat
  BY SourcesAssumption
<1>1. BackoffPauses \subseteq Nat
  BY PausesGrow DEF BackoffPauses
<1>2. Prom!Pauses[Ceiling] \in S
  <2>1. Ceiling \in 0 .. Ceiling
    BY <1>0
  <2>2. Prom!Pauses[Ceiling] \in BackoffPauses
    BY <2>1 DEF BackoffPauses
  <2>3. Prom!Pauses[Ceiling] \in Nat /\ Prom!Pauses[Ceiling] >= Ceiling + 1
    BY <2>1, PausesGrow
  <2>4. Prom!Pauses[Ceiling] >= Ceiling
    BY <1>0, <2>3
  <2> QED
    BY <2>2, <2>4
<1>3. Prom!LongestBackoff = Prom!Min(S)
  BY DEF Prom!LongestBackoff, BackoffPauses
<1>4. S \in SUBSET Nat /\ S # {}
  BY <1>1, <1>2
<1>5. Prom!Min(S) \in S
  <2> HIDE DEF S
  <2> QED
    BY <1>4, LeastPause
<1> QED
  BY <1>1, <1>3, <1>5

LEMMA PauseTyped ==
  ASSUME NEW b \in BackoffPauses
  PROVE  b \in Nat /\ b > 0
<1>1. PICK k \in 0 .. Ceiling : b = Prom!Pauses[k]
  BY DEF BackoffPauses
<1>2. b \in Nat /\ b >= k + 1 /\ k \in Nat
  BY <1>1, PausesGrow
<1> QED
  BY <1>2

LEMMA DoubledIsPause ==
  ASSUME NEW b \in BackoffPauses, b < Ceiling
  PROVE  2 * b \in BackoffPauses /\ 2 * b =< Prom!LongestBackoff
<1>0. Ceiling \in Nat /\ b \in Nat
  BY SourcesAssumption, PauseTyped
<1>1. PICK j \in 0 .. Ceiling : b = Prom!Pauses[j]
  BY DEF BackoffPauses
<1>2. PICK k \in 0 .. Ceiling : Prom!LongestBackoff = Prom!Pauses[k]
  BY LongestIsPause DEF BackoffPauses
<1>3. b < Prom!LongestBackoff
  BY <1>0, LongestIsPause
<1>4. j # Ceiling
  <2>1. b >= j + 1
    BY <1>1, PausesGrow
  <2> QED
    BY <1>0, <2>1
<1>5. 2 * b \in BackoffPauses
  <2>1. j \in 0 .. Ceiling - 1 /\ j + 1 \in 0 .. Ceiling
    BY <1>0, <1>4
  <2>2. 2 * b = Prom!Pauses[j + 1]
    BY <1>1, <2>1, PausesByRecursion
  <2> QED
    BY <2>1, <2>2 DEF BackoffPauses
<1>6. j < k
  <2> SUFFICES ASSUME k =< j PROVE FALSE
    BY <1>0
  <2>1. CASE k = j
    BY <1>0, <1>1, <1>2, <1>3, <2>1
  <2>2. CASE k < j
    <3>1. 2 * Prom!LongestBackoff =< b
      BY <1>1, <1>2, <2>2, PausesDouble
    <3>2. Prom!LongestBackoff \in Nat
      BY LongestIsPause
    <3> QED
      BY <1>0, <1>3, <3>1, <3>2
  <2> QED
    BY <2>1, <2>2
<1> QED
  BY <1>1, <1>2, <1>5, <1>6, PausesDouble

(* The longest of the pauses after a scrape is in the time to recover. *)
LEMMA RecoveryTyped ==
  /\ Prom!Recovery \in Nat /\ Timeout \in Nat /\ Interval \in Nat
  /\ Timeout + Prom!LongestBackoff =< Prom!Recovery
  /\ Timeout + Interval =< Prom!Recovery
<1> DEFINE m == Prom!Max({Prom!LongestBackoff, Interval})
<1>1. m \in Nat /\ Prom!LongestBackoff =< m /\ Interval =< m
  BY LongestIsPause, SourcesAssumption, MaxOfTwo
<1>2. Prom!Recovery = Timeout + m
  BY DEF Prom!Recovery
<1>3. Prom!LongestBackoff \in Nat /\ Timeout \in Nat /\ Interval \in Nat
  BY LongestIsPause, SourcesAssumption
<1> HIDE DEF m
<1> QED
  BY <1>1, <1>2, <1>3

PromTyped ==
    /\ target \in {"answers", "fails", "hangs"}
    /\ promAt \in {"scrape", "asked", "emit", "backoff", "interval", "ended"}
    /\ remaining \in Nat /\ healthy \in Nat
    /\ backoff \in BackoffPauses /\ backoff =< Prom!LongestBackoff
    /\ unsent \subseteq Prom!Series /\ fresh \subseteq Prom!Series
    /\ target # "answers" => healthy = 0
    /\ promAt = "ended" => cancelled

(* Each wait is at most as long as it was begun with. *)
WaitsAreBounded ==
    /\ promAt = "asked" => remaining =< Timeout
    /\ promAt = "backoff" => remaining =< Prom!LongestBackoff
    /\ promAt = "interval" => remaining =< Interval

(* While the program is well, the time since it turned well and the time   *)
(* still to wait do not exceed what was to wait when it turned.            *)
IsSeenSoon ==
    \/ fresh = Prom!Series
    \/ promAt = "scrape" /\ healthy =< Prom!Recovery
    \/ promAt = "asked" /\ healthy + remaining =< Timeout
    \/ promAt = "emit" /\ healthy = 0
    \/ promAt = "emit" /\ healthy =< Prom!Recovery /\ unsent \cup fresh = Prom!Series
    \/ promAt = "backoff" /\ healthy + remaining =< Timeout + Prom!LongestBackoff
    \/ promAt = "interval" /\ healthy + remaining =< Interval

PromInv ==
    /\ PromTyped /\ WaitsAreBounded
    /\ target = "answers" /\ ~ cancelled => IsSeenSoon

(* The bounds the steps of the scraper use. *)
LEMMA PromBounds ==
  /\ Prom!Recovery \in Nat /\ Timeout \in Nat /\ Interval \in Nat /\ Prom!LongestBackoff \in Nat
  /\ Timeout + Prom!LongestBackoff =< Prom!Recovery /\ Timeout + Interval =< Prom!Recovery
  BY RecoveryTyped, LongestIsPause

(* The invariant holds before the first scrape. *)
LEMMA PromInit == Prom!Init => PromInv
<1> SUFFICES ASSUME Prom!Init PROVE PromInv
  OBVIOUS
<1>1. 1 \in BackoffPauses /\ 1 =< Prom!LongestBackoff
  <2>1. 0 \in 0 .. Ceiling /\ Ceiling \in Nat /\ Ceiling >= 1
    BY SourcesAssumption
  <2>2. 1 \in BackoffPauses
    BY <2>1, PausesByRecursion DEF BackoffPauses
  <2> QED
    BY <2>1, <2>2, LongestIsPause
<1>2. PromTyped
  BY <1>1 DEF Prom!Init, PromTyped
<1>3. WaitsAreBounded
  BY DEF Prom!Init, WaitsAreBounded
<1>4. IsSeenSoon
  BY PromBounds DEF Prom!Init, IsSeenSoon
<1> QED
  BY <1>2, <1>3, <1>4 DEF PromInv

(* The program turns well, ill or silent: what is to wait is bounded.      *)
LEMMA TurnKeeps == PromInv /\ Prom!Turn => PromInv'
<1> SUFFICES ASSUME PromInv, Prom!Turn PROVE PromInv'
  OBVIOUS
<1> USE DEF PromInv
<1>1. /\ target' \in {"answers", "fails", "hangs"} /\ healthy' = 0 /\ fresh' = {}
      /\ UNCHANGED << promAt, remaining, backoff, unsent, cancelled >>
  BY DEF Prom!Turn
<1>2. PromTyped'
  BY <1>1 DEF PromTyped
<1>3. WaitsAreBounded'
  BY <1>1 DEF WaitsAreBounded
<1>4. ~ cancelled' => IsSeenSoon'
  <2>1. remaining \in Nat /\ remaining' = remaining /\ promAt' = promAt /\ healthy' = 0
        /\ (promAt = "ended" => cancelled)
        /\ promAt \in {"scrape", "asked", "emit", "backoff", "interval", "ended"}
    BY <1>1 DEF PromTyped
  <2>2. /\ promAt = "asked" => 0 + remaining =< Timeout
        /\ promAt = "backoff" => 0 + remaining =< Timeout + Prom!LongestBackoff
        /\ promAt = "interval" => 0 + remaining =< Interval
        /\ 0 =< Prom!Recovery
    BY <2>1, PromBounds DEF WaitsAreBounded
  <2> QED
    BY <1>1, <2>1, <2>2 DEF IsSeenSoon
<1> QED
  BY <1>2, <1>3, <1>4

(* A second more of being well is a second less to wait. *)
LEMMA PromTickKeeps == PromInv /\ Prom!Tick => PromInv'
<1> SUFFICES ASSUME PromInv, Prom!Tick PROVE PromInv'
  OBVIOUS
<1> USE DEF PromInv
<1>1. /\ promAt \in {"asked", "backoff", "interval"} /\ remaining > 0 /\ remaining' = remaining - 1
      /\ healthy' = (IF target = "answers" THEN Prom!Min({healthy + 1, Prom!Recovery + 1}) ELSE 0)
      /\ UNCHANGED << target, promAt, backoff, unsent, fresh, cancelled >>
  BY DEF Prom!Tick
<1>2. remaining \in Nat /\ healthy \in Nat
  BY DEF PromTyped
<1>3. healthy' \in Nat /\ healthy' =< healthy + 1 /\ (target # "answers" => healthy' = 0)
  <2> DEFINE a == healthy + 1
             S == {a, Prom!Recovery + 1}
  <2>1. a \in S /\ S \in SUBSET Nat /\ a \in Nat
    BY <1>2, PromBounds
  <2>2. Prom!Min(S) \in Nat /\ Prom!Min(S) =< a
    <3> HIDE DEF S, a
    <3> QED
      BY <2>1, LeastPause
  <2>3. healthy' = IF target = "answers" THEN Prom!Min(S) ELSE 0
    BY <1>1
  <2> HIDE DEF S
  <2> QED
    BY <1>2, <2>2, <2>3
<1>4. remaining' \in Nat /\ remaining' =< remaining
  BY <1>1, <1>2
<1>5. PromTyped'
  BY <1>1, <1>3, <1>4 DEF PromTyped
<1>6. WaitsAreBounded'
  BY <1>1, <1>2, PromBounds DEF WaitsAreBounded
<1>7. target' = "answers" /\ ~ cancelled' => IsSeenSoon'
  <2> SUFFICES ASSUME target = "answers", ~ cancelled PROVE IsSeenSoon'
    BY <1>1
  <2>1. IsSeenSoon
    OBVIOUS
  <2>2. healthy' + remaining' =< healthy + remaining
    BY <1>1, <1>2, <1>3
  <2>3. healthy' + remaining' \in Nat /\ healthy + remaining \in Nat
    <3>1. \A a, b \in Nat : a + b \in Nat
      OBVIOUS
    <3> QED
      BY <1>2, <1>3, <1>4, <3>1
  <2>4. CASE fresh = Prom!Series
    BY <1>1, <2>4 DEF IsSeenSoon
  <2>5. CASE promAt = "asked" /\ healthy + remaining =< Timeout
    <3>1. healthy' + remaining' =< Timeout
      BY <2>2, <2>3, <2>5, PromBounds
    <3> QED
      BY <1>1, <2>5, <3>1 DEF IsSeenSoon
  <2>6. CASE promAt = "backoff" /\ healthy + remaining =< Timeout + Prom!LongestBackoff
    <3>1. healthy' + remaining' =< Timeout + Prom!LongestBackoff
      BY <2>2, <2>3, <2>6, PromBounds
    <3> QED
      BY <1>1, <2>6, <3>1 DEF IsSeenSoon
  <2>7. CASE promAt = "interval" /\ healthy + remaining =< Interval
    <3>1. healthy' + remaining' =< Interval
      BY <2>2, <2>3, <2>7, PromBounds
    <3> QED
      BY <1>1, <2>7, <3>1 DEF IsSeenSoon
  <2> QED
    BY <1>1, <2>1, <2>4, <2>5, <2>6, <2>7 DEF IsSeenSoon
<1> QED
  BY <1>5, <1>6, <1>7

(* An answer is emitted as a whole, an error is followed by a pause.       *)
LEMMA ScrapeKeeps ==
  PromInv /\ (Prom!Answered \/ Prom!Asked \/ Prom!ScrapeFails \/ Prom!Scraped) => PromInv'
<1> SUFFICES ASSUME PromInv, Prom!Answered \/ Prom!Asked \/ Prom!ScrapeFails \/ Prom!Scraped
             PROVE  PromInv'
  OBVIOUS
<1> USE DEF PromInv
<1>0. remaining \in Nat /\ healthy \in Nat /\ backoff \in Nat /\ backoff =< Prom!LongestBackoff
  BY PauseTyped DEF PromTyped
<1>1. CASE Prom!Answered
  <2>1. /\ promAt \in {"scrape", "asked"} /\ target = "answers" /\ unsent' = Prom!Series
        /\ promAt' = "emit" /\ remaining' = 0
        /\ UNCHANGED << target, backoff, healthy, fresh, cancelled >>
    BY <1>1 DEF Prom!Answered
  <2>2. PromTyped' /\ WaitsAreBounded'
    BY <2>1 DEF PromTyped, WaitsAreBounded
  <2>3. ASSUME ~ cancelled PROVE IsSeenSoon'
    <3>1. IsSeenSoon
      BY <2>1, <2>3
    <3>2. fresh = Prom!Series \/ healthy =< Prom!Recovery
      <4>1. healthy + remaining =< Timeout => healthy =< Prom!Recovery
        BY <1>0, PromBounds
      <4> QED
        BY <2>1, <3>1, <4>1 DEF IsSeenSoon
    <3>3. unsent' \cup fresh' = Prom!Series
      BY <2>1 DEF PromTyped
    <3> QED
      BY <2>1, <3>2, <3>3 DEF IsSeenSoon
  <2> QED
    BY <2>1, <2>2, <2>3
<1>2. CASE Prom!Asked
  <2>1. /\ target = "hangs" /\ promAt' = "asked" /\ remaining' = Timeout
        /\ UNCHANGED << target, backoff, unsent, healthy, fresh, cancelled >>
    BY <1>2 DEF Prom!Asked
  <2>2. Timeout =< Timeout
    BY PromBounds
  <2> QED
    BY <2>1, <2>2, PromBounds DEF PromTyped, WaitsAreBounded
<1>3. CASE Prom!ScrapeFails
  <2>1. /\ promAt' = "backoff" /\ remaining' = backoff
        /\ UNCHANGED << target, backoff, unsent, healthy, fresh, cancelled >>
    BY <1>3 DEF Prom!ScrapeFails
  <2>2. PromTyped' /\ WaitsAreBounded'
    BY <1>0, <2>1 DEF PromTyped, WaitsAreBounded
  <2>3. ASSUME target = "answers", ~ cancelled PROVE IsSeenSoon'
    <3>1. IsSeenSoon /\ promAt = "asked" /\ remaining = 0
      BY <1>3, <2>3 DEF Prom!ScrapeFails
    <3>2. CASE fresh = Prom!Series
      BY <2>1, <3>2 DEF IsSeenSoon
    <3>3. CASE healthy + remaining =< Timeout
      <4>1. healthy + backoff =< Timeout + Prom!LongestBackoff
        BY <1>0, <3>1, <3>3, PromBounds
      <4> QED
        BY <2>1, <4>1 DEF IsSeenSoon
    <3> QED
      BY <3>1, <3>2, <3>3 DEF IsSeenSoon
  <2> QED
    BY <2>1, <2>2, <2>3
<1>4. CASE Prom!Scraped
  <2>1. /\ promAt = "emit" /\ unsent = {} /\ backoff' = 1 /\ promAt' = "interval"
        /\ remaining' = Interval /\ UNCHANGED << target, unsent, healthy, fresh, cancelled >>
    BY <1>4 DEF Prom!Scraped
  <2>2. 1 \in BackoffPauses /\ 1 =< Prom!LongestBackoff
    <3>1. 0 \in 0 .. Ceiling /\ Ceiling \in Nat /\ Ceiling >= 1
      BY SourcesAssumption
    <3>2. 1 \in BackoffPauses
      BY <3>1, PausesByRecursion DEF BackoffPauses
    <3> QED
      BY <3>1, <3>2, LongestIsPause
  <2>3. PromTyped'
    BY <2>1, <2>2, PromBounds DEF PromTyped
  <2>4. WaitsAreBounded'
    <3>1. Interval =< Interval
      BY PromBounds
    <3> QED
      BY <2>1, <3>1 DEF WaitsAreBounded
  <2>5. ASSUME target = "answers", ~ cancelled PROVE IsSeenSoon'
    <3>1. IsSeenSoon
      BY <2>5
    <3>2. fresh = Prom!Series \/ healthy = 0
      BY <2>1, <3>1 DEF IsSeenSoon, PromTyped
    <3>3. healthy = 0 => healthy + Interval =< Interval
      BY PromBounds
    <3> QED
      BY <2>1, <3>2, <3>3 DEF IsSeenSoon
  <2> QED
    BY <2>1, <2>3, <2>4, <2>5
<1> QED
  BY <1>1, <1>2, <1>3, <1>4

(* What is emitted is no longer to be emitted. *)
LEMMA PromEmitKeeps == PromInv /\ Prom!Emit => PromInv'
<1> SUFFICES ASSUME PromInv, Prom!Emit PROVE PromInv'
  OBVIOUS
<1> USE DEF PromInv
<1>1. PICK s \in unsent : /\ unsent' = unsent \ {s}
                          /\ fresh' = IF target = "answers" THEN fresh \cup {s} ELSE fresh
  BY DEF Prom!Emit
<1>2. promAt = "emit" /\ UNCHANGED << target, promAt, remaining, backoff, healthy, cancelled >>
  BY DEF Prom!Emit
<1>3. unsent' \subseteq Prom!Series /\ fresh' \subseteq Prom!Series
  BY <1>1 DEF PromTyped
<1>4. PromTyped' /\ WaitsAreBounded'
  BY <1>2, <1>3 DEF PromTyped, WaitsAreBounded
<1>5. ASSUME target = "answers", ~ cancelled PROVE IsSeenSoon'
  <2>1. IsSeenSoon
    BY <1>5
  <2>2. unsent' \cup fresh' = unsent \cup fresh
    BY <1>1, <1>5
  <2>3. fresh = Prom!Series => fresh' = Prom!Series
    BY <1>1, <1>3, <1>5
  <2> QED
    BY <1>2, <2>1, <2>2, <2>3 DEF IsSeenSoon
<1> QED
  BY <1>2, <1>4, <1>5

(* The end of a pause is a scrape. *)
LEMMA PauseEndKeeps == PromInv /\ (Prom!BackoffEnds \/ Prom!IntervalEnds) => PromInv'
<1> SUFFICES ASSUME PromInv, Prom!BackoffEnds \/ Prom!IntervalEnds PROVE PromInv'
  OBVIOUS
<1> USE DEF PromInv
<1>1. /\ remaining = 0 /\ promAt \in {"backoff", "interval"} /\ promAt' = "scrape"
      /\ UNCHANGED << target, remaining, unsent, healthy, fresh, cancelled >>
  BY DEF Prom!BackoffEnds, Prom!IntervalEnds
<1>2. backoff' \in BackoffPauses /\ backoff' =< Prom!LongestBackoff
  <2>1. backoff' = backoff \/ (backoff < Ceiling /\ backoff' = 2 * backoff)
    BY DEF Prom!BackoffEnds, Prom!IntervalEnds
  <2>2. backoff \in BackoffPauses /\ backoff =< Prom!LongestBackoff
    BY DEF PromTyped
  <2> QED
    BY <2>1, <2>2, DoubledIsPause
<1>3. PromTyped' /\ WaitsAreBounded'
  BY <1>1, <1>2 DEF PromTyped, WaitsAreBounded
<1>4. ASSUME target = "answers", ~ cancelled PROVE IsSeenSoon'
  <2>1. IsSeenSoon /\ healthy \in Nat
    BY <1>4 DEF PromTyped
  <2>2. /\ healthy + remaining =< Timeout + Prom!LongestBackoff => healthy =< Prom!Recovery
        /\ healthy + remaining =< Interval => healthy =< Prom!Recovery
    BY <1>1, <2>1, PromBounds
  <2> QED
    BY <1>1, <2>1, <2>2 DEF IsSeenSoon
<1> QED
  BY <1>1, <1>3, <1>4

(* Every step of the scraper keeps the invariant, and so does the end of   *)
(* the context it shares with the other receivers.                         *)
LEMMA PromKeeps ==
  ASSUME PromInv, Prom!Next \/ (UNCHANGED promVars /\ cancelled' \in {TRUE, cancelled})
  PROVE  PromInv'
<1>1. CASE Prom!SeeCancel
  <2>1. cancelled /\ promAt' = "ended"
        /\ UNCHANGED << target, remaining, backoff, unsent, healthy, fresh, cancelled >>
    BY <1>1 DEF Prom!SeeCancel
  <2> QED
    BY <2>1 DEF PromInv, PromTyped, WaitsAreBounded
<1>2. CASE Prom!Cancel \/ (UNCHANGED promVars /\ cancelled' \in {TRUE, cancelled})
  <2>1. UNCHANGED promVars /\ cancelled' \in {TRUE, cancelled}
    BY <1>2 DEF Prom!Cancel, Prom!promVars, promVars
  <2>2. UNCHANGED << target, promAt, remaining, backoff, unsent, healthy, fresh >>
    BY <2>1 DEF promVars
  <2>3. CASE cancelled' = TRUE
    BY <2>2, <2>3 DEF PromInv, PromTyped, WaitsAreBounded
  <2>4. CASE cancelled' = cancelled
    BY <2>2, <2>4 DEF PromInv, PromTyped, WaitsAreBounded, IsSeenSoon
  <2> QED
    BY <2>1, <2>3, <2>4
<1> QED
  BY <1>1, <1>2, TurnKeeps, PromTickKeeps, ScrapeKeeps, PromEmitKeeps, PauseEndKeeps
     DEF Prom!Next, Prom!Run

(* Nobody waits for more than the time to recover. *)
LEMMA PromIsRight == PromInv => Prom!RecoversInTime
<1> SUFFICES ASSUME PromInv, target = "answers", healthy > Prom!Recovery, ~ cancelled
             PROVE  fresh = Prom!Series
  BY DEF Prom!RecoversInTime
<1>1. IsSeenSoon /\ healthy \in Nat /\ remaining \in Nat
  BY DEF PromInv, PromTyped
<1>2. /\ ~ (healthy =< Prom!Recovery) /\ healthy # 0
      /\ ~ (healthy + remaining =< Timeout) /\ ~ (healthy + remaining =< Interval)
      /\ ~ (healthy + remaining =< Timeout + Prom!LongestBackoff)
  BY <1>1, PromBounds
<1> QED
  BY <1>1, <1>2 DEF IsSeenSoon

-----------------------------------------------------------------------------
(* The process and its host (OSSidecar).                                   *)

OSTyped ==
    /\ used \in [PIDs -> Nat] /\ life \in [PIDs -> Nat]
    /\ host \in Nat /\ host =< MaxHost /\ starts \in Nat
    /\ pid \in PIDs \cup {0}
    /\ procTotal \in Nat /\ lastTotal \in Nat /\ lastProc \in Nat
    /\ sampled \in BOOLEAN /\ (sampled => pid # 0)
    /\ osAt \in {"stat", "host", "rss"} => pid # 0
    /\ read \in [life : Nat, host : Nat] /\ stored \in [life : Nat, gap : Nat]

(* No process has used more than the host; lives are numbered in order. *)
HostIsSum ==
    /\ \A p \in PIDs : used[p] =< host /\ life[p] =< starts
    /\ read.life =< starts /\ stored.life =< starts

(* Of a sample the host's counter is as new as the process's, or 0; since  *)
(* it was read the process has used no more than the host.                 *)
SinceSample ==
    sampled =>
      /\ lastTotal =< host /\ stored.gap =< lastTotal
      /\ life[pid] = stored.life =>
           /\ lastProc =< used[pid]
           /\ used[pid] + lastTotal =< lastProc + host + stored.gap

(* The same of the process's counter that was just read, and how it lies   *)
(* to the sample before.                                                   *)
SinceRead ==
    osAt = "host" =>
      /\ procTotal =< read.host /\ read.host =< host
      /\ life[pid] = read.life =>
           /\ procTotal =< used[pid]
           /\ used[pid] + read.host =< procTotal + host
      /\ sampled =>
           /\ lastTotal =< read.host + stored.gap
           /\ read.life = stored.life =>
                /\ lastProc =< procTotal
                /\ procTotal + lastTotal =< lastProc + read.host + stored.gap

OSInv == OSTyped /\ HostIsSum /\ SinceSample /\ SinceRead /\ OS!ShareIsBounded

(* Counters that have not wrapped are subtracted as numbers. *)
LEMMA MinusInRange ==
  ASSUME NEW a \in Nat, NEW b \in Nat, b =< a, a < Word
  PROVE  OS!Minus(a, b) = a - b
<1>1. Word \in Nat
  BY SourcesAssumption
<1>2. a + Word - b = (a - b) + Word /\ a - b \in 0 .. Word - 1
  BY <1>1
<1>3. \A x \in 0 .. Word - 1 : (x + Word) % Word = x
  BY <1>1
<1> QED
  BY <1>2, <1>3 DEF OS!Minus

(* The invariant holds when nothing has run. *)
LEMMA OSInit == OS!Init => OSInv
<1> SUFFICES ASSUME OS!Init PROVE OSInv
  OBVIOUS
<1> USE DEF OS!Init, OS!Nothing, OS!NoShare
<1>1. OSTyped
  <2>1. MaxHost \in Nat /\ 0 =< MaxHost
    BY SourcesAssumption
  <2>2. [p \in PIDs |-> 0] \in [PIDs -> Nat]
    OBVIOUS
  <2> QED
    BY <2>1, <2>2 DEF OSTyped
<1>2. HostIsSum /\ SinceSample /\ SinceRead /\ OS!ShareIsBounded
  BY DEF HostIsSum, SinceSample, SinceRead, OS!ShareIsBounded
<1> QED
  BY <1>1, <1>2 DEF OSInv

(* The host's time and at most one process's go on together. *)
LEMMA WorkKeeps == OSInv /\ OS!Work => OSInv'
<1> SUFFICES ASSUME OSInv, OS!Work PROVE OSInv'
  OBVIOUS
<1> USE DEF OSInv
<1>1. /\ host < MaxHost /\ host' = host + 1
      /\ UNCHANGED << starts, life, pid, osAt, procTotal, share, read, lastTotal, lastProc,
                      sampled, stored >>
  BY DEF OS!Work, OS!tickVars, OS!lastVars
<1>2. used' \in [PIDs -> Nat] /\ \A p \in PIDs : used'[p] \in {used[p], used[p] + 1}
  <2>1. CASE UNCHANGED used
    BY <2>1 DEF OSTyped
  <2>2. CASE \E p \in PIDs : used' = [used EXCEPT ![p] = @ + 1]
    BY <2>2 DEF OSTyped
  <2> QED
    BY <2>1, <2>2 DEF OS!Work
<1>3. host \in Nat /\ MaxHost \in Nat /\ \A p \in PIDs : used[p] \in Nat
  BY SourcesAssumption DEF OSTyped
<1>4. OSTyped'
  BY <1>1, <1>2, <1>3 DEF OSTyped
<1>5. HostIsSum'
  BY <1>1, <1>2, <1>3 DEF HostIsSum
<1>6. /\ lastTotal \in Nat /\ lastProc \in Nat /\ procTotal \in Nat /\ stored.gap \in Nat
      /\ read.host \in Nat /\ read.life \in Nat /\ stored.life \in Nat
  BY DEF OSTyped
<1>7. SinceSample'
  <2> SUFFICES ASSUME sampled PROVE SinceSample'
    BY <1>1 DEF SinceSample
  <2>1. pid \in PIDs
    BY DEF OSTyped
  <2>2. lastTotal =< host + 1
    BY <1>3, <1>6 DEF SinceSample
  <2>3. ASSUME life[pid] = stored.life
        PROVE  lastProc =< used'[pid] /\ used'[pid] + lastTotal =< lastProc + (host + 1) + stored.gap
    <3>1. lastProc =< used[pid] /\ used[pid] + lastTotal =< lastProc + host + stored.gap
      BY <2>3 DEF SinceSample
    <3>2. used[pid] \in Nat /\ used'[pid] \in {used[pid], used[pid] + 1}
      BY <1>2, <1>3, <2>1
    <3> QED
      BY <1>3, <1>6, <3>1, <3>2
  <2> QED
    BY <1>1, <2>2, <2>3 DEF SinceSample
<1>8. SinceRead'
  <2> SUFFICES ASSUME osAt = "host" PROVE SinceRead'
    BY <1>1 DEF SinceRead
  <2>1. pid \in PIDs
    BY DEF OSTyped
  <2>2. read.host =< host + 1
    BY <1>3, <1>6 DEF SinceRead
  <2>3. ASSUME life[pid] = read.life
        PROVE  procTotal =< used'[pid] /\ used'[pid] + read.host =< procTotal + (host + 1)
    <3>1. procTotal =< used[pid] /\ used[pid] + read.host =< procTotal + host
      BY <2>3 DEF SinceRead
    <3>2. used[pid] \in Nat /\ used'[pid] \in {used[pid], used[pid] + 1}
      BY <1>2, <1>3, <2>1
    <3> QED
      BY <1>3, <1>6, <3>1, <3>2
  <2> QED
    BY <1>1, <2>2, <2>3 DEF SinceRead
<1>9. OS!ShareIsBounded'
  BY <1>1 DEF OS!ShareIsBounded
<1> QED
  BY <1>4, <1>5, <1>7, <1>8, <1>9

(* Another process under an ID has a number of its own. *)
LEMMA StartKeeps == OSInv /\ OS!StartProcess => OSInv'
<1> SUFFICES ASSUME OSInv, OS!StartProcess PROVE OSInv'
  OBVIOUS
<1> USE DEF OSInv
<1>1. /\ starts' = starts + 1
      /\ UNCHANGED << host, pid, osAt, procTotal, share, read, lastTotal, lastProc, sampled, stored >>
  BY DEF OS!StartProcess, OS!tickVars, OS!lastVars
<1>2. PICK p \in PIDs : /\ used' = [used EXCEPT ![p] = 0]
                        /\ life' = [life EXCEPT ![p] = starts']
  BY DEF OS!StartProcess
<1>3. OSTyped'
  BY <1>1, <1>2 DEF OSTyped
<1>4. starts \in Nat /\ starts' = starts + 1 /\ read.life \in Nat /\ stored.life \in Nat
      /\ read.life =< starts /\ stored.life =< starts
  BY <1>1 DEF OSTyped, HostIsSum
<1>5. \A q \in PIDs : /\ q # p => used'[q] = used[q] /\ life'[q] = life[q]
                      /\ q = p => used'[q] = 0 /\ life'[q] = starts + 1
  BY <1>1, <1>2 DEF OSTyped
<1>6. HostIsSum'
  <2>1. ASSUME NEW q \in PIDs PROVE used'[q] =< host /\ life'[q] =< starts + 1
    <3>1. used[q] =< host /\ life[q] =< starts /\ life[q] \in Nat /\ host \in Nat
      BY DEF OSTyped, HostIsSum
    <3> QED
      BY <1>4, <1>5, <3>1
  <2> QED
    BY <1>1, <1>4, <2>1 DEF HostIsSum
<1>7. ASSUME pid # 0 PROVE /\ life'[pid] \in {stored.life, read.life} =>
                               life'[pid] = life[pid] /\ used'[pid] = used[pid]
  <2>1. pid \in PIDs
    BY <1>7 DEF OSTyped
  <2> QED
    BY <1>4, <1>5, <2>1
<1>8. SinceSample'
  BY <1>1, <1>7 DEF SinceSample, OSTyped
<1>9. SinceRead'
  BY <1>1, <1>7 DEF SinceRead, OSTyped
<1>10. OS!ShareIsBounded'
  BY <1>1 DEF OS!ShareIsBounded
<1> QED
  BY <1>3, <1>6, <1>8, <1>9, <1>10

(* The process is looked up while no sample has been taken. *)
LEMMA LookupKeeps == OSInv /\ OS!Lookup => OSInv'
<1> SUFFICES ASSUME OSInv, OS!Lookup PROVE OSInv'
  OBVIOUS
<1> USE DEF OSInv
<1>1. /\ pid' = (IF pid = 0 THEN OS!findPID ELSE pid)
      /\ osAt' \in {"wait", "stat"} /\ (osAt' = "stat" => pid' # 0)
      /\ UNCHANGED << used, host, starts, life, procTotal, share, read, lastTotal, lastProc,
                      sampled, stored >>
  BY DEF OS!Lookup, OS!worldVars, OS!tickVars, OS!lastVars
<1>2. OS!findPID \in PIDs \cup {0}
  <2>1. OS!Named \subseteq PIDs /\ OS!Named \in SUBSET Nat
    BY SourcesAssumption DEF OS!Named
  <2>2. OS!Named # {} => OS!Min(OS!Named) \in OS!Named
    <3>1. OS!Min(OS!Named) = Min(OS!Named)
      BY Zenon DEF OS!Min, Min
    <3> QED
      BY <2>1, <3>1, LeastIsIn
  <2> QED
    BY <2>1, <2>2 DEF OS!findPID
<1>3. OSTyped'
  BY <1>1, <1>2 DEF OSTyped
<1>4. HostIsSum' /\ SinceSample' /\ SinceRead' /\ OS!ShareIsBounded'
  BY <1>1 DEF OSTyped, HostIsSum, SinceSample, SinceRead, OS!ShareIsBounded
<1> QED
  BY <1>3, <1>4

(* The process's counter is read. *)
LEMMA ReadStatKeeps == OSInv /\ OS!ReadStat => OSInv'
<1> SUFFICES ASSUME OSInv, OS!ReadStat PROVE OSInv'
  OBVIOUS
<1> USE DEF OSInv
<1>1. osAt = "stat" /\ UNCHANGED << used, host, starts, life, pid, share, lastTotal, lastProc,
                                    sampled, stored >>
  BY DEF OS!ReadStat, OS!worldVars, OS!lastVars
<1>2. CASE running[pid] = "none"
  <2>1. osAt' = "wait" /\ UNCHANGED << procTotal, read >>
    BY <1>2 DEF OS!ReadStat
  <2> QED
    BY <1>1, <2>1 DEF OSTyped, HostIsSum, SinceSample, SinceRead, OS!ShareIsBounded
<1>3. CASE running[pid] # "none"
  <2>1. osAt' = "host" /\ procTotal' = used[pid] /\ read' = [life |-> life[pid], host |-> host]
    BY <1>3 DEF OS!ReadStat
  <2>2. pid \in PIDs /\ used[pid] \in Nat /\ life[pid] \in Nat /\ host \in Nat
        /\ used[pid] =< host /\ life[pid] =< starts
    BY <1>1 DEF OSTyped, HostIsSum
  <2>3. read' \in [life : Nat, host : Nat] /\ read'.life = life[pid] /\ read'.host = host
    BY <2>1, <2>2
  <2>4. OSTyped'
    BY <1>1, <2>1, <2>2, <2>3 DEF OSTyped
  <2>5. HostIsSum' /\ SinceSample' /\ OS!ShareIsBounded'
    BY <1>1, <2>2, <2>3 DEF HostIsSum, SinceSample, OS!ShareIsBounded
  <2>6. SinceRead'
    <3>1. sampled => /\ lastTotal =< host + stored.gap
                     /\ life[pid] = stored.life =>
                          /\ lastProc =< used[pid]
                          /\ used[pid] + lastTotal =< lastProc + host + stored.gap
      <4>1. lastTotal \in Nat /\ stored.gap \in Nat
        BY DEF OSTyped
      <4> QED
        BY <2>2, <4>1 DEF SinceSample
    <3>2. used[pid] + host =< used[pid] + host /\ used[pid] =< used[pid] /\ host =< host
      BY <2>2
    <3> QED
      BY <1>1, <2>1, <2>2, <2>3, <3>1, <3>2 DEF SinceRead
  <2> QED
    BY <2>4, <2>5, <2>6
<1> QED
  BY <1>2, <1>3

(* The host's counter is read or not, the share emitted, and both stored.  *)
LEMMA MeasureKeeps == OSInv /\ (OS!ReadHost \/ OS!ReadHostFails) => OSInv'
<1> SUFFICES ASSUME OSInv, OS!ReadHost \/ OS!ReadHostFails PROVE OSInv'
  OBVIOUS
<1> USE DEF OSInv
<1>1. osAt = "host" /\ osAt' = "rss" /\ lastProc' = procTotal /\ sampled' = TRUE
      /\ UNCHANGED << used, host, starts, life, pid, procTotal, read >>
  BY DEF OS!ReadHost, OS!ReadHostFails, OS!Measure, OS!NextProc, OS!worldVars
<1>2. /\ pid \in PIDs /\ pid # 0 /\ used[pid] \in Nat /\ host \in Nat /\ host < Word /\ Word \in Nat
      /\ procTotal \in Nat /\ lastTotal \in Nat /\ lastProc \in Nat /\ read.host \in Nat
      /\ read.life \in Nat /\ stored.gap \in Nat /\ used[pid] =< host /\ read.life =< starts
  BY <1>1, SourcesAssumption DEF OSTyped, HostIsSum
<1>3. /\ procTotal =< read.host /\ read.host =< host
      /\ life[pid] = read.life => procTotal =< used[pid] /\ used[pid] + read.host =< procTotal + host
  BY <1>1 DEF SinceRead
<1>4. CASE OS!ReadHost
  <2>1. /\ lastTotal' = host /\ stored' = [life |-> read.life, gap |-> host - read.host]
        /\ share' = IF sampled /\ OS!Minus(host, lastTotal) > 0
                    THEN [proc |-> OS!Minus(procTotal, lastProc), host |-> OS!Minus(host, lastTotal),
                          same |-> read.life = stored.life, gap |-> stored.gap]
                    ELSE share
    BY <1>4 DEF OS!ReadHost, OS!Measure
  <2>2. host - read.host \in Nat /\ host - read.host =< host
    BY <1>2, <1>3
  <2>3. stored'.life = read.life /\ stored'.gap = host - read.host
        /\ stored' \in [life : Nat, gap : Nat]
    BY <1>2, <2>1, <2>2
  <2>4. OSTyped'
    BY <1>1, <1>2, <2>1, <2>3 DEF OSTyped
  <2>5. HostIsSum'
    BY <1>1, <1>2, <2>3 DEF HostIsSum
  <2>6. SinceSample'
    <3>1. life[pid] = read.life => used[pid] + host =< procTotal + host + (host - read.host)
      BY <1>2, <1>3
    <3>2. host =< host
      BY <1>2
    <3> QED
      BY <1>1, <1>3, <2>1, <2>2, <2>3, <3>1, <3>2 DEF SinceSample
  <2>7. OS!ShareIsBounded'
    <3>1. CASE ~ (sampled /\ OS!Minus(host, lastTotal) > 0)
      BY <2>1, <3>1 DEF OS!ShareIsBounded
    <3>2. CASE sampled /\ OS!Minus(host, lastTotal) > 0
      <4> SUFFICES ASSUME read.life = stored.life
                   PROVE  OS!Minus(procTotal, lastProc) =< OS!Minus(host, lastTotal) + stored.gap
        BY <2>1, <3>2 DEF OS!ShareIsBounded
      <4>1. lastTotal =< host
        BY <3>2 DEF SinceSample
      <4>2. lastProc =< procTotal /\ procTotal + lastTotal =< lastProc + read.host + stored.gap
        BY <1>1, <3>2 DEF SinceRead
      <4>3. procTotal < Word
        BY <1>2, <1>3
      <4>4. OS!Minus(procTotal, lastProc) = procTotal - lastProc
        BY <1>2, <4>2, <4>3, MinusInRange
      <4>5. OS!Minus(host, lastTotal) = host - lastTotal
        BY <1>2, <4>1, MinusInRange
      <4>6. procTotal - lastProc =< (host - lastTotal) + stored.gap
        BY <1>2, <1>3, <4>1, <4>2
      <4> QED
        BY <4>4, <4>5, <4>6
    <3> QED
      BY <3>1, <3>2
  <2>8. SinceRead'
    BY <1>1 DEF SinceRead
  <2> QED
    BY <2>4, <2>5, <2>6, <2>7, <2>8
<1>5. CASE OS!ReadHostFails
  <2>1. lastTotal' = 0 /\ stored' = [life |-> read.life, gap |-> 0] /\ share' = share
    BY <1>5 DEF OS!ReadHostFails, OS!Measure
  <2>2. stored'.life = read.life /\ stored'.gap = 0 /\ stored' \in [life : Nat, gap : Nat]
    BY <1>2, <2>1
  <2>3. OSTyped'
    BY <1>1, <1>2, <2>1, <2>2 DEF OSTyped
  <2>4. HostIsSum'
    BY <1>1, <1>2, <2>2 DEF HostIsSum
  <2>5. SinceSample'
    <3>1. used[pid] + 0 =< procTotal + host + 0 /\ 0 =< host
      BY <1>2
    <3> QED
      BY <1>1, <1>3, <2>1, <2>2, <3>1 DEF SinceSample
  <2>6. SinceRead' /\ OS!ShareIsBounded'
    BY <1>1, <2>1 DEF SinceRead, OS!ShareIsBounded
  <2> QED
    BY <2>3, <2>4, <2>5, <2>6
<1> QED
  BY <1>4, <1>5

(* Every step of the receiver and its host keeps the invariant. *)
LEMMA OSKeeps == OSInv /\ (OS!Next \/ UNCHANGED osVars) => OSInv'
<1> SUFFICES ASSUME OSInv, OS!Next \/ UNCHANGED osVars PROVE OSInv'
  OBVIOUS
<1>1. CASE OS!Exit \/ OS!Cancel \/ UNCHANGED osVars
  <2>1. UNCHANGED << used, host, starts, life, pid, osAt, procTotal, share, read, lastTotal,
                     lastProc, sampled, stored >>
    BY <1>1 DEF OS!Exit, OS!Cancel, osVars, OS!osVars, OS!worldVars, OS!tickVars, OS!lastVars
  <2> QED
    BY <2>1 DEF OSInv, OSTyped, HostIsSum, SinceSample, SinceRead, OS!ShareIsBounded
<1>2. CASE OS!Ticked \/ OS!SeeCancel
  <2>1. osAt' \in {"tick", "ended"}
        /\ UNCHANGED << used, host, starts, life, pid, procTotal, share, read, lastTotal,
                        lastProc, sampled, stored >>
    BY <1>2 DEF OS!Ticked, OS!SeeCancel, OS!worldVars, OS!tickVars, OS!lastVars
  <2> QED
    BY <2>1 DEF OSInv, OSTyped, HostIsSum, SinceSample, SinceRead, OS!ShareIsBounded
<1>3. CASE OS!ReadRSS
  <2>1. /\ osAt' = "wait" /\ procTotal' = 0 /\ read' = [life |-> 0, host |-> 0]
        /\ share' = [proc |-> 0, host |-> 0, same |-> TRUE, gap |-> 0]
        /\ UNCHANGED << used, host, starts, life, pid, lastTotal, lastProc, sampled, stored >>
    BY <1>3 DEF OS!ReadRSS, OS!Nothing, OS!NoShare, OS!worldVars, OS!lastVars
  <2>2. read' \in [life : Nat, host : Nat] /\ read'.life = 0 /\ (starts \in Nat => 0 =< starts)
    BY <2>1
  <2>3. share'.proc =< share'.host + share'.gap
    BY <2>1
  <2> QED
    BY <2>1, <2>2, <2>3
       DEF OSInv, OSTyped, HostIsSum, SinceSample, SinceRead, OS!ShareIsBounded
<1> QED
  BY <1>1, <1>2, <1>3, WorkKeeps, StartKeeps, LookupKeeps, ReadStatKeeps, MeasureKeeps
     DEF OS!Next, OS!Run

-----------------------------------------------------------------------------
(* All of them: a receiver's steps leave the others'.                      *)

SourcesInv == FileInv /\ StreamInv /\ DatagramInv /\ PromInv /\ OSInv

LEMMA SourcesInitInv == SourcesInit => SourcesInv
  BY FileInit, StreamInit, DatagramInit, PromInit, OSInit DEF SourcesInit, SourcesInv

(* A context that is done stays done. *)
LEMMA ContextStaysDone == SourcesNext => cancelled' \in {TRUE, cancelled}
<1>1. Next => cancelled' \in {TRUE, cancelled}
  BY DEF Next, TailStep, OpenFile, OpenFails, SeekEnd, LoopTop, Fill, ReadLine, ReadEOF, Stat,
         StatFails, Sleep, ReadError, Cancel, Write, Rename, Create, WriterReopens, Truncate
<1>2. Tails!Next => cancelled' \in {TRUE, cancelled}
  BY DEF Tails!Next, Tails!Scanner, Tails!Reader, Tails!Scan, Tails!SendLine, Tails!ScanEnds,
         Tails!EmitLine, Tails!ReaderEnds, Tails!CloseListener, Tails!AcceptConn,
         Tails!AcceptFails, Tails!Connect, Tails!WriteLine, Tails!CloseStream, Tails!Stop,
         Tails!Cancel
<1>3. Prom!Next => cancelled' \in {TRUE, cancelled}
  BY DEF Prom!Next, Prom!Run, Prom!Answered, Prom!Asked, Prom!ScrapeFails, Prom!Emit,
         Prom!Scraped, Prom!BackoffEnds, Prom!IntervalEnds, Prom!SeeCancel, Prom!Turn,
         Prom!Tick, Prom!Cancel
<1>4. UDP!Next => cancelled' \in {TRUE, cancelled}
  BY DEF UDP!Next, UDP!Run, UDP!Check, UDP!ReadDatagram, UDP!ReadFails, UDP!NextLine,
         UDP!LinesEnd, UDP!Watch, UDP!Stop, UDP!Cancel
<1>5. OS!Next => cancelled' \in {TRUE, cancelled}
  BY DEF OS!Next, OS!Run, OS!Lookup, OS!SeeCancel, OS!ReadStat, OS!ReadHost, OS!ReadHostFails,
         OS!Measure, OS!ReadRSS, OS!Ticked, OS!Work, OS!Exit, OS!StartProcess, OS!Cancel
<1> QED
  BY <1>1, <1>2, <1>3, <1>4, <1>5 DEF SourcesNext

LEMMA SourcesStep == SourcesInv /\ [SourcesNext]_sourceVars => SourcesInv'
<1> SUFFICES ASSUME SourcesInv, [SourcesNext]_sourceVars PROVE SourcesInv'
  OBVIOUS
<1>1. CASE SourcesNext
  <2>1. Next \/ UNCHANGED fileVars
    BY <1>1 DEF SourcesNext, OnlyStream, OnlyPrometheus, OnlyStatsD, OnlySysstat
  <2>2. Tails!Next \/ UNCHANGED streamVars
    BY <1>1 DEF SourcesNext, OnlyFile, OnlyPrometheus, OnlyStatsD, OnlySysstat
  <2>3. UDP!Next \/ UNCHANGED udpVars
    BY <1>1 DEF SourcesNext, OnlyFile, OnlyStream, OnlyPrometheus, OnlySysstat
  <2>4. Prom!Next \/ UNCHANGED promVars
    BY <1>1 DEF SourcesNext, OnlyFile, OnlyStream, OnlyStatsD, OnlySysstat
  <2>5. OS!Next \/ UNCHANGED osVars
    BY <1>1 DEF SourcesNext, OnlyFile, OnlyStream, OnlyPrometheus, OnlyStatsD
  <2>6. cancelled' \in {TRUE, cancelled}
    BY <1>1, ContextStaysDone
  <2>7. FileInv' /\ DatagramInv' /\ OSInv'
    BY <2>1, <2>3, <2>5, FileKeeps, DatagramKeeps, OSKeeps DEF SourcesInv
  <2>8. PromInv' /\ StreamInv'
    BY <2>2, <2>4, <2>6, PromKeeps, StreamKeeps DEF SourcesInv
  <2> QED
    BY <2>7, <2>8 DEF SourcesInv
<1>2. CASE UNCHANGED sourceVars
  <2>1. UNCHANGED << cancelled, fileVars, promVars, osVars, udpVars, streamVars >>
    BY <1>2 DEF sourceVars
  <2>2. cancelled' \in {TRUE, cancelled}
    BY <2>1
  <2>3. FileInv' /\ DatagramInv' /\ OSInv'
    BY <2>1, FileKeeps, DatagramKeeps, OSKeeps DEF SourcesInv
  <2>4. PromInv' /\ StreamInv'
    BY <2>1, <2>2, PromKeeps, StreamKeeps DEF SourcesInv
  <2> QED
    BY <2>3, <2>4 DEF SourcesInv
<1> QED
  BY <1>1, <1>2

(* However a file is written, rotated and cut and datagrams are malformed, *)
(* runFile and StatsD's run emit what they read (of a datagram its good    *)
(* lines), in its order, each piece once.  runReader does so up to the     *)
(* first line that is too long, which ends its stream, and emits nothing   *)
(* of what follows that line.                                              *)
THEOREM SourcesEmitInOrder == SourcesSpec => []EmittedInOrder
<1>1. SourcesInv => EmittedInOrder
  BY FileIsRight, StreamIsRight, DatagramIsRight DEF SourcesInv, EmittedInOrder
<1> QED
  BY <1>1, SourcesInitInv, SourcesStep, PTL DEF SourcesSpec

(* runFile's Seek: what the file held when it was opened is never emitted. *)
THEOREM HistoryStaysUnread == SourcesSpec => []NoHistory
<1>1. SourcesInv => NoHistory
  BY FileIsRight DEF SourcesInv
<1> QED
  BY <1>1, SourcesInitInv, SourcesStep, PTL DEF SourcesSpec

(* Whatever timeouts and backoffs PrometheusReceiver.run was in, a target  *)
(* that has answered for a timeout and the longest pause has all its       *)
(* series emitted anew.                                                    *)
THEOREM ScraperRecoversInTime == SourcesSpec => []RecoversInTime
<1>1. SourcesInv => RecoversInTime
  BY PromIsRight DEF SourcesInv, RecoversInTime
<1> QED
  BY <1>1, SourcesInitInv, SourcesStep, PTL DEF SourcesSpec

(* sampleLinux never subtracts a counter from a smaller one of the same    *)
(* process, and gives it no more than the host between the two samples.    *)
THEOREM ShareStaysBounded == SourcesSpec => []ShareIsBounded
<1>1. SourcesInv => ShareIsBounded
  BY DEF SourcesInv, OSInv, ShareIsBounded
<1> QED
  BY <1>1, SourcesInitInv, SourcesStep, PTL DEF SourcesSpec
-----------------------------------------------------------------------------
(* The types of the receivers, which the bounds on their worlds are part   *)
(* of: each is inductive beside the invariant of its receiver.             *)

(* What FileTyped leaves open: the files hold no more than was written.    *)
FileBounded ==
    /\ files =< MaxFiles /\ truncs \in 0 .. MaxTruncs
    /\ written =< 2 * MaxLines /\ offset =< 2 * MaxLines
    /\ \A f \in Inodes : Len(content[f]) =< written
    /\ \A i \in DOMAIN emitted : emitted[i] # << >>

LEMMA FileTypes == FileInv /\ FileBounded /\ cancelled \in BOOLEAN => TypeOK
<1> SUFFICES ASSUME FileInv, FileBounded, cancelled \in BOOLEAN PROVE TypeOK
  OBVIOUS
<1> USE DEF FileInv, FileBounded, FileTyped
<1>1. files \in Inodes \cup {0}
  BY TailAssumption DEF Inodes
<1>2. written \in 0 .. 2 * MaxLines /\ offset \in 0 .. 2 * MaxLines
  BY TailAssumption
<1>3. emitted \in Seq(Seq(Pieces) \ {<< >>})
  <2>1. \A i \in 1 .. Len(emitted) : emitted[i] \in Seq(Pieces) \ {<< >>}
    OBVIOUS
  <2> QED
    BY <2>1
<1> QED
  BY <1>1, <1>2, <1>3 DEF TypeOK

LEMMA FileBoundedInit == Init => FileBounded
<1> SUFFICES ASSUME Init PROVE FileBounded
  OBVIOUS
<1>1. \A f \in Inodes : Len(content[f]) = 0
  BY DEF Init
<1>2. files =< MaxFiles /\ 0 =< 2 * MaxLines /\ truncs \in 0 .. MaxTruncs
  BY TailAssumption DEF Init
<1> QED
  BY <1>1, <1>2 DEF Init, FileBounded

(* The writer, and who renames and creates.                                *)
LEMMA DiskBounded ==
  ASSUME FileInv, FileBounded, Write \/ Truncate \/ Create
  PROVE  FileBounded'
<1> USE DEF FileInv, FileBounded, FileTyped
<1>1. CASE Write
  <2>0. UNCHANGED << files, truncs, offset, emitted >>
    BY <1>1 DEF Write, tailVars
  <2>1. PICK last \in Pieces :
           /\ last \in written + 1 .. written + 2
           /\ content' = [content EXCEPT ![writer] = @ \o [i \in 1 .. last - written |-> written + i]]
           /\ written' = last
    BY <1>1 DEF Write
  <2>2. writer \in Inodes /\ last \in Nat /\ last =< 2 * MaxLines /\ written < last
    BY <1>1, <2>1, TailAssumption DEF Write, Pieces
  <2> DEFINE more == [i \in 1 .. last - written |-> written + i]
  <2>3. more \in Seq(Nat) /\ Len(more) = last - written
    BY <2>2
  <2> HIDE DEF more
  <2>4. content' = [content EXCEPT ![writer] = @ \o more]
    BY <2>1 DEF more
  <2>5. ASSUME NEW f \in Inodes PROVE Len(content'[f]) =< last
    <3>1. content[f] \in Seq(Pieces) /\ Len(content[f]) \in Nat /\ Len(content[f]) =< written
      OBVIOUS
    <3>2. CASE f = writer
      <4>1. content'[f] = content[f] \o more
        BY <2>4, <3>2
      <4>2. content[f] \in Seq(Nat)
        BY <3>1, PiecesNumbered
      <4>3. ASSUME NEW a \in Seq(Nat), NEW b \in Seq(Nat)
            PROVE  Len(a \o b) = Len(a) + Len(b)
        OBVIOUS
      <4>4. Len(content'[f]) = Len(content[f]) + Len(more)
        BY <2>3, <4>1, <4>2, <4>3
      <4>5. Len(more) = last - written /\ Len(content[f]) =< written /\ Len(content[f]) \in Nat
            /\ written \in Nat /\ last \in Nat
        BY <2>2, <2>3, <3>1
      <4> HIDE DEF FileInv, FileBounded, FileTyped
      <4> QED
        BY <4>4, <4>5
    <3>3. CASE f # writer
      <4>1. content'[f] = content[f]
        BY <2>4, <3>3
      <4> QED
        BY <2>2, <3>1, <4>1
    <3> QED
      BY <3>2, <3>3
  <2> QED
    BY <2>0, <2>1, <2>2, <2>5
<1>2. CASE Truncate
  <2>0. UNCHANGED << files, written, offset, emitted >>
    BY <1>2 DEF Truncate, tailVars
  <2>1. truncs' \in 0 .. MaxTruncs
    BY <1>2, TailAssumption DEF Truncate
  <2>2. \A f \in Inodes : content'[f] = content[f] \/ Len(content'[f]) = 0
    BY <1>2 DEF Truncate
  <2> QED
    BY <2>0, <2>1, <2>2
<1>3. CASE Create
  <2>0. UNCHANGED << content, written, truncs, offset, emitted >>
    BY <1>3 DEF Create, tailVars
  <2>1. files' =< MaxFiles
    BY <1>3, TailAssumption DEF Create
  <2> QED
    BY <2>0, <2>1
<1> QED
  BY <1>1, <1>2, <1>3

(* A beginning of a sequence that is not empty is not empty. *)
LEMMA PrefixTyped ==
  ASSUME NEW X, NEW s \in Seq(X), NEW n \in 1 .. Len(s)
  PROVE  SubSeq(s, 1, n) \in Seq(X) /\ SubSeq(s, 1, n) # << >>
<1>1. SubSeq(s, 1, n) \in Seq(X) /\ Len(SubSeq(s, 1, n)) = n
  OBVIOUS
<1> QED
  BY <1>1

(* The tail, which reads no more than there is.                            *)
LEMMA TailBounded ==
  ASSUME FileInv, FileBounded, SeekEnd \/ Fill \/ ReadLine \/ ReadEOF
  PROVE  FileBounded'
<1> USE DEF FileInv, FileBounded, FileTyped
<1>0. UNCHANGED << content, files, written, truncs >>
  BY DEF SeekEnd, Fill, ReadLine, ReadEOF, diskVars
<1>1. CASE SeekEnd
  <2>1. opening \in Inodes /\ offset' = Len(content[opening]) /\ emitted' = emitted
    BY <1>1 DEF SeekEnd
  <2>2. Len(content[opening]) =< 2 * MaxLines
    BY <2>1, TailAssumption
  <2> QED
    BY <1>0, <2>1, <2>2
<1>2. CASE Fill
  <2>1. file \in Inodes /\ emitted' = emitted
    BY <1>2 DEF Fill
  <2>2. Len(content[file]) \in Nat /\ Len(content[file]) =< 2 * MaxLines
    BY <2>1, TailAssumption
  <2>3. Rest = SubSeq(content[file], offset + 1, Len(content[file]))
    BY <2>1, TailAssumption DEF Rest, Inodes
  <2>4. Len(Rest) = IF offset < Len(content[file]) THEN Len(content[file]) - offset ELSE 0
    BY <2>1, <2>2, <2>3
  <2>5. PICK n \in 1 .. Len(Rest) : offset' = offset + n
    BY <1>2 DEF Fill
  <2>6. offset' =< 2 * MaxLines
    BY <2>2, <2>4, <2>5, TailAssumption
  <2> QED
    BY <1>0, <2>1, <2>6
<1>3. CASE ReadLine
  <2> DEFINE end == Min(Ends(buffer))
             piece == SubSeq(buffer, 1, end)
  <2>1. end \in 1 .. Len(buffer)
    <3>1. Ends(buffer) # {}
      BY <1>3 DEF ReadLine
    <3>2. Ends(buffer) \subseteq 1 .. Len(buffer)
      BY DEF Ends
    <3>3. Ends(buffer) \in SUBSET Nat
      BY <3>2
    <3> HIDE DEF FileInv, FileBounded
    <3> QED
      BY <3>1, <3>2, <3>3, LeastIsIn
  <2>2. emitted' = Append(emitted, piece) /\ offset' = offset
    BY <1>3 DEF ReadLine
  <2> HIDE DEF end
  <2>3. piece \in Seq(Pieces) /\ piece # << >>
    <3>1. buffer \in Seq(Pieces) /\ end \in Nat /\ end >= 1
      BY <2>1
    <3> QED
      BY <2>1, <3>1, PrefixTyped
  <2> HIDE DEF piece
  <2>4. \A i \in DOMAIN emitted' : emitted'[i] # << >>
    <3>1. emitted \in Seq(Seq(Pieces)) /\ \A i \in DOMAIN emitted : emitted[i] # << >>
      OBVIOUS
    <3>2. /\ DOMAIN emitted' = 1 .. Len(emitted) + 1 /\ DOMAIN emitted = 1 .. Len(emitted)
          /\ emitted'[Len(emitted) + 1] = piece
          /\ \A i \in 1 .. Len(emitted) : emitted'[i] = emitted[i]
      <4> HIDE DEF FileInv, FileBounded
      <4> QED
        BY <2>2, <2>3, <3>1
    <3>3. Len(emitted) \in Nat
      OBVIOUS
    <3> HIDE DEF FileInv, FileBounded
    <3> QED
      BY <2>3, <3>1, <3>2, <3>3
  <2> QED
    BY <1>0, <2>2, <2>4
<1>4. CASE ReadEOF
  <2>1. offset' = offset
    BY <1>4 DEF ReadEOF
  <2>2. \A i \in DOMAIN emitted' : emitted'[i] # << >>
    BY <1>4 DEF ReadEOF
  <2> QED
    BY <1>0, <2>1, <2>2
<1> QED
  BY <1>1, <1>2, <1>3, <1>4

LEMMA FileBoundedKeeps ==
  ASSUME FileInv, FileBounded, Next \/ UNCHANGED fileVars
  PROVE  FileBounded'
<1>1. CASE \/ UNCHANGED fileVars \/ OpenFile \/ OpenFails \/ LoopTop \/ Stat \/ StatFails
           \/ Sleep \/ ReadError \/ Cancel \/ Rename \/ WriterReopens
  <2>1. UNCHANGED << content, files, written, truncs, offset, emitted >>
    BY <1>1 DEF fileVars, diskVars, tailVars, OpenFile, OpenFails, LoopTop, Stat, StatFails,
                Sleep, ReadError, Cancel, Rename, WriterReopens
  <2> QED
    BY <2>1 DEF FileBounded
<1> QED
  BY <1>1, DiskBounded, TailBounded DEF Next, TailStep

(* The streams. *)
LEMMA StreamTypesInit == Tails!Init => Tails!TypeOK
<1> SUFFICES ASSUME Tails!Init PROVE Tails!TypeOK
  OBVIOUS
<1>1. ASSUME NEW s \in Streams
      PROVE  stream[s] = Tails!Fresh("read") \/ stream[s] = Tails!Fresh("none")
  BY DEF Tails!Init
<1>2. 0 =< StreamLines /\ 0 =< LinesCap /\ Len(<< >>) = 0
  BY SourcesAssumption
<1>3. \A s \in Streams :
         /\ stream[s].is \in {"none", "queued", "read"}
         /\ stream[s].scanAt = "scan" /\ stream[s].emitAt = "select" /\ ~ stream[s].closed
         /\ stream[s].scanned = 0 /\ stream[s].sent = 0 /\ stream[s].lines = << >>
  BY <1>1 DEF Tails!Fresh
<1>4. /\ listener \in {"none", "open", "closed"} /\ cancelled \in BOOLEAN
      /\ acceptAt \in {"accept", "ended"} /\ closerAt \in {"waiting", "ended"}
  BY DEF Tails!Init
<1> QED
  BY <1>2, <1>3, <1>4 DEF Tails!TypeOK

(* It is enough that the stream that changes keeps its bounds.             *)
StreamBounded(st) ==
    /\ st.scanned \in 0 .. st.sent /\ st.sent =< StreamLines
    /\ Len(st.lines) =< LinesCap
    /\ st.closed <=> st.scanAt = "ended"

LEMMA OneStreamTyped ==
  ASSUME StreamInv, StreamInv', Tails!TypeOK, cancelled' \in BOOLEAN,
         listener' \in {"none", "open", "closed"}, acceptAt' \in {"accept", "ended"},
         closerAt' \in {"waiting", "ended"},
         NEW s \in Streams, NEW st, stream' = [stream EXCEPT ![s] = st], StreamBounded(st)
  PROVE  Tails!TypeOK'
<1>1. ASSUME NEW r \in Streams PROVE stream'[r] \in StreamStates /\ StreamBounded(stream'[r])
  <2>1. stream'[r] \in StreamStates
    BY DEF StreamInv
  <2>2. CASE r = s
    BY <2>1, <2>2 DEF StreamInv
  <2>3. CASE r # s
    BY <2>1, <2>3 DEF StreamInv, Tails!TypeOK, StreamBounded
  <2> QED
    BY <2>2, <2>3
<1> QED
  BY <1>1 DEF StreamStates, StreamBounded, Tails!TypeOK

LEMMA StreamTypes ==
  ASSUME StreamInv, StreamInv', Tails!TypeOK, cancelled' \in BOOLEAN,
         Tails!Next \/ UNCHANGED streamVars
  PROVE  Tails!TypeOK'
<1> USE DEF Tails!listenVars
<1>0. \A s \in Streams : stream[s] \in StreamStates /\ StreamBounded(stream[s])
  BY DEF StreamInv, Tails!TypeOK, StreamBounded
<1>1. /\ listener \in {"none", "open", "closed"} /\ acceptAt \in {"accept", "ended"}
      /\ closerAt \in {"waiting", "ended"}
  BY DEF Tails!TypeOK
<1>2. CASE \/ UNCHANGED streamVars \/ Tails!Cancel \/ Tails!Stop \/ Tails!CloseListener
           \/ Tails!AcceptFails
  <2>1. /\ stream' = stream
        /\ listener' \in {listener, "closed"} /\ acceptAt' \in {acceptAt, "ended"}
        /\ closerAt' \in {closerAt, "ended"}
    BY <1>2 DEF streamVars, Tails!streamVars, Tails!Cancel, Tails!Stop, Tails!CloseListener,
                Tails!AcceptFails
  <2> QED
    BY <2>1 DEF Tails!TypeOK
<1>3. ASSUME NEW s \in Streams, NEW st, stream' = [stream EXCEPT ![s] = st], StreamBounded(st),
             UNCHANGED << listener, acceptAt, closerAt >>
      PROVE  Tails!TypeOK'
  BY <1>1, <1>3, OneStreamTyped
<1>4. CASE Tails!AcceptConn \/ Tails!Connect \/ Tails!WriteLine \/ Tails!CloseStream
  <2>1. PICK s \in Streams :
           \/ stream' = [stream EXCEPT ![s].is = "read"]
           \/ stream' = [stream EXCEPT ![s].is = "queued"]
           \/ \E came \in stream[s].scanned .. stream[s].sent :
                stream' = [stream EXCEPT ![s].over = TRUE, ![s].sent = came]
           \/ stream[s].sent < StreamLines /\ stream' = [stream EXCEPT ![s].sent = @ + 1]
    BY <1>4 DEF Tails!AcceptConn, Tails!Connect, Tails!WriteLine, Tails!CloseStream
  <2>2. UNCHANGED << listener, acceptAt, closerAt >>
    BY <1>4 DEF Tails!AcceptConn, Tails!Connect, Tails!WriteLine, Tails!CloseStream
  <2>3. \/ stream' = [stream EXCEPT ![s] = [stream[s] EXCEPT !.is = "read"]]
        \/ stream' = [stream EXCEPT ![s] = [stream[s] EXCEPT !.is = "queued"]]
        \/ \E came \in stream[s].scanned .. stream[s].sent :
             stream' = [stream EXCEPT ![s] = [stream[s] EXCEPT !.over = TRUE, !.sent = came]]
        \/ /\ stream[s].sent < StreamLines
           /\ stream' = [stream EXCEPT ![s] = [stream[s] EXCEPT !.sent = stream[s].sent + 1]]
    BY <2>1
  <2>4. /\ StreamBounded([stream[s] EXCEPT !.is = "read"])
        /\ StreamBounded([stream[s] EXCEPT !.is = "queued"])
    BY <1>0 DEF StreamBounded, StreamStates
  <2>6. \A came \in stream[s].scanned .. stream[s].sent :
           StreamBounded([stream[s] EXCEPT !.over = TRUE, !.sent = came])
    BY <1>0, SourcesAssumption DEF StreamBounded, StreamStates
  <2>5. stream[s].sent < StreamLines =>
           StreamBounded([stream[s] EXCEPT !.sent = stream[s].sent + 1])
    BY <1>0, SourcesAssumption DEF StreamBounded, StreamStates
  <2> QED
    BY <1>3, <2>2, <2>3, <2>4, <2>5, <2>6
<1>5. ASSUME NEW s \in Streams, Tails!Scanner(s) PROVE Tails!TypeOK'
  <2>0. UNCHANGED << listener, acceptAt, closerAt >>
    BY <1>5 DEF Tails!Scanner, Tails!Scan, Tails!SendLine, Tails!ScanEnds
  <2>1. CASE Tails!Scan(s)
    <3> DEFINE st == [stream[s] EXCEPT !.scanned = stream[s].scanned + 1, !.scanAt = "send"]
    <3>1. stream' = [stream EXCEPT ![s] = st]
      BY <2>1 DEF Tails!Scan
    <3>2. StreamBounded(st)
      BY <1>0, <2>1 DEF Tails!Scan, StreamBounded, StreamStates
    <3> HIDE DEF st
    <3> QED
      BY <1>3, <2>0, <3>1, <3>2
  <2>2. CASE Tails!SendLine(s)
    <3> DEFINE st == [stream[s] EXCEPT !.lines = Append(stream[s].lines, stream[s].scanned),
                                       !.scanAt = "scan"]
    <3>1. stream' = [stream EXCEPT ![s] = st]
      BY <2>2 DEF Tails!SendLine
    <3>2. Len(Append(stream[s].lines, stream[s].scanned)) =< LinesCap
      BY <1>0, <2>2, SourcesAssumption DEF Tails!SendLine, StreamStates
    <3>3. StreamBounded(st)
      BY <1>0, <2>2, <3>2 DEF Tails!SendLine, StreamBounded, StreamStates
    <3> HIDE DEF st
    <3> QED
      BY <1>3, <2>0, <3>1, <3>3
  <2>3. CASE Tails!ScanEnds(s)
    <3> DEFINE st == [stream[s] EXCEPT !.scanAt = "ended", !.closed = TRUE]
    <3>1. stream' = [stream EXCEPT ![s] = st]
      BY <2>3 DEF Tails!ScanEnds
    <3>2. StreamBounded(st)
      BY <1>0 DEF StreamBounded, StreamStates
    <3> HIDE DEF st
    <3> QED
      BY <1>3, <2>0, <3>1, <3>2
  <2> QED
    BY <1>5, <2>1, <2>2, <2>3 DEF Tails!Scanner
<1>6. ASSUME NEW s \in Streams, Tails!Reader(s) PROVE Tails!TypeOK'
  <2>0. UNCHANGED << listener, acceptAt, closerAt >>
    BY <1>6 DEF Tails!Reader, Tails!EmitLine, Tails!ReaderEnds
  <2>1. CASE Tails!EmitLine(s)
    <3> DEFINE st == [stream[s] EXCEPT !.heard = Append(stream[s].heard, Head(stream[s].lines)),
                                       !.lines = Tail(stream[s].lines)]
    <3>1. stream' = [stream EXCEPT ![s] = st]
      BY <2>1 DEF Tails!EmitLine
    <3>2. Len(Tail(stream[s].lines)) =< LinesCap
      <4>1. stream[s].lines \in Seq(Nat) /\ stream[s].lines # << >>
            /\ Len(stream[s].lines) =< LinesCap
        BY <1>0, <2>1 DEF Tails!EmitLine, StreamStates, StreamBounded
      <4> QED
        BY <4>1, SourcesAssumption
    <3>3. StreamBounded(st)
      BY <1>0, <3>2 DEF StreamBounded, StreamStates
    <3> HIDE DEF st
    <3> QED
      BY <1>3, <2>0, <3>1, <3>3
  <2>2. CASE Tails!ReaderEnds(s)
    <3> DEFINE st == [stream[s] EXCEPT !.emitAt = "ended"]
    <3>1. stream' = [stream EXCEPT ![s] = st]
      BY <2>2 DEF Tails!ReaderEnds
    <3>2. StreamBounded(st)
      BY <1>0 DEF StreamBounded, StreamStates
    <3> HIDE DEF st
    <3> QED
      BY <1>3, <2>0, <3>1, <3>2
  <2> QED
    BY <1>6, <2>1, <2>2 DEF Tails!Reader
<1> QED
  BY <1>2, <1>4, <1>5, <1>6 DEF Tails!Next

(* StatsD: a closed socket tells of a done context. *)
LEMMA DatagramTypesInit == UDP!Init => UDP!TypeOK
<1> SUFFICES ASSUME UDP!Init PROVE UDP!TypeOK
  OBVIOUS
<1>1. line = UDP!NoLine /\ udpAt = "check"
  BY DEF UDP!Init
<1>2. line.datagram = 0
  BY <1>1 DEF UDP!NoLine
<1> QED
  BY <1>1, <1>2 DEF UDP!Init, UDP!TypeOK

LEMMA DatagramTypes ==
  ASSUME DatagramInv, DatagramInv', UDP!TypeOK, cancelled' \in {TRUE, cancelled},
         UDP!Next \/ UNCHANGED udpVars
  PROVE  UDP!TypeOK'
<1>1. unread' \subseteq DOMAIN Datagrams
  BY DEF DatagramInv
<1>2. udpAt' = "lines" => line'.datagram \in DOMAIN Datagrams /\ line' # UDP!NoLine
  <2> SUFFICES ASSUME udpAt' = "lines"
               PROVE  line'.datagram \in DOMAIN Datagrams /\ line' # UDP!NoLine
    OBVIOUS
  <2>1. PICK d \in DOMAIN Datagrams : \E n \in 1 .. Len(Datagrams[d]) + 1 :
           line' = [datagram |-> d, number |-> n]
    BY DEF DatagramInv
  <2>2. PICK n \in 1 .. Len(Datagrams[d]) + 1 : line' = [datagram |-> d, number |-> n]
    BY <2>1
  <2>3. line'.datagram = d /\ line'.number = n /\ UDP!NoLine.number = 0 /\ n # 0
    BY <2>2 DEF UDP!NoLine
  <2> QED
    BY <2>3
<1>3. udpAt' # "lines" => line' = UDP!NoLine
  BY DEF UDP!Next, UDP!Run, UDP!Check, UDP!ReadDatagram, UDP!ReadFails, UDP!NextLine,
         UDP!LinesEnd, UDP!Watch, UDP!Stop, UDP!Cancel, UDP!statsdVars, udpVars, UDP!TypeOK
<1>4. /\ conn' \in BOOLEAN /\ reading' \in BOOLEAN /\ cancelled' \in BOOLEAN
      /\ udpAt' \in {"check", "read", "lines", "ended"} /\ (udpAt' = "read" => reading')
      /\ watchAt' \in {"waiting", "ended"}
  BY DEF UDP!Next, UDP!Run, UDP!Check, UDP!ReadDatagram, UDP!ReadFails, UDP!NextLine,
         UDP!LinesEnd, UDP!Watch, UDP!Stop, UDP!Cancel, UDP!statsdVars, udpVars, UDP!TypeOK
<1>5. socket' \in {"open", "closed"} /\ (socket' = "closed" => cancelled')
  BY DEF UDP!Next, UDP!Run, UDP!Check, UDP!ReadDatagram, UDP!ReadFails, UDP!NextLine,
         UDP!LinesEnd, UDP!Watch, UDP!Stop, UDP!Cancel, UDP!statsdVars, udpVars, UDP!TypeOK
<1>6. line'.datagram \in DOMAIN Datagrams \cup {0}
  BY <1>2, <1>3 DEF UDP!NoLine
<1> QED
  BY <1>1, <1>2, <1>3, <1>4, <1>5, <1>6 DEF UDP!TypeOK

(* Prometheus: no wait is longer than the longest of the three.            *)
LongestWait == Prom!Max({Prom!LongestBackoff, Timeout, Interval})

LEMMA LongestWaitBounds ==
  /\ LongestWait \in Nat
  /\ Prom!LongestBackoff =< LongestWait /\ Timeout =< LongestWait /\ Interval =< LongestWait
<1> DEFINE S == {Prom!LongestBackoff, Timeout, Interval}
           m == CHOOSE x \in S : \A y \in S : x >= y
<1>1. S \subseteq Nat
  BY LongestIsPause, SourcesAssumption
<1>2. \E x \in S : \A y \in S : x >= y
  <2>1. \/ Prom!LongestBackoff >= Timeout /\ Prom!LongestBackoff >= Interval
        \/ Timeout >= Prom!LongestBackoff /\ Timeout >= Interval
        \/ Interval >= Timeout /\ Interval >= Prom!LongestBackoff
    BY <1>1
  <2>2. Prom!LongestBackoff >= Prom!LongestBackoff /\ Timeout >= Timeout /\ Interval >= Interval
    BY <1>1
  <2> QED
    BY <2>1, <2>2
<1>3. m \in S /\ \A y \in S : m >= y
  <2> HIDE DEF S
  <2> QED
    BY <1>2
<1>4. LongestWait = m
  BY Zenon DEF LongestWait, Prom!Max
<1>5. Prom!LongestBackoff \in S /\ Timeout \in S /\ Interval \in S
  OBVIOUS
<1> HIDE DEF m, S
<1> QED
  BY <1>1, <1>3, <1>4, <1>5

(* The time the target has answered is counted up to a cap.                *)
LEMMA CappedHealth ==
  ASSUME NEW h \in Nat
  PROVE  Prom!Min({h + 1, Prom!Recovery + 1}) \in 0 .. Prom!Recovery + 1
<1> DEFINE S == {h + 1, Prom!Recovery + 1}
<1>1. Prom!Recovery \in Nat /\ Prom!Recovery + 1 \in S /\ S \in SUBSET Nat
  BY RecoveryTyped
<1> HIDE DEF S
<1>2. Prom!Min(S) \in S /\ Prom!Min(S) =< Prom!Recovery + 1
  BY <1>1, LeastPause
<1> USE DEF S
<1> QED
  BY <1>1, <1>2

LEMMA PromTypesInit == Prom!Init => Prom!TypeOK
<1> SUFFICES ASSUME Prom!Init PROVE Prom!TypeOK
  OBVIOUS
<1>1. PromTyped
  BY PromInit DEF PromInv
<1>2. remaining \in 0 .. LongestWait /\ healthy \in 0 .. Prom!Recovery + 1
  BY LongestWaitBounds, RecoveryTyped DEF Prom!Init
<1>3. unsent = {} /\ cancelled \in BOOLEAN
  BY DEF Prom!Init
<1> QED
  BY <1>1, <1>2, <1>3 DEF PromTyped, BackoffPauses, LongestWait, Prom!TypeOK

LEMMA PromTypes ==
  ASSUME PromInv, PromInv', Prom!TypeOK, cancelled' \in BOOLEAN,
         Prom!Next \/ UNCHANGED promVars
  PROVE  Prom!TypeOK'
<1>1. /\ remaining \in 0 .. LongestWait /\ healthy \in 0 .. Prom!Recovery + 1
      /\ backoff \in Nat /\ backoff =< Prom!LongestBackoff
      /\ promAt # "emit" => unsent = {}
  BY PauseTyped DEF Prom!TypeOK, LongestWait, BackoffPauses
<1>2. remaining' \in 0 .. LongestWait
  <2>1. \/ remaining' \in {remaining, 0, Timeout, Interval, backoff}
        \/ remaining > 0 /\ remaining' = remaining - 1
    BY DEF Prom!Next, Prom!Run, Prom!Answered, Prom!Asked, Prom!ScrapeFails, Prom!Emit,
           Prom!Scraped, Prom!BackoffEnds, Prom!IntervalEnds, Prom!SeeCancel, Prom!Turn,
           Prom!Tick, Prom!Cancel, Prom!promVars, promVars
  <2>2. LongestWait \in Nat /\ Prom!LongestBackoff \in Nat /\ Timeout \in Nat /\ Interval \in Nat
    BY LongestWaitBounds, PromBounds
  <2> QED
    BY <1>1, <2>1, <2>2, LongestWaitBounds
<1>3. healthy' \in 0 .. Prom!Recovery + 1
  <2>1. healthy' \in {healthy, 0, Prom!Min({healthy + 1, Prom!Recovery + 1})}
    BY DEF Prom!Next, Prom!Run, Prom!Answered, Prom!Asked, Prom!ScrapeFails, Prom!Emit,
           Prom!Scraped, Prom!BackoffEnds, Prom!IntervalEnds, Prom!SeeCancel, Prom!Turn,
           Prom!Tick, Prom!Cancel, Prom!promVars, promVars
  <2>2. Prom!Recovery \in Nat /\ healthy \in Nat
    BY <1>1, RecoveryTyped
  <2> QED
    BY <1>1, <2>1, <2>2, CappedHealth
<1>4. promAt' # "emit" => unsent' = {}
  BY <1>1 DEF Prom!Next, Prom!Run, Prom!Answered, Prom!Asked, Prom!ScrapeFails, Prom!Emit,
           Prom!Scraped, Prom!BackoffEnds, Prom!IntervalEnds, Prom!SeeCancel, Prom!Turn,
           Prom!Tick, Prom!Cancel, Prom!promVars, promVars
<1>5. PromTyped'
  BY DEF PromInv
<1> QED
  BY <1>2, <1>3, <1>4, <1>5 DEF PromTyped, BackoffPauses, LongestWait, Prom!TypeOK

(* The process and its host: words, and numbers within the host's time.    *)
LEMMA MinusIsWord ==
  ASSUME NEW a \in Nat, NEW b \in Nat, b < Word
  PROVE  OS!Minus(a, b) \in 0 .. Word - 1
<1>1. Word \in Nat /\ Word > 0 /\ a + Word - b \in Nat
  BY SourcesAssumption
<1>2. \A x \in Nat : x % Word \in 0 .. Word - 1
  BY <1>1
<1> QED
  BY <1>1, <1>2 DEF OS!Minus

LEMMA OSTypesInit == OS!Init => OS!TypeOK
<1> SUFFICES ASSUME OS!Init PROVE OS!TypeOK
  OBVIOUS
<1>1. MaxHost \in Nat /\ MaxStarts \in Nat /\ Word \in Nat /\ Word > 0
  BY SourcesAssumption
<1>2. 0 \in 0 .. MaxHost /\ 0 \in 0 .. MaxStarts /\ 0 \in 0 .. Word - 1
  BY <1>1
<1>3. share.proc = 0 /\ share.host = 0
  BY DEF OS!Init, OS!NoShare
<1>4. /\ read \in [life : 0 .. MaxStarts, host : 0 .. MaxHost]
      /\ stored \in [life : 0 .. MaxStarts, gap : 0 .. MaxHost]
  BY <1>2 DEF OS!Init, OS!Nothing
<1>5. /\ running \in [PIDs -> {"none", "named", "other"}] /\ used \in [PIDs -> 0 .. MaxHost]
      /\ life \in [PIDs -> 0 .. MaxStarts]
  BY <1>2 DEF OS!Init
<1>6. /\ cancelled \in BOOLEAN /\ sampled \in BOOLEAN /\ pid \in PIDs \cup {0} /\ osAt = "lookup"
      /\ host = 0 /\ starts = 0 /\ procTotal = 0 /\ lastTotal = 0 /\ lastProc = 0
  BY DEF OS!Init
<1> QED
  BY <1>2, <1>3, <1>4, <1>5, <1>6 DEF OS!TypeOK

LEMMA OSTypes ==
  ASSUME OSInv, OSInv', OS!TypeOK, cancelled' \in BOOLEAN, OS!Next \/ UNCHANGED osVars
  PROVE  OS!TypeOK'
<1>0. MaxHost \in Nat /\ MaxStarts \in Nat /\ Word \in Nat /\ MaxHost < Word
  BY SourcesAssumption
<1>1. starts' \in 0 .. MaxStarts
  <2>1. starts' = starts \/ (starts < MaxStarts /\ starts' = starts + 1)
    BY DEF OS!Next, OS!Run, OS!Lookup, OS!SeeCancel, OS!ReadStat, OS!ReadHost, OS!ReadHostFails,
           OS!Measure, OS!ReadRSS, OS!Ticked, OS!Work, OS!Exit, OS!StartProcess, OS!Cancel,
           OS!osVars, OS!worldVars, osVars
  <2> QED
    BY <1>0, <2>1 DEF OS!TypeOK
<1>2. running' \in [PIDs -> {"none", "named", "other"}]
  <2>1. \/ running' = running
        \/ \E p \in PIDs, k \in {"none", "named", "other"} : running' = [running EXCEPT ![p] = k]
    BY DEF OS!Next, OS!Run, OS!Lookup, OS!SeeCancel, OS!ReadStat, OS!ReadHost, OS!ReadHostFails,
           OS!Measure, OS!ReadRSS, OS!Ticked, OS!Work, OS!Exit, OS!StartProcess, OS!Cancel,
           OS!osVars, OS!worldVars, osVars
  <2> QED
    BY <2>1 DEF OS!TypeOK
<1>3. /\ used' \in [PIDs -> 0 .. MaxHost] /\ life' \in [PIDs -> 0 .. MaxStarts]
      /\ host' \in 0 .. MaxHost
  <2>1. /\ used' \in [PIDs -> Nat] /\ life' \in [PIDs -> Nat] /\ host' \in Nat /\ host' =< MaxHost
        /\ \A p \in PIDs : used'[p] =< host' /\ life'[p] =< starts'
    BY DEF OSInv, OSTyped, HostIsSum
  <2>2. \A p \in PIDs : used'[p] \in 0 .. MaxHost /\ life'[p] \in 0 .. MaxStarts
    BY <1>0, <1>1, <2>1
  <2> QED
    BY <1>0, <2>1, <2>2
<1>4. osAt' \in {"lookup", "wait", "tick", "stat", "host", "rss", "ended"}
  BY DEF OS!Next, OS!Run, OS!Lookup, OS!SeeCancel, OS!ReadStat, OS!ReadHost, OS!ReadHostFails,
         OS!Measure, OS!ReadRSS, OS!Ticked, OS!Work, OS!Exit, OS!StartProcess, OS!Cancel,
         OS!osVars, OS!TypeOK, osVars
<1>5. CASE OS!ReadStat
  <2>1. /\ pid \in PIDs /\ used[pid] \in 0 .. MaxHost /\ life[pid] \in 0 .. MaxStarts
        /\ host \in 0 .. MaxHost
    BY <1>5 DEF OS!ReadStat, OS!TypeOK
  <2>2. /\ procTotal' \in {procTotal, used[pid]}
        /\ read' = read \/ read' = [life |-> life[pid], host |-> host]
        /\ UNCHANGED << lastTotal, lastProc, stored, share, sampled >>
    BY <1>5 DEF OS!ReadStat, OS!lastVars
  <2> QED
    BY <1>1, <1>2, <1>3, <1>4, <2>1, <2>2 DEF OS!TypeOK, OSInv, OSTyped
<1>6. CASE OS!ReadHost \/ OS!ReadHostFails
  <2>1. /\ procTotal' = procTotal /\ read' = read /\ sampled' = TRUE
        /\ lastTotal' \in {host, 0} /\ lastProc' = procTotal
        /\ stored' \in {[life |-> read.life, gap |-> host - read.host],
                        [life |-> read.life, gap |-> 0]}
        /\ \/ share' = share
           \/ /\ share'.proc = OS!Minus(procTotal, lastProc)
              /\ share'.host = OS!Minus(host, lastTotal)
    BY <1>6 DEF OS!ReadHost, OS!ReadHostFails, OS!Measure, OS!NextProc
  <2>2. /\ procTotal \in 0 .. MaxHost /\ lastProc \in 0 .. MaxHost /\ lastTotal \in 0 .. MaxHost
        /\ host \in 0 .. MaxHost /\ read.life \in 0 .. MaxStarts /\ read.host \in 0 .. MaxHost
        /\ read \in [life : 0 .. MaxStarts, host : 0 .. MaxHost]
        /\ share.proc \in 0 .. Word - 1 /\ share.host \in 0 .. Word - 1
    BY DEF OS!TypeOK
  <2>3. read.host =< host
    BY <1>6 DEF OSInv, SinceRead, OS!ReadHost, OS!ReadHostFails, OS!Measure
  <2>4. host - read.host \in 0 .. MaxHost /\ 0 \in 0 .. MaxHost
    BY <1>0, <2>2, <2>3
  <2>5. stored' \in [life : 0 .. MaxStarts, gap : 0 .. MaxHost]
    BY <2>1, <2>2, <2>4
  <2>6. share'.proc \in 0 .. Word - 1 /\ share'.host \in 0 .. Word - 1
    <3>1. /\ OS!Minus(procTotal, lastProc) \in 0 .. Word - 1
          /\ OS!Minus(host, lastTotal) \in 0 .. Word - 1
      <4>1. /\ procTotal \in Nat /\ lastProc \in Nat /\ lastProc < Word
            /\ host \in Nat /\ lastTotal \in Nat /\ lastTotal < Word
        BY <1>0, <2>2
      <4> QED
        BY <4>1, MinusIsWord
    <3> QED
      BY <2>1, <2>2, <3>1
  <2> QED
    BY <1>1, <1>2, <1>3, <1>4, <2>1, <2>2, <2>4, <2>5, <2>6 DEF OS!TypeOK, OSInv, OSTyped
<1>7. CASE OS!ReadRSS
  <2>1. /\ procTotal' = 0 /\ read' = [life |-> 0, host |-> 0]
        /\ share'.proc = 0 /\ share'.host = 0
        /\ UNCHANGED << lastTotal, lastProc, sampled, stored >>
    BY <1>7 DEF OS!ReadRSS, OS!lastVars, OS!Nothing, OS!NoShare
  <2>2. 0 \in 0 .. MaxHost /\ 0 \in 0 .. MaxStarts /\ 0 \in 0 .. Word - 1
    BY <1>0
  <2> QED
    BY <1>1, <1>2, <1>3, <1>4, <2>1, <2>2 DEF OS!TypeOK, OSInv, OSTyped
<1>8. CASE ~ (OS!ReadStat \/ OS!ReadHost \/ OS!ReadHostFails \/ OS!ReadRSS)
  <2>1. UNCHANGED << procTotal, share, read, lastTotal, lastProc, sampled, stored >>
    BY <1>8 DEF OS!Next, OS!Run, OS!Lookup, OS!SeeCancel, OS!Ticked, OS!Work, OS!Exit,
                OS!StartProcess, OS!Cancel, OS!osVars, OS!tickVars, OS!lastVars, osVars
  <2> QED
    BY <1>1, <1>2, <1>3, <1>4, <2>1 DEF OS!TypeOK, OSInv, OSTyped
<1> QED
  BY <1>5, <1>6, <1>7, <1>8

(* The receivers, one of which runs.                                       *)
SourcesTypes ==
    /\ FileBounded /\ Tails!TypeOK /\ UDP!TypeOK /\ Prom!TypeOK /\ OS!TypeOK
    /\ cancelled \in BOOLEAN

(* Each receiver keeps its types, and its world the bounds that are part   *)
(* of them, whatever is written, sent, scraped or run (logtail.go,         *)
(* statsd.go, prometheus.go, os.go).                                       *)
THEOREM SourcesTyped ==
    SourcesSpec => [](TypeOK /\ Tails!TypeOK /\ UDP!TypeOK /\ Prom!TypeOK /\ OS!TypeOK)
<1>1. SourcesInit => SourcesTypes
  <2>1. Init => cancelled \in BOOLEAN
    BY DEF Init
  <2> QED
    BY <2>1, FileBoundedInit, StreamTypesInit, DatagramTypesInit, PromTypesInit, OSTypesInit
       DEF SourcesInit, SourcesTypes
<1>2. SourcesInv /\ SourcesInv' /\ SourcesTypes /\ [SourcesNext]_sourceVars => SourcesTypes'
  <2> SUFFICES ASSUME SourcesInv, SourcesInv', SourcesTypes, [SourcesNext]_sourceVars
               PROVE  SourcesTypes'
    OBVIOUS
  <2>1. /\ Next \/ UNCHANGED fileVars
        /\ Tails!Next \/ UNCHANGED streamVars
        /\ UDP!Next \/ UNCHANGED udpVars
        /\ Prom!Next \/ UNCHANGED promVars
        /\ OS!Next \/ UNCHANGED osVars
    BY DEF SourcesNext, OnlyFile, OnlyStream, OnlyPrometheus, OnlyStatsD, OnlySysstat, sourceVars
  <2>2. cancelled' \in {TRUE, cancelled}
    BY ContextStaysDone DEF sourceVars
  <2>3. cancelled' \in BOOLEAN
    BY <2>2 DEF SourcesTypes
  <2>4. FileBounded' /\ Tails!TypeOK'
    BY <2>1, <2>3, FileBoundedKeeps, StreamTypes DEF SourcesInv, SourcesTypes
  <2>5. UDP!TypeOK' /\ Prom!TypeOK'
    BY <2>1, <2>2, <2>3, DatagramTypes, PromTypes DEF SourcesInv, SourcesTypes
  <2>6. OS!TypeOK'
    BY <2>1, <2>3, OSTypes DEF SourcesInv, SourcesTypes
  <2> QED
    BY <2>3, <2>4, <2>5, <2>6 DEF SourcesTypes
<1>3. SourcesInv /\ SourcesTypes =>
         TypeOK /\ Tails!TypeOK /\ UDP!TypeOK /\ Prom!TypeOK /\ OS!TypeOK
  BY FileTypes DEF SourcesInv, SourcesTypes
<1> QED
  BY <1>1, <1>2, <1>3, SourcesInitInv, SourcesStep, PTL DEF SourcesSpec

-----------------------------------------------------------------------------
(* The servers of OpenTelemetry (OTLPReceiver).                            *)

Inside == {"grpc", "http", "release"}

(* r.mu is held by the Stop that is at work, which is the only one. *)
StopExcludes ==
    /\ \A p \in Stoppers : mu = p <=> stop[p] \in Inside
    /\ \A p \in Stoppers : stop[p] \in Inside \cup {"done"} => stopped = "closed"
    /\ \A p \in Stoppers : stop[p] = "done" => mu = Nobody
    /\ closes = IF stopped = "closed" THEN 1 ELSE 0

(* Nobody calls Stop before Start is over. *)
StartFirst ==
    /\ owner \in {"new", "grpc", "http"} =>
          /\ ~ watching /\ stopped # "closed"
          /\ \A p \in Stoppers : stop[p] = "no"
    /\ owner = "running" => stop[Owner] = "no"
    /\ watching => stop[Watcher] = "no"
    /\ owner # "new" => stopped # "nil"
    /\ owner \in {"new", "grpc"} => ~ grpcSrv /\ ~ httpSrv
    /\ owner = "http" => ~ httpSrv

(* What a Stop has taken down at each of its steps. *)
TakenDown ==
    /\ "grpc" \in serving => grpcSrv
    /\ "http" \in serving => httpSrv
    /\ ~ grpcSrv => Running(GrpcCalls) = {}
    /\ stopped = "closed" => "grpc" \notin serving
    /\ \A p \in Stoppers : stop[p] \in {"http", "release"} =>
          ~ grpcSrv /\ "http" \notin serving
    /\ \A p \in Stoppers : stop[p] = "release" => ~ httpSrv
    /\ stopped = "closed" /\ mu = Nobody => ~ grpcSrv /\ ~ httpSrv /\ ~ out

(* A call sends at most the events it came with. *)
SendsCounted ==
    \A c \in Calls :
        /\ call[c] = "no" => sent[c] = 0
        /\ call[c] = "send" => left[c] > 0
        /\ sent[c] + left[c] =< MaxEvents

OTLPInv == ReceiverTypeOK /\ StopExcludes /\ StartFirst /\ TakenDown /\ SendsCounted

(* The two callers of Stop are two. *)
LEMMA StoppersApart ==
    /\ Stoppers = {Owner, Watcher}
    /\ Owner \in Stoppers /\ Watcher \in Stoppers
    /\ Owner # Watcher /\ Nobody \notin Stoppers
  BY DEF Owner, Watcher, Stoppers, Nobody

(* The inductive invariant holds of a fresh receiver. *)
LEMMA OTLPInit == OTLPBounds /\ ReceiverInit => OTLPInv
<1> SUFFICES ASSUME OTLPBounds, ReceiverInit PROVE OTLPInv
  OBVIOUS
<1>1. ReceiverTypeOK
  <2>1. 0 \in 0 .. MaxEvents
    BY DEF OTLPBounds
  <2> QED
    BY <2>1 DEF ReceiverInit, ReceiverTypeOK
<1>2. StopExcludes
  BY StoppersApart DEF ReceiverInit, StopExcludes, Inside
<1>3. StartFirst
  BY DEF ReceiverInit, StartFirst
<1>4. TakenDown
  BY DEF ReceiverInit, TakenDown, Running, Calls
<1>5. SendsCounted
  BY DEF OTLPBounds, ReceiverInit, SendsCounted
<1> QED
  BY <1>1, <1>2, <1>3, <1>4, <1>5 DEF OTLPInv

(* Start, the owner and the watcher keep it. *)
LEMMA ServersKeep ==
  ASSUME OTLPInv, StartStep \/ CancelContext \/ OwnerStops \/ WatcherStops
  PROVE  OTLPInv'
<1> USE StoppersApart DEF OTLPInv, ReceiverTypeOK, StopExcludes, StartFirst, TakenDown, SendsCounted,
        Inside, Running, serverVars, callVars
<1>1. CASE StartInit
  <2>1. ReceiverTypeOK'
    BY <1>1 DEF StartInit
  <2>2. StopExcludes'
    BY <1>1 DEF StartInit
  <2>3. StartFirst'
    BY <1>1 DEF StartInit
  <2>4. TakenDown'
    BY <1>1 DEF StartInit
  <2>5. SendsCounted'
    BY <1>1 DEF StartInit
  <2> QED
    BY <2>1, <2>2, <2>3, <2>4, <2>5 DEF OTLPInv
<1>2. CASE StartFails
  <2>1. ReceiverTypeOK'
    BY <1>2 DEF StartFails
  <2>2. StopExcludes'
    BY <1>2 DEF StartFails
  <2>3. StartFirst'
    BY <1>2 DEF StartFails
  <2>4. TakenDown'
    BY <1>2 DEF StartFails
  <2>5. SendsCounted'
    BY <1>2 DEF StartFails
  <2> QED
    BY <2>1, <2>2, <2>3, <2>4, <2>5 DEF OTLPInv
<1>3. CASE StartGRPC
  <2>1. ReceiverTypeOK'
    BY <1>3 DEF StartGRPC
  <2>2. StopExcludes'
    BY <1>3 DEF StartGRPC
  <2>3. StartFirst'
    BY <1>3 DEF StartGRPC
  <2>4. TakenDown'
    BY <1>3 DEF StartGRPC
  <2>5. SendsCounted'
    BY <1>3 DEF StartGRPC
  <2> QED
    BY <2>1, <2>2, <2>3, <2>4, <2>5 DEF OTLPInv
<1>4. CASE StartHTTP
  <2>1. ReceiverTypeOK'
    <3>1. serving' = serving \/ serving' = serving \cup {"http"}
      BY <1>4 DEF StartHTTP
    <3>2. serving' \subseteq {"grpc", "http"}
      BY <3>1
    <3>3. httpSrv' \in BOOLEAN
      BY <1>4 DEF StartHTTP
    <3> QED
      BY <1>4, <3>2, <3>3 DEF StartHTTP
  <2>2. StopExcludes'
    BY <1>4 DEF StartHTTP
  <2>3. StartFirst'
    BY <1>4 DEF StartHTTP
  <2>4. TakenDown'
    BY <1>4 DEF StartHTTP
  <2>5. SendsCounted'
    BY <1>4 DEF StartHTTP
  <2> QED
    BY <2>1, <2>2, <2>3, <2>4, <2>5 DEF OTLPInv
<1>5. CASE CancelContext
  <2>1. ReceiverTypeOK'
    BY <1>5 DEF CancelContext
  <2>2. StopExcludes'
    BY <1>5 DEF CancelContext
  <2>3. StartFirst'
    BY <1>5 DEF CancelContext
  <2>4. TakenDown'
    BY <1>5 DEF CancelContext
  <2>5. SendsCounted'
    BY <1>5 DEF CancelContext
  <2> QED
    BY <2>1, <2>2, <2>3, <2>4, <2>5 DEF OTLPInv
<1>6. CASE OwnerStops
  <2>1. ReceiverTypeOK'
    BY <1>6 DEF OwnerStops
  <2>2. StopExcludes'
    BY <1>6 DEF OwnerStops
  <2>3. StartFirst'
    BY <1>6 DEF OwnerStops
  <2>4. TakenDown'
    BY <1>6 DEF OwnerStops
  <2>5. SendsCounted'
    BY <1>6 DEF OwnerStops
  <2> QED
    BY <2>1, <2>2, <2>3, <2>4, <2>5 DEF OTLPInv
<1>7. CASE WatcherStops
  <2>1. ReceiverTypeOK'
    BY <1>7 DEF WatcherStops
  <2>2. StopExcludes'
    BY <1>7 DEF WatcherStops
  <2>3. StartFirst'
    BY <1>7 DEF WatcherStops
  <2>4. TakenDown'
    BY <1>7 DEF WatcherStops
  <2>5. SendsCounted'
    BY <1>7 DEF WatcherStops
  <2> QED
    BY <2>1, <2>2, <2>3, <2>4, <2>5 DEF OTLPInv
<1> QED
  BY <1>1, <1>2, <1>3, <1>4, <1>5, <1>6, <1>7 DEF StartStep

(* The steps of Stop keep it. *)
LEMMA StopKeeps ==
  ASSUME OTLPInv, NEW p \in Stoppers, StopStep(p)
  PROVE  OTLPInv'
<1> USE StoppersApart DEF OTLPInv, ReceiverTypeOK, StopExcludes, StartFirst, TakenDown, SendsCounted,
        Inside, Running, ownerVars, serverVars, callVars
<1>1. CASE StopEnter(p)
  <2>1. ReceiverTypeOK'
    <3>1. stop' \in [Stoppers -> {"no", "lock", "grpc", "http", "release", "done"}]
      BY <1>1 DEF StopEnter
    <3>2. closes' \in Nat
      BY <1>1 DEF StopEnter
    <3>3. mu' \in Stoppers \cup {Nobody} /\ stopped' \in {"nil", "open", "closed"}
      BY <1>1 DEF StopEnter
    <3>4. serving' \subseteq {"grpc", "http"}
      BY <1>1 DEF StopEnter
    <3> QED
      BY <1>1, <3>1, <3>2, <3>3, <3>4 DEF StopEnter
  <2>2. StopExcludes'
    BY <1>1 DEF StopEnter
  <2>3. StartFirst'
    BY <1>1 DEF StopEnter
  <2>4. TakenDown'
    BY <1>1 DEF StopEnter
  <2>5. SendsCounted'
    BY <1>1 DEF StopEnter
  <2> QED
    BY <2>1, <2>2, <2>3, <2>4, <2>5 DEF OTLPInv
<1>2. CASE StopGRPC(p)
  <2>1. ReceiverTypeOK'
    BY <1>2 DEF StopGRPC
  <2>2. StopExcludes'
    BY <1>2 DEF StopGRPC
  <2>3. StartFirst'
    BY <1>2 DEF StopGRPC
  <2>4. TakenDown'
    BY <1>2 DEF StopGRPC
  <2>5. SendsCounted'
    BY <1>2 DEF StopGRPC
  <2> QED
    BY <2>1, <2>2, <2>3, <2>4, <2>5 DEF OTLPInv
<1>3. CASE StopHTTP(p)
  <2>1. ReceiverTypeOK'
    BY <1>3 DEF StopHTTP
  <2>2. StopExcludes'
    BY <1>3 DEF StopHTTP
  <2>3. StartFirst'
    BY <1>3 DEF StopHTTP
  <2>4. TakenDown'
    BY <1>3 DEF StopHTTP
  <2>5. SendsCounted'
    BY <1>3 DEF StopHTTP
  <2> QED
    BY <2>1, <2>2, <2>3, <2>4, <2>5 DEF OTLPInv
<1>4. CASE StopRelease(p)
  <2>1. ReceiverTypeOK'
    BY <1>4 DEF StopRelease
  <2>2. StopExcludes'
    BY <1>4 DEF StopRelease
  <2>3. StartFirst'
    BY <1>4 DEF StopRelease
  <2>4. TakenDown'
    BY <1>4 DEF StopRelease
  <2>5. SendsCounted'
    BY <1>4 DEF StopRelease
  <2> QED
    BY <2>1, <2>2, <2>3, <2>4, <2>5 DEF OTLPInv
<1> QED
  BY <1>1, <1>2, <1>3, <1>4 DEF StopStep

(* The calls keep it. *)
LEMMA CallKeeps ==
  ASSUME OTLPBounds, OTLPInv, NEW c \in Calls, Accept(c) \/ CallStep(c)
  PROVE  OTLPInv'
<1> USE StoppersApart DEF OTLPBounds, OTLPInv, ReceiverTypeOK, StopExcludes, StartFirst, TakenDown,
        SendsCounted, Inside, Running, ownerVars, serverVars
<1>1. CASE Accept(c)
  <2>1. ReceiverTypeOK'
    <3>1. call' \in [Calls -> {"no", "emit", "send", "done"}]
      BY <1>1 DEF Accept
    <3>2. PICK n \in 0 .. MaxEvents : left' = [left EXCEPT ![c] = n]
      BY <1>1 DEF Accept
    <3>3. left' \in [Calls -> 0 .. MaxEvents]
      BY <3>2
    <3> QED
      BY <1>1, <3>1, <3>3 DEF Accept
  <2>2. StopExcludes'
    BY <1>1 DEF Accept, Calls
  <2>3. StartFirst'
    BY <1>1 DEF Accept, Calls
  <2>4. TakenDown'
    BY <1>1 DEF Accept, Calls
  <2>5. SendsCounted'
    BY <1>1 DEF Accept, Calls
  <2> QED
    BY <2>1, <2>2, <2>3, <2>4, <2>5 DEF OTLPInv
<1>2. CASE EmitRead(c)
  <2>1. ReceiverTypeOK'
    BY <1>2 DEF EmitRead, Calls
  <2>2. StopExcludes'
    BY <1>2 DEF EmitRead, Calls
  <2>3. StartFirst'
    BY <1>2 DEF EmitRead, Calls
  <2>4. TakenDown'
    BY <1>2 DEF EmitRead, Calls
  <2>5. SendsCounted'
    BY <1>2 DEF EmitRead, Calls
  <2> QED
    BY <2>1, <2>2, <2>3, <2>4, <2>5 DEF OTLPInv
<1>3. CASE EmitSend(c)
  <2>1. ReceiverTypeOK'
    BY <1>3 DEF EmitSend, Calls
  <2>2. StopExcludes'
    BY <1>3 DEF EmitSend, Calls
  <2>3. StartFirst'
    BY <1>3 DEF EmitSend, Calls
  <2>4. TakenDown'
    BY <1>3 DEF EmitSend, Calls
  <2>5. SendsCounted'
    BY <1>3 DEF EmitSend, Calls
  <2> QED
    BY <2>1, <2>2, <2>3, <2>4, <2>5 DEF OTLPInv
<1>4. CASE Return(c)
  <2>1. ReceiverTypeOK'
    BY <1>4 DEF Return, Calls
  <2>2. StopExcludes'
    BY <1>4 DEF Return, Calls
  <2>3. StartFirst'
    BY <1>4 DEF Return, Calls
  <2>4. TakenDown'
    BY <1>4 DEF Return, Calls
  <2>5. SendsCounted'
    BY <1>4 DEF Return, Calls
  <2> QED
    BY <2>1, <2>2, <2>3, <2>4, <2>5 DEF OTLPInv
<1> QED
  BY <1>1, <1>2, <1>3, <1>4 DEF CallStep

(* Every step keeps it. *)
LEMMA OTLPStep == OTLPBounds /\ OTLPInv /\ [ReceiverNext]_receiverVars => OTLPInv'
<1>1. ASSUME OTLPInv, UNCHANGED receiverVars PROVE OTLPInv'
  BY <1>1 DEF receiverVars, OTLPInv, ReceiverTypeOK, StopExcludes, StartFirst, TakenDown,
         SendsCounted, Running
<1> QED
  BY <1>1, ServersKeep, StopKeeps, CallKeeps DEF ReceiverNext, ReceiverEnded

(* The receiver keeps its types through any life (otlp.go). *)
THEOREM ReceiverTyped == ReceiverSpec => []ReceiverTypeOK
<1> USE OTLPAssumption
<1>1. ReceiverInit => OTLPInv
  BY OTLPInit
<1>2. OTLPInv /\ [ReceiverNext]_receiverVars => OTLPInv'
  BY OTLPStep
<1>3. OTLPInv => ReceiverTypeOK
  BY DEF OTLPInv
<1> QED
  BY <1>1, <1>2, <1>3, PTL DEF ReceiverSpec

(* r.stopped is closed at most once, whoever calls Stop and when           *)
(* (otlp.go, Stop).                                                        *)
THEOREM ReceiverClosesOnce == ReceiverSpec => []ClosedAtMostOnce
<1> USE OTLPAssumption
<1>1. ReceiverInit => OTLPInv
  BY OTLPInit
<1>2. OTLPInv /\ [ReceiverNext]_receiverVars => OTLPInv'
  BY OTLPStep
<1>3. OTLPInv => ClosedAtMostOnce
  BY DEF OTLPInv, StopExcludes, ClosedAtMostOnce
<1> QED
  BY <1>1, <1>2, <1>3, PTL DEF ReceiverSpec

(* A Stop that has returned has left nothing behind: no server, no channel *)
(* and no gRPC call that could still send (otlp.go, Stop).                 *)
THEOREM ReceiverStopsQuietly == ReceiverSpec => []StoppedIsQuiet
<1> USE OTLPAssumption
<1>1. ReceiverInit => OTLPInv
  BY OTLPInit
<1>2. OTLPInv /\ [ReceiverNext]_receiverVars => OTLPInv'
  BY OTLPStep
<1>3. OTLPInv => StoppedIsQuiet
  BY DEF OTLPInv, ReceiverTypeOK, StopExcludes, TakenDown, StoppedIsQuiet
<1> QED
  BY <1>1, <1>2, <1>3, PTL DEF ReceiverSpec
=============================================================================
