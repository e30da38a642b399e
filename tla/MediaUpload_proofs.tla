------------------------- MODULE MediaUpload_proofs -------------------------
(***************************************************************************)
(* Proofs about one staged upload, for every set of concurrent handlers,   *)
(* every declared content and every split of it into chunks.               *)
(***************************************************************************)
EXTENDS MediaUpload, FiniteSetTheorems, TLAPS

Snaps == [received : Offsets, chunk : Chunks \cup {<<>>}, intime : BOOLEAN]
Appending == {"appendSize", "appendRepair", "appendWrite", "appendCursor", "appendUndo"}
Verified  == {"completeMime", "completeSeal"}

\* The file is listed for removal, now or earlier, and never needed again.
Gone == row \in {"aborted", "expired", "deleted"} \/ lease \in {"expired", "deleted"}

(***************************************************************************)
(* Row, lease and file: an open row and an active lease have their file, a *)
(* deleted one has none, only a completed row has a lease, and a row that  *)
(* Cancel closed stays closed.                                             *)
(***************************************************************************)
Rows ==
  /\ row = "none" => received = 0
  /\ lease # "none" => row = "completed"
  /\ row = "open" \/ lease = "active" => exists
  /\ row = "deleted" \/ lease = "deleted" => ~exists
  /\ cancelled => row \in {"aborted", "deleted"}

\* A sweep that is past its listing removes only what is gone.
Sweeping ==
  /\ sweep \in {"remove", "ack"} => Gone
  /\ sweep = "ack" => ~exists

(***************************************************************************)
(* What a handler may rely on although others run beside it: a creator is  *)
(* alone with its fresh id, a cancel removes the file of a cancelled row   *)
(* only, and an appender's chunk fits.                                     *)
(***************************************************************************)
Handling(h) ==
  /\ pc[h] \in {"createRecord", "createUndo"} =>
       row = "none" /\ \A g \in Handlers \ {h} : pc[g] = "idle"
  /\ pc[h] = "createRecord" => exists
  /\ pc[h] = "cancelRemove" => row \in {"aborted", "deleted"}
  /\ pc[h] \in Appending => snap[h].chunk \in Chunks
  /\ pc[h] = "appendCursor" => Fits(h)

(***************************************************************************)
(* While requests and sweeps have never overlapped, the one that runs has  *)
(* the upload to itself: what it read of the row is still so when it uses  *)
(* it, the cursor stays within the file, and the bytes it verified stay.   *)
(***************************************************************************)
Alone ==
  /\ \A g, h \in Handlers : pc[g] # "idle" /\ pc[h] # "idle" => g = h
  /\ sweep # "idle" => \A h \in Handlers : pc[h] = "idle"

SerialBytes ==
  /\ row = "open" => received <= Len(file)
  /\ lease = "active" => file = Expected
  /\ sweep \in {"size", "truncate"} => row = "open" /\ swept = received

SerialStep(h) ==
  /\ pc[h] \in Appending => row = "open" /\ snap[h].received = received
  /\ pc[h] = "appendCursor" => Len(file) = received + Len(snap[h].chunk)
  /\ pc[h] \in Verified => file = Expected

Serially ==
  ~overlapped => Alone /\ SerialBytes /\ \A h \in Handlers : SerialStep(h)

MediaInv ==
  TypeOK /\ Rows /\ Sweeping /\ (\A h \in Handlers : Handling(h)) /\ Serially

-----------------------------------------------------------------------------
(* Bytes and records. *)

LEMMA TotalFacts ==
  /\ Total \in Nat \ {0} /\ Expected \in Seq(Bytes) /\ Total = Len(Expected)
  /\ Offsets \subseteq Nat /\ 0 \in Offsets
  /\ \A c \in Chunks : c \in Seq(Bytes) /\ Len(c) \in Nat \ {0}
<1>1. /\ Expected \in Seq(Bytes) /\ Expected # <<>>
      /\ \A c \in Chunks : c \in Seq(Bytes) /\ c # <<>>
  BY MediaAssumption DEF MediaAssumption
<1>2. \A c \in Seq(Bytes) : c # <<>> => Len(c) \in Nat \ {0}
  OBVIOUS
<1>3. Total \in Nat \ {0}
  BY <1>1, <1>2 DEF Total
<1>4. QED
  BY <1>1, <1>2, <1>3 DEF Total, Offsets

LEMMA Joined ==
  \A s, t \in Seq(Bytes) : s \o t \in Seq(Bytes) /\ Len(s \o t) = Len(s) + Len(t)
  OBVIOUS

LEMMA Cut ==
  \A s \in Seq(Bytes) : \A n \in 0..Len(s) :
    SubSeq(s, 1, n) \in Seq(Bytes) /\ Len(SubSeq(s, 1, n)) = n
  OBVIOUS

LEMMA SnapFacts ==
  /\ Blank \in Snaps
  /\ \A n \in Offsets : \A c \in Chunks :
       LET s == [received |-> n, chunk |-> c, intime |-> FALSE]
       IN  s \in Snaps /\ s.received = n /\ s.chunk = c
  /\ \A s \in Snaps : \A b \in BOOLEAN :
       /\ [s EXCEPT !.intime = b] \in Snaps
       /\ [s EXCEPT !.intime = b].received = s.received
       /\ [s EXCEPT !.intime = b].chunk = s.chunk
       /\ s.received \in Offsets /\ s.chunk \in Chunks \cup {<<>>}
  BY TotalFacts DEF Blank, Snaps

-----------------------------------------------------------------------------
(* Control of a handler. *)

Moved(h) ==
  /\ pc' \in [Handlers -> Steps] /\ snap' \in [Handlers -> Snaps]
  /\ \A g \in Handlers \ {h} : pc'[g] = pc[g] /\ snap'[g] = snap[g]

LEMMA Empty == <<>> \in Seq(Bytes) /\ Len(<<>>) = 0
  OBVIOUS

\* The file after a step that keeps it.
Kept == file' \in Seq(Bytes) /\ Len(file') <= Total /\ exists' \in BOOLEAN

LEMMA Removed ==
  ASSUME Remove
  PROVE  Kept /\ ~exists'
<1>1. file' = <<>> /\ exists' = FALSE
  BY DEF Remove
<1>2. file' \in Seq(Bytes) /\ Len(file') = 0
  BY <1>1, Empty
<1>3. Len(file') <= Total
  BY <1>2, TotalFacts
<1>4. exists' \in BOOLEAN /\ ~exists'
  BY <1>1
<1>5. QED
  BY <1>2, <1>3, <1>4 DEF Kept

LEMMA Truncated ==
  ASSUME TypeOK, NEW n \in Offsets, CanTruncate(n), Truncate(n)
  PROVE  Kept /\ exists' = exists /\ Len(file') = n
<1>1. n \in 0..Len(file) /\ file' = SubSeq(file, 1, n) /\ exists' = exists
  BY DEF CanTruncate, Truncate, Offsets, TypeOK
<1>2. file' \in Seq(Bytes) /\ Len(file') = n
  BY <1>1, Cut DEF TypeOK
<1>3. n <= Total
  BY DEF Offsets
<1>4. QED
  BY <1>1, <1>2, <1>3 DEF Kept, TypeOK

LEMMA Written ==
  ASSUME TypeOK, exists, NEW data \in Seq(Bytes), Len(file) + Len(data) <= Total, Write(data)
  PROVE  Kept /\ exists' = exists /\ Len(file') = Len(file) + Len(data)
<1>1. file' = file \o data /\ exists' = TRUE
  BY DEF Write
<1>2. file' \in Seq(Bytes) /\ Len(file') = Len(file) + Len(data)
  BY <1>1, Joined DEF TypeOK
<1>3. QED
  BY <1>1, <1>2 DEF Kept, TypeOK

LEMMA Start ==
  ASSUME TypeOK, NEW h \in Handlers, NEW step \in Steps, NEW carries \in Snaps,
         Starts(h, step, carries)
  PROVE  /\ Moved(h) /\ pc[h] = "idle" /\ pc'[h] = step /\ snap'[h] = carries
         /\ overlapped' \in BOOLEAN
  BY DEF Starts, Begins, TypeOK, Snaps, Moved

LEMMA Go ==
  ASSUME TypeOK, NEW h \in Handlers, NEW from, NEW to \in Steps, Goes(h, from, to)
  PROVE  Moved(h) /\ pc[h] = from /\ pc'[h] = to /\ snap'[h] = snap[h]
  BY DEF Goes, TypeOK, Snaps, Moved

LEMMA Return ==
  ASSUME TypeOK, NEW h \in Handlers, NEW from, Returns(h, from)
  PROVE  Moved(h) /\ pc[h] = from /\ pc'[h] = "idle"
  BY SnapFacts DEF Returns, TypeOK, Snaps, Steps, Moved

\* The clock is read between two steps of one request.
LEMMA ReadClock ==
  ASSUME TypeOK, NEW h \in Handlers, NEW to \in Steps,
         pc' = [pc EXCEPT ![h] = to], snap' = [snap EXCEPT ![h].intime = ~late]
  PROVE  /\ Moved(h) /\ pc'[h] = to
         /\ snap'[h].received = snap[h].received /\ snap'[h].chunk = snap[h].chunk
<1>1. snap[h] \in Snaps /\ (~late) \in BOOLEAN
  BY DEF TypeOK, Snaps
<1> DEFINE now == [snap[h] EXCEPT !.intime = ~late]
<1>2. now \in Snaps /\ now.received = snap[h].received /\ now.chunk = snap[h].chunk
  BY <1>1, SnapFacts
<1>3. snap' = [snap EXCEPT ![h] = now]
  OBVIOUS
<1> HIDE DEF now
<1>4. QED
  BY <1>2, <1>3 DEF TypeOK, Snaps, Moved

-----------------------------------------------------------------------------
(* What the steps of one handler, and of the sweep, are to the others. *)

LEMMA Beside ==
  ASSUME MediaInv, NEW h \in Handlers, Moved(h), Handling(h)',
         pc[h] = "idle" => row # "none" \/ \A g \in Handlers : pc[g] = "idle",
         row \in {"aborted", "deleted"} => row' = row
  PROVE  (\A g \in Handlers : Handling(g))'
<1> SUFFICES ASSUME NEW g \in Handlers, g # h PROVE Handling(g)'
  OBVIOUS
<1>1. Handling(g) /\ Handling(h)
  BY DEF MediaInv
<1>2. pc[g] \notin {"createRecord", "createUndo"}
  BY <1>1 DEF Handling
<1>3. pc'[g] = pc[g] /\ snap'[g] = snap[g]
  BY DEF Moved
<1>4. QED
  BY <1>1, <1>2, <1>3 DEF Handling, Fits

LEMMA Around ==
  ASSUME MediaInv, UNCHANGED handlers,
         row = "none" => row' = "none" /\ exists' = exists,
         row \in {"aborted", "deleted"} => row' \in {"aborted", "deleted"}
  PROVE  (\A g \in Handlers : Handling(g))'
<1> SUFFICES ASSUME NEW g \in Handlers PROVE Handling(g)'
  OBVIOUS
<1>1. Handling(g) /\ pc' = pc /\ snap' = snap
  BY DEF MediaInv, handlers
<1>2. QED
  BY <1>1 DEF Handling, Fits

LEMMA InvInit == Init => MediaInv
<1> SUFFICES ASSUME Init PROVE MediaInv
  OBVIOUS
<1>1. TypeOK
  <2>1. snap \in [Handlers -> Snaps] /\ file \in Seq(Bytes) /\ Len(file) <= Total
    BY TotalFacts, SnapFacts, Empty DEF Init
  <2>2. QED
    BY <2>1, TotalFacts DEF Init, TypeOK, Snaps, Steps
<1>2. QED
  BY <1>1, TotalFacts DEF Init, MediaInv, Rows, Sweeping, Handling, Appending,
     Serially, Alone, SerialBytes, SerialStep, Verified

-----------------------------------------------------------------------------
(* Running alone. *)

LEMMA Quiet ==
  ASSUME TypeOK, Begins, ~overlapped'
  PROVE  /\ ~overlapped /\ sweep = "idle"
         /\ \A g \in Handlers : pc[g] = "idle"
<1> DEFINE Busy == {g \in Handlers : pc[g] # "idle"}
<1>1. IsFiniteSet(Busy)
  BY MediaAssumption, FS_Subset DEF MediaAssumption
<1>2. Cardinality(Busy) \in Nat
  BY <1>1, FS_CardinalityType
<1>3. ~overlapped /\ ~(Active > 0)
  BY DEF Begins
<1>4. Active = Cardinality(Busy) + (IF sweep = "idle" THEN 0 ELSE 1)
  BY DEF Active
<1> HIDE DEF Busy
<1>5. Cardinality(Busy) = 0 /\ sweep = "idle"
  BY <1>2, <1>3, <1>4
<1>6. Busy = {}
  BY <1>1, <1>5, FS_EmptySet
<1>7. QED
  BY <1>3, <1>5, <1>6 DEF Busy

LEMMA Solo ==
  ASSUME MediaInv, NEW h \in Handlers, Moved(h), ~overlapped', sweep' = sweep,
         Begins \/ (pc[h] # "idle" /\ overlapped' = overlapped)
  PROVE  /\ SerialBytes /\ SerialStep(h)
         /\ Alone' /\ sweep = "idle" /\ sweep' = "idle"
         /\ SerialStep(h)' => (\A g \in Handlers : SerialStep(g))'
<1>1. ~overlapped
  BY Quiet DEF MediaInv
<1>2. Alone /\ SerialBytes /\ SerialStep(h)
  BY <1>1 DEF MediaInv, Serially
<1>3. sweep = "idle" /\ \A g \in Handlers \ {h} : pc[g] = "idle"
  <2>1. CASE Begins
    BY <2>1, Quiet DEF MediaInv
  <2>2. CASE pc[h] # "idle"
    BY <1>2, <2>2 DEF Alone
  <2>3. QED
    BY <2>1, <2>2
<1>4. \A g \in Handlers \ {h} : pc'[g] = "idle"
  BY <1>3 DEF Moved
<1>5. Alone'
  BY <1>3, <1>4 DEF Alone
<1>6. \A g \in Handlers \ {h} : SerialStep(g)'
  BY <1>4 DEF SerialStep, Appending, Verified
<1>7. QED
  BY <1>2, <1>3, <1>5, <1>6

LEMMA SoloSweep ==
  ASSUME MediaInv, UNCHANGED handlers, ~overlapped',
         Begins \/ (sweep # "idle" /\ overlapped' = overlapped)
  PROVE  /\ ~overlapped /\ SerialBytes /\ Alone'
         /\ (\A g \in Handlers : SerialStep(g))'
<1>1. ~overlapped
  BY Quiet DEF MediaInv
<1>2. Alone /\ SerialBytes
  BY <1>1 DEF MediaInv, Serially
<1>3. \A g \in Handlers : pc[g] = "idle"
  <2>1. CASE Begins
    BY <2>1, Quiet DEF MediaInv
  <2>2. CASE sweep # "idle"
    BY <1>2, <2>2 DEF Alone
  <2>3. QED
    BY <2>1, <2>2
<1>4. \A g \in Handlers : pc'[g] = "idle"
  BY <1>3 DEF handlers
<1>5. QED
  BY <1>1, <1>2, <1>4 DEF Alone, SerialStep, Appending, Verified

-----------------------------------------------------------------------------
(* Create. *)

LEMMA InvCreate ==
  ASSUME MediaInv, NEW h \in Handlers,
         CreateFile(h) \/ CreateUpload(h) \/ CreateFails(h) \/ CreateUndo(h)
  PROVE  MediaInv'
<1> USE DEF MediaInv, upload, clock, disk, sweeper, history
<1>0. Handling(h) /\ snap[h] \in Snaps /\ Len(file) \in Nat /\ received \in Nat
  BY TotalFacts DEF TypeOK, Snaps
<1>1. CASE CreateFile(h)
  <2>1. /\ Moved(h) /\ pc[h] = "idle" /\ pc'[h] = "createRecord"
        /\ overlapped' \in BOOLEAN /\ Begins
    BY <1>1, Start, SnapFacts DEF CreateFile, Steps, Starts
  <2>2. TypeOK'
    BY <1>0, <1>1, <2>1 DEF CreateFile, Steps, Starts, TypeOK, Moved, Snaps, Kept
  <2>3. Rows' /\ Sweeping'
    BY <1>0, <1>1, <2>1 DEF CreateFile, Steps, Starts, Rows, Sweeping, Gone, Handling
  <2>4. Handling(h)'
    BY <1>0, <1>1, <2>1 DEF CreateFile, Steps, Starts, Handling, Appending, Fits, Moved
  <2>5. row \in {"aborted", "deleted"} => row' = row
    BY <1>0, <1>1, <2>1 DEF CreateFile, Steps, Starts, Handling
  <2>6. pc[h] = "idle" => row # "none" \/ \A g \in Handlers : pc[g] = "idle"
    BY <1>1, <2>1 DEF CreateFile, Steps, Starts
  <2>7. ASSUME ~overlapped' PROVE Alone' /\ SerialBytes' /\ (\A g \in Handlers : SerialStep(g))'
    <3>1. /\ sweep' = sweep
          /\ Begins
      BY <1>1, <2>1 DEF CreateFile, Steps, Starts
    <3>2. /\ SerialBytes /\ SerialStep(h) /\ Alone' /\ sweep = "idle"
          /\ SerialStep(h)' => (\A g \in Handlers : SerialStep(g))'
      BY <2>1, <2>7, <3>1, Solo
    <3>3. SerialBytes'
      BY <1>0, <1>1, <2>1, <3>1, <3>2
      DEF CreateFile, Steps, Starts, SerialBytes, SerialStep, Appending, Verified, Handling,
          Rows
    <3>4. SerialStep(h)'
      BY <1>0, <1>1, <2>1, <3>2
      DEF CreateFile, Steps, Starts, SerialStep, Appending, Verified, Handling
    <3>5. QED
      BY <3>2, <3>3, <3>4
  <2>8. QED
    BY <2>1, <2>2, <2>3, <2>4, <2>5, <2>6, <2>7, Beside DEF Serially
<1>2. CASE CreateUpload(h)
  <2>1. Moved(h) /\ pc[h] = "createRecord" /\ pc'[h] = "idle"
    BY <1>2, Return DEF CreateUpload
  <2>2. TypeOK'
    BY <1>0, <1>2, <2>1 DEF CreateUpload, TypeOK, Moved, Snaps, Kept
  <2>3. Rows' /\ Sweeping'
    BY <1>0, <1>2, <2>1 DEF CreateUpload, Rows, Sweeping, Gone, Handling
  <2>4. Handling(h)'
    BY <1>0, <1>2, <2>1 DEF CreateUpload, Handling, Appending, Fits, Moved
  <2>5. row \in {"aborted", "deleted"} => row' = row
    BY <1>0, <1>2, <2>1 DEF CreateUpload, Handling
  <2>6. pc[h] = "idle" => row # "none" \/ \A g \in Handlers : pc[g] = "idle"
    BY <1>2, <2>1 DEF CreateUpload
  <2>7. ASSUME ~overlapped' PROVE Alone' /\ SerialBytes' /\ (\A g \in Handlers : SerialStep(g))'
    <3>1. /\ sweep' = sweep
          /\ pc[h] # "idle" /\ overlapped' = overlapped
      BY <1>2, <2>1 DEF CreateUpload
    <3>2. /\ SerialBytes /\ SerialStep(h) /\ Alone' /\ sweep = "idle"
          /\ SerialStep(h)' => (\A g \in Handlers : SerialStep(g))'
      BY <2>1, <2>7, <3>1, Solo
    <3>3. SerialBytes'
      BY <1>0, <1>2, <2>1, <3>1, <3>2, TotalFacts
      DEF CreateUpload, SerialBytes, SerialStep, Appending, Verified, Handling, Rows
    <3>4. SerialStep(h)'
      BY <1>0, <1>2, <2>1, <3>2, TotalFacts
      DEF CreateUpload, SerialStep, Appending, Verified, Handling
    <3>5. QED
      BY <3>2, <3>3, <3>4
  <2>8. QED
    BY <2>1, <2>2, <2>3, <2>4, <2>5, <2>6, <2>7, Beside DEF Serially
<1>3. CASE CreateFails(h)
  <2>1. Moved(h) /\ pc[h] = "createRecord" /\ pc'[h] = "createUndo" /\ snap'[h] = snap[h]
    BY <1>3, Go DEF CreateFails, Steps
  <2>2. TypeOK'
    BY <1>0, <1>3, <2>1 DEF CreateFails, Steps, TypeOK, Moved, Snaps, Kept
  <2>3. Rows' /\ Sweeping'
    BY <1>0, <1>3, <2>1 DEF CreateFails, Steps, Rows, Sweeping, Gone, Handling
  <2>4. Handling(h)'
    BY <1>0, <1>3, <2>1 DEF CreateFails, Steps, Handling, Appending, Fits, Moved
  <2>5. row \in {"aborted", "deleted"} => row' = row
    BY <1>0, <1>3, <2>1 DEF CreateFails, Steps, Handling
  <2>6. pc[h] = "idle" => row # "none" \/ \A g \in Handlers : pc[g] = "idle"
    BY <1>3, <2>1 DEF CreateFails, Steps
  <2>7. ASSUME ~overlapped' PROVE Alone' /\ SerialBytes' /\ (\A g \in Handlers : SerialStep(g))'
    <3>1. /\ sweep' = sweep
          /\ pc[h] # "idle" /\ overlapped' = overlapped
      BY <1>3, <2>1 DEF CreateFails, Steps
    <3>2. /\ SerialBytes /\ SerialStep(h) /\ Alone' /\ sweep = "idle"
          /\ SerialStep(h)' => (\A g \in Handlers : SerialStep(g))'
      BY <2>1, <2>7, <3>1, Solo
    <3>3. SerialBytes'
      BY <1>0, <1>3, <2>1, <3>1, <3>2
      DEF CreateFails, Steps, SerialBytes, SerialStep, Appending, Verified, Handling, Rows
    <3>4. SerialStep(h)'
      BY <1>0, <1>3, <2>1, <3>2
      DEF CreateFails, Steps, SerialStep, Appending, Verified, Handling
    <3>5. QED
      BY <3>2, <3>3, <3>4
  <2>8. QED
    BY <2>1, <2>2, <2>3, <2>4, <2>5, <2>6, <2>7, Beside DEF Serially
<1>4. CASE CreateUndo(h)
  <2>1. Moved(h) /\ pc[h] = "createUndo" /\ pc'[h] = "idle" /\ Kept /\ ~exists'
    BY <1>4, Return, Removed DEF CreateUndo
  <2>2. TypeOK'
    BY <1>0, <1>4, <2>1 DEF CreateUndo, TypeOK, Moved, Snaps, Kept
  <2>3. Rows' /\ Sweeping'
    BY <1>0, <1>4, <2>1 DEF CreateUndo, Rows, Sweeping, Gone, Handling
  <2>4. Handling(h)'
    BY <1>0, <1>4, <2>1 DEF CreateUndo, Handling, Appending, Fits, Moved
  <2>5. row \in {"aborted", "deleted"} => row' = row
    BY <1>0, <1>4, <2>1 DEF CreateUndo, Handling
  <2>6. pc[h] = "idle" => row # "none" \/ \A g \in Handlers : pc[g] = "idle"
    BY <1>4, <2>1 DEF CreateUndo
  <2>7. ASSUME ~overlapped' PROVE Alone' /\ SerialBytes' /\ (\A g \in Handlers : SerialStep(g))'
    <3>1. /\ sweep' = sweep
          /\ pc[h] # "idle" /\ overlapped' = overlapped
      BY <1>4, <2>1 DEF CreateUndo
    <3>2. /\ SerialBytes /\ SerialStep(h) /\ Alone' /\ sweep = "idle"
          /\ SerialStep(h)' => (\A g \in Handlers : SerialStep(g))'
      BY <2>1, <2>7, <3>1, Solo
    <3>3. SerialBytes'
      BY <1>0, <1>4, <2>1, <3>1, <3>2
      DEF CreateUndo, SerialBytes, SerialStep, Appending, Verified, Handling, Rows
    <3>4. SerialStep(h)'
      BY <1>0, <1>4, <2>1, <3>2 DEF CreateUndo, SerialStep, Appending, Verified, Handling
    <3>5. QED
      BY <3>2, <3>3, <3>4
  <2>8. QED
    BY <2>1, <2>2, <2>3, <2>4, <2>5, <2>6, <2>7, Beside DEF Serially
<1>5. QED
  BY <1>1, <1>2, <1>3, <1>4

-----------------------------------------------------------------------------
(* Append. *)

LEMMA InvAppend ==
  ASSUME MediaInv, NEW h \in Handlers,
         \/ AppendStart(h) \/ AppendSize(h) \/ AppendRepair(h) \/ AppendWrite(h)
         \/ AppendWriteFails(h) \/ AdvanceReceived(h) \/ AdvanceFails(h) \/ AppendUndo(h)
  PROVE  MediaInv'
<1> USE DEF MediaInv, upload, clock, disk, sweeper, history
<1>0. Handling(h) /\ snap[h] \in Snaps /\ Len(file) \in Nat /\ received \in Nat
  BY TotalFacts DEF TypeOK, Snaps
<1>a. /\ snap[h].received \in Offsets /\ snap[h].received \in Nat
      /\ snap[h].chunk \in Chunks \cup {<<>>}
      /\ snap[h].chunk \in Seq(Bytes) /\ Len(snap[h].chunk) \in Nat
  <2>1. snap[h].received \in Offsets /\ snap[h].chunk \in Chunks \cup {<<>>}
    BY <1>0, SnapFacts
  <2>2. QED
    BY <2>1, TotalFacts, Empty
<1>1. CASE AppendStart(h)
  <2>1. /\ Moved(h) /\ pc[h] = "idle" /\ pc'[h] = "appendSize"
        /\ snap'[h].received = received /\ snap'[h].chunk \in Chunks
        /\ overlapped' \in BOOLEAN /\ Begins
    <3>1. PICK c \in Chunks :
            Starts(h, "appendSize", [received |-> received, chunk |-> c, intime |-> FALSE])
      BY <1>1 DEF AppendStart
    <3>2. PICK carries \in Snaps : carries = [received |-> received, chunk |-> c, intime |-> FALSE]
      BY SnapFacts DEF TypeOK
    <3>3. Starts(h, "appendSize", carries) /\ carries.received = received /\ carries.chunk = c
      BY <3>1, <3>2
    <3>4. QED
      BY <3>3, Start DEF Starts, Steps
  <2>2. TypeOK'
    BY <1>0, <1>1, <2>1 DEF AppendStart, OpenOwned, TypeOK, Moved, Snaps, Kept
  <2>3. Rows' /\ Sweeping'
    BY <1>0, <1>1, <2>1 DEF AppendStart, OpenOwned, Rows, Sweeping, Gone, Handling
  <2>4. Handling(h)'
    BY <1>0, <1>1, <2>1 DEF AppendStart, OpenOwned, Handling, Appending, Fits, Moved
  <2>5. row \in {"aborted", "deleted"} => row' = row
    BY <1>0, <1>1, <2>1 DEF AppendStart, OpenOwned, Handling
  <2>6. pc[h] = "idle" => row # "none" \/ \A g \in Handlers : pc[g] = "idle"
    BY <1>1, <2>1 DEF AppendStart, OpenOwned
  <2>7. ASSUME ~overlapped' PROVE Alone' /\ SerialBytes' /\ (\A g \in Handlers : SerialStep(g))'
    <3>1. /\ sweep' = sweep
          /\ Begins
      BY <1>1, <2>1 DEF AppendStart, OpenOwned
    <3>2. /\ SerialBytes /\ SerialStep(h) /\ Alone' /\ sweep = "idle"
          /\ SerialStep(h)' => (\A g \in Handlers : SerialStep(g))'
      BY <2>1, <2>7, <3>1, Solo
    <3>3. SerialBytes'
      BY <1>0, <1>1, <2>1, <3>1, <3>2
      DEF AppendStart, OpenOwned, SerialBytes, SerialStep, Appending, Verified, Handling,
          Rows
    <3>4. SerialStep(h)'
      BY <1>0, <1>1, <2>1, <3>2
      DEF AppendStart, OpenOwned, SerialStep, Appending, Verified, Handling
    <3>5. QED
      BY <3>2, <3>3, <3>4
  <2>8. QED
    BY <2>1, <2>2, <2>3, <2>4, <2>5, <2>6, <2>7, Beside DEF Serially
<1>2. CASE AppendSize(h)
  <2>1. /\ Moved(h) /\ pc[h] = "appendSize"
        /\ pc'[h] \in {"idle", "appendWrite", "appendRepair"}
        /\ pc'[h] # "idle" => snap'[h] = snap[h]
    <3>1. CASE CanTruncate(snap[h].received)
      <4>1. PICK to \in {"appendWrite", "appendRepair"} : Goes(h, "appendSize", to)
        BY <1>2, <3>1 DEF AppendSize, Goes
      <4>2. QED
        BY <4>1, Go DEF Steps
    <3>2. CASE ~CanTruncate(snap[h].received)
      BY <1>2, <3>2, Return DEF AppendSize
    <3>3. QED
      BY <3>1, <3>2
  <2>2. TypeOK'
    BY <1>0, <1>2, <2>1 DEF AppendSize, TypeOK, Moved, Snaps, Kept
  <2>3. Rows' /\ Sweeping'
    BY <1>0, <1>2, <2>1 DEF AppendSize, Rows, Sweeping, Gone, Handling
  <2>4. Handling(h)'
    BY <1>0, <1>2, <2>1 DEF AppendSize, Handling, Appending, Fits, Moved
  <2>5. row \in {"aborted", "deleted"} => row' = row
    BY <1>0, <1>2, <2>1 DEF AppendSize, Handling
  <2>6. pc[h] = "idle" => row # "none" \/ \A g \in Handlers : pc[g] = "idle"
    BY <1>2, <2>1 DEF AppendSize
  <2>7. ASSUME ~overlapped' PROVE Alone' /\ SerialBytes' /\ (\A g \in Handlers : SerialStep(g))'
    <3>1. /\ sweep' = sweep
          /\ pc[h] # "idle" /\ overlapped' = overlapped
      BY <1>2, <2>1 DEF AppendSize
    <3>2. /\ SerialBytes /\ SerialStep(h) /\ Alone' /\ sweep = "idle"
          /\ SerialStep(h)' => (\A g \in Handlers : SerialStep(g))'
      BY <2>1, <2>7, <3>1, Solo
    <3>3. SerialBytes'
      BY <1>0, <1>2, <2>1, <3>1, <3>2
      DEF AppendSize, SerialBytes, SerialStep, Appending, Verified, Handling, Rows
    <3>4. SerialStep(h)'
      BY <1>0, <1>2, <2>1, <3>2 DEF AppendSize, SerialStep, Appending, Verified, Handling
    <3>5. QED
      BY <3>2, <3>3, <3>4
  <2>8. QED
    BY <2>1, <2>2, <2>3, <2>4, <2>5, <2>6, <2>7, Beside DEF Serially
<1>3. CASE AppendRepair(h)
  <2>1. /\ Moved(h) /\ pc[h] = "appendRepair" /\ Kept /\ exists' = exists
        /\ \/ /\ pc'[h] = "appendWrite" /\ snap'[h] = snap[h]
              /\ Len(file') = snap[h].received
           \/ pc'[h] = "idle" /\ file' = file
    <3>1. CASE CanTruncate(snap[h].received)
      <4>1. Goes(h, "appendRepair", "appendWrite") /\ Truncate(snap[h].received)
        BY <1>3, <3>1 DEF AppendRepair
      <4>2. PICK n \in Offsets : n = snap[h].received
        BY <1>a
      <4>3. CanTruncate(n) /\ Truncate(n)
        BY <3>1, <4>1, <4>2 DEF CanTruncate, Truncate
      <4>4. QED
        BY <4>1, <4>2, <4>3, Go, Truncated DEF Steps
    <3>2. CASE ~CanTruncate(snap[h].received)
      BY <1>3, <3>2, Return DEF AppendRepair, Kept, TypeOK
    <3>3. QED
      BY <3>1, <3>2
  <2>2. TypeOK'
    BY <1>0, <1>3, <2>1 DEF AppendRepair, TypeOK, Moved, Snaps, Kept
  <2>3. Rows' /\ Sweeping'
    BY <1>0, <1>3, <2>1 DEF AppendRepair, Rows, Sweeping, Gone, Handling
  <2>4. Handling(h)'
    BY <1>0, <1>3, <2>1 DEF AppendRepair, Handling, Appending, Fits, Moved
  <2>5. row \in {"aborted", "deleted"} => row' = row
    BY <1>0, <1>3, <2>1 DEF AppendRepair, Handling
  <2>6. pc[h] = "idle" => row # "none" \/ \A g \in Handlers : pc[g] = "idle"
    BY <1>3, <2>1 DEF AppendRepair
  <2>7. ASSUME ~overlapped' PROVE Alone' /\ SerialBytes' /\ (\A g \in Handlers : SerialStep(g))'
    <3>1. /\ sweep' = sweep
          /\ pc[h] # "idle" /\ overlapped' = overlapped
      BY <1>3, <2>1 DEF AppendRepair
    <3>2. /\ SerialBytes /\ SerialStep(h) /\ Alone' /\ sweep = "idle"
          /\ SerialStep(h)' => (\A g \in Handlers : SerialStep(g))'
      BY <2>1, <2>7, <3>1, Solo
    <3>3. SerialBytes'
      BY <1>0, <1>3, <2>1, <3>1, <3>2
      DEF AppendRepair, SerialBytes, SerialStep, Appending, Verified, Handling, Rows
    <3>4. SerialStep(h)'
      BY <1>0, <1>3, <2>1, <3>2 DEF AppendRepair, SerialStep, Appending, Verified, Handling
    <3>5. QED
      BY <3>2, <3>3, <3>4
  <2>8. QED
    BY <2>1, <2>2, <2>3, <2>4, <2>5, <2>6, <2>7, Beside DEF Serially
<1>4. CASE AppendWrite(h)
  <2>1. /\ Moved(h) /\ pc[h] = "appendWrite" /\ Kept /\ exists' = exists
        /\ \/ /\ pc'[h] = "appendCursor" /\ Fits(h)
              /\ snap'[h].received = snap[h].received /\ snap'[h].chunk = snap[h].chunk
              /\ Len(file') = snap[h].received + Len(snap[h].chunk)
           \/ pc'[h] = "idle" /\ file' = file
    <3>1. CASE Fits(h) /\ CanWrite(snap[h].received)
      <4>1. PICK data \in Seq(Bytes) : data = snap[h].chunk
        BY <1>a
      <4>2. exists /\ Len(file) = snap[h].received /\ Write(data) /\ Len(file) + Len(data) <= Total
        BY <1>4, <3>1, <4>1 DEF AppendWrite, CanWrite, Fits
      <4>3. Kept /\ exists' = exists /\ Len(file') = Len(file) + Len(data)
        BY <4>2, Written
      <4>4. /\ pc[h] = "appendWrite" /\ pc' = [pc EXCEPT ![h] = "appendCursor"]
            /\ snap' = [snap EXCEPT ![h].intime = ~late]
        BY <1>4, <3>1 DEF AppendWrite
      <4>5. /\ Moved(h) /\ pc'[h] = "appendCursor"
            /\ snap'[h].received = snap[h].received /\ snap'[h].chunk = snap[h].chunk
        BY <4>4, ReadClock DEF Steps
      <4>6. QED
        BY <3>1, <4>1, <4>2, <4>3, <4>4, <4>5
    <3>2. CASE ~(Fits(h) /\ CanWrite(snap[h].received))
      BY <1>4, <3>2, Return DEF AppendWrite, Kept, TypeOK
    <3>3. QED
      BY <3>1, <3>2
  <2>2. TypeOK'
    BY <1>0, <1>4, <2>1 DEF AppendWrite, TypeOK, Moved, Snaps, Kept
  <2>3. Rows' /\ Sweeping'
    BY <1>0, <1>4, <2>1 DEF AppendWrite, Rows, Sweeping, Gone, Handling
  <2>4. Handling(h)'
    BY <1>0, <1>4, <2>1 DEF AppendWrite, Handling, Appending, Fits, Moved
  <2>5. row \in {"aborted", "deleted"} => row' = row
    BY <1>0, <1>4, <2>1 DEF AppendWrite, Handling
  <2>6. pc[h] = "idle" => row # "none" \/ \A g \in Handlers : pc[g] = "idle"
    BY <1>4, <2>1 DEF AppendWrite
  <2>7. ASSUME ~overlapped' PROVE Alone' /\ SerialBytes' /\ (\A g \in Handlers : SerialStep(g))'
    <3>1. /\ sweep' = sweep
          /\ pc[h] # "idle" /\ overlapped' = overlapped
      BY <1>4, <2>1 DEF AppendWrite
    <3>2. /\ SerialBytes /\ SerialStep(h) /\ Alone' /\ sweep = "idle"
          /\ SerialStep(h)' => (\A g \in Handlers : SerialStep(g))'
      BY <2>1, <2>7, <3>1, Solo
    <3>3. SerialBytes'
      BY <1>0, <1>4, <2>1, <3>1, <3>2, <1>a
      DEF AppendWrite, SerialBytes, SerialStep, Appending, Verified, Handling, Rows
    <3>4. SerialStep(h)'
      BY <1>0, <1>4, <2>1, <3>2, <1>a
      DEF AppendWrite, SerialStep, Appending, Verified, Handling
    <3>5. QED
      BY <3>2, <3>3, <3>4
  <2>8. QED
    BY <2>1, <2>2, <2>3, <2>4, <2>5, <2>6, <2>7, Beside DEF Serially
<1>5. CASE AppendWriteFails(h)
  <2>1. /\ Moved(h) /\ pc[h] = "appendWrite" /\ pc'[h] = "idle" /\ Kept /\ exists' = exists
        /\ Len(file') >= Len(file) /\ Len(file') \in Nat
    <3>1. PICK n \in 0..Len(snap[h].chunk) : Write(SubSeq(snap[h].chunk, 1, n))
      BY <1>5 DEF AppendWriteFails
    <3>2. PICK data \in Seq(Bytes) : data = SubSeq(snap[h].chunk, 1, n) /\ Len(data) = n
      BY <1>a, <3>1, Cut
    <3>3. exists /\ Write(data) /\ Len(file) + Len(data) <= Total
      BY <1>a, <1>5, <3>1, <3>2, TotalFacts DEF AppendWriteFails, CanWrite, Fits
    <3>4. Kept /\ exists' = exists /\ Len(file') = Len(file) + Len(data)
      BY <3>3, Written
    <3>5. Returns(h, "appendWrite")
      BY <1>5 DEF AppendWriteFails
    <3>6. QED
      BY <1>0, <3>1, <3>2, <3>4, <3>5, Return
  <2>2. TypeOK'
    BY <1>0, <1>5, <2>1 DEF AppendWriteFails, TypeOK, Moved, Snaps, Kept
  <2>3. Rows' /\ Sweeping'
    BY <1>0, <1>5, <2>1 DEF AppendWriteFails, Rows, Sweeping, Gone, Handling
  <2>4. Handling(h)'
    BY <1>0, <1>5, <2>1 DEF AppendWriteFails, Handling, Appending, Fits, Moved
  <2>5. row \in {"aborted", "deleted"} => row' = row
    BY <1>0, <1>5, <2>1 DEF AppendWriteFails, Handling
  <2>6. pc[h] = "idle" => row # "none" \/ \A g \in Handlers : pc[g] = "idle"
    BY <1>5, <2>1 DEF AppendWriteFails
  <2>7. ASSUME ~overlapped' PROVE Alone' /\ SerialBytes' /\ (\A g \in Handlers : SerialStep(g))'
    <3>1. /\ sweep' = sweep
          /\ pc[h] # "idle" /\ overlapped' = overlapped
      BY <1>5, <2>1 DEF AppendWriteFails
    <3>2. /\ SerialBytes /\ SerialStep(h) /\ Alone' /\ sweep = "idle"
          /\ SerialStep(h)' => (\A g \in Handlers : SerialStep(g))'
      BY <2>1, <2>7, <3>1, Solo
    <3>3. SerialBytes'
      BY <1>0, <1>5, <2>1, <3>1, <3>2
      DEF AppendWriteFails, SerialBytes, SerialStep, Appending, Verified, Handling, Rows
    <3>4. SerialStep(h)'
      BY <1>0, <1>5, <2>1, <3>2
      DEF AppendWriteFails, SerialStep, Appending, Verified, Handling
    <3>5. QED
      BY <3>2, <3>3, <3>4
  <2>8. QED
    BY <2>1, <2>2, <2>3, <2>4, <2>5, <2>6, <2>7, Beside DEF Serially
<1>6. CASE AdvanceReceived(h)
  <2>1. /\ Moved(h) /\ pc[h] = "appendCursor" /\ received' \in Offsets
        /\ \/ /\ pc'[h] = "idle" /\ row = "open"
              /\ received' = snap[h].received + Len(snap[h].chunk)
           \/ pc'[h] = "appendUndo" /\ snap'[h] = snap[h] /\ received' = received
    <3>1. CASE Advances(h)
      <4>1. /\ Returns(h, "appendCursor") /\ row = "open"
            /\ received' = snap[h].received + Len(snap[h].chunk)
        BY <1>6, <3>1 DEF AdvanceReceived, Advances
      <4>2. Moved(h) /\ pc[h] = "appendCursor" /\ pc'[h] = "idle"
        BY <4>1, Return
      <4>3. received' \in Offsets
        BY <1>0, <1>a, <4>1, <4>2, TotalFacts DEF Handling, Fits, Offsets
      <4>4. QED
        BY <4>1, <4>2, <4>3
    <3>2. CASE ~Advances(h)
      BY <1>6, <3>2, Go DEF AdvanceReceived, Steps, TypeOK
    <3>3. QED
      BY <3>1, <3>2
  <2>2. TypeOK'
    BY <1>0, <1>6, <2>1 DEF AdvanceReceived, TypeOK, Moved, Snaps, Kept
  <2>3. Rows' /\ Sweeping'
    BY <1>0, <1>6, <2>1 DEF AdvanceReceived, Rows, Sweeping, Gone, Handling
  <2>4. Handling(h)'
    BY <1>0, <1>6, <2>1 DEF AdvanceReceived, Handling, Appending, Fits, Moved
  <2>5. row \in {"aborted", "deleted"} => row' = row
    BY <1>0, <1>6, <2>1 DEF AdvanceReceived, Handling
  <2>6. pc[h] = "idle" => row # "none" \/ \A g \in Handlers : pc[g] = "idle"
    BY <1>6, <2>1 DEF AdvanceReceived
  <2>7. ASSUME ~overlapped' PROVE Alone' /\ SerialBytes' /\ (\A g \in Handlers : SerialStep(g))'
    <3>1. /\ sweep' = sweep
          /\ pc[h] # "idle" /\ overlapped' = overlapped
      BY <1>6, <2>1 DEF AdvanceReceived
    <3>2. /\ SerialBytes /\ SerialStep(h) /\ Alone' /\ sweep = "idle"
          /\ SerialStep(h)' => (\A g \in Handlers : SerialStep(g))'
      BY <2>1, <2>7, <3>1, Solo
    <3>3. SerialBytes'
      BY <1>0, <1>6, <2>1, <3>1, <3>2
      DEF AdvanceReceived, SerialBytes, SerialStep, Appending, Verified, Handling, Rows
    <3>4. SerialStep(h)'
      BY <1>0, <1>6, <2>1, <3>2
      DEF AdvanceReceived, SerialStep, Appending, Verified, Handling
    <3>5. QED
      BY <3>2, <3>3, <3>4
  <2>8. QED
    BY <2>1, <2>2, <2>3, <2>4, <2>5, <2>6, <2>7, Beside DEF Serially
<1>7. CASE AdvanceFails(h)
  <2>1. Moved(h) /\ pc[h] = "appendCursor" /\ pc'[h] = "appendUndo" /\ snap'[h] = snap[h]
    BY <1>7, Go DEF AdvanceFails, Steps
  <2>2. TypeOK'
    BY <1>0, <1>7, <2>1 DEF AdvanceFails, Steps, TypeOK, Moved, Snaps, Kept
  <2>3. Rows' /\ Sweeping'
    BY <1>0, <1>7, <2>1 DEF AdvanceFails, Steps, Rows, Sweeping, Gone, Handling
  <2>4. Handling(h)'
    BY <1>0, <1>7, <2>1 DEF AdvanceFails, Steps, Handling, Appending, Fits, Moved
  <2>5. row \in {"aborted", "deleted"} => row' = row
    BY <1>0, <1>7, <2>1 DEF AdvanceFails, Steps, Handling
  <2>6. pc[h] = "idle" => row # "none" \/ \A g \in Handlers : pc[g] = "idle"
    BY <1>7, <2>1 DEF AdvanceFails, Steps
  <2>7. ASSUME ~overlapped' PROVE Alone' /\ SerialBytes' /\ (\A g \in Handlers : SerialStep(g))'
    <3>1. /\ sweep' = sweep
          /\ pc[h] # "idle" /\ overlapped' = overlapped
      BY <1>7, <2>1 DEF AdvanceFails, Steps
    <3>2. /\ SerialBytes /\ SerialStep(h) /\ Alone' /\ sweep = "idle"
          /\ SerialStep(h)' => (\A g \in Handlers : SerialStep(g))'
      BY <2>1, <2>7, <3>1, Solo
    <3>3. SerialBytes'
      BY <1>0, <1>7, <2>1, <3>1, <3>2
      DEF AdvanceFails, Steps, SerialBytes, SerialStep, Appending, Verified, Handling, Rows
    <3>4. SerialStep(h)'
      BY <1>0, <1>7, <2>1, <3>2
      DEF AdvanceFails, Steps, SerialStep, Appending, Verified, Handling
    <3>5. QED
      BY <3>2, <3>3, <3>4
  <2>8. QED
    BY <2>1, <2>2, <2>3, <2>4, <2>5, <2>6, <2>7, Beside DEF Serially
<1>8. CASE AppendUndo(h)
  <2>1. /\ Moved(h) /\ pc[h] = "appendUndo" /\ pc'[h] = "idle" /\ Kept /\ exists' = exists
        /\ Len(file') = snap[h].received \/ file' = file
    <3>1. Returns(h, "appendUndo")
      BY <1>8 DEF AppendUndo
    <3>2. CASE CanTruncate(snap[h].received)
      <4>1. PICK n \in Offsets : n = snap[h].received
        BY <1>a
      <4>2. CanTruncate(n) /\ Truncate(n)
        BY <1>8, <3>2, <4>1 DEF AppendUndo, CanTruncate, Truncate
      <4>3. QED
        BY <3>1, <4>1, <4>2, Return, Truncated
    <3>3. CASE ~CanTruncate(snap[h].received)
      BY <1>8, <3>1, <3>3, Return DEF AppendUndo, Kept, TypeOK
    <3>4. QED
      BY <3>2, <3>3
  <2>2. TypeOK'
    BY <1>0, <1>8, <2>1 DEF AppendUndo, TypeOK, Moved, Snaps, Kept
  <2>3. Rows' /\ Sweeping'
    BY <1>0, <1>8, <2>1 DEF AppendUndo, Rows, Sweeping, Gone, Handling
  <2>4. Handling(h)'
    BY <1>0, <1>8, <2>1 DEF AppendUndo, Handling, Appending, Fits, Moved
  <2>5. row \in {"aborted", "deleted"} => row' = row
    BY <1>0, <1>8, <2>1 DEF AppendUndo, Handling
  <2>6. pc[h] = "idle" => row # "none" \/ \A g \in Handlers : pc[g] = "idle"
    BY <1>8, <2>1 DEF AppendUndo
  <2>7. ASSUME ~overlapped' PROVE Alone' /\ SerialBytes' /\ (\A g \in Handlers : SerialStep(g))'
    <3>1. /\ sweep' = sweep
          /\ pc[h] # "idle" /\ overlapped' = overlapped
      BY <1>8, <2>1 DEF AppendUndo
    <3>2. /\ SerialBytes /\ SerialStep(h) /\ Alone' /\ sweep = "idle"
          /\ SerialStep(h)' => (\A g \in Handlers : SerialStep(g))'
      BY <2>1, <2>7, <3>1, Solo
    <3>3. SerialBytes'
      BY <1>0, <1>8, <2>1, <3>1, <3>2
      DEF AppendUndo, SerialBytes, SerialStep, Appending, Verified, Handling, Rows
    <3>4. SerialStep(h)'
      BY <1>0, <1>8, <2>1, <3>2 DEF AppendUndo, SerialStep, Appending, Verified, Handling
    <3>5. QED
      BY <3>2, <3>3, <3>4
  <2>8. QED
    BY <2>1, <2>2, <2>3, <2>4, <2>5, <2>6, <2>7, Beside DEF Serially
<1>9. QED
  BY <1>1, <1>2, <1>3, <1>4, <1>5, <1>6, <1>7, <1>8

-----------------------------------------------------------------------------
(* Complete. *)

LEMMA InvComplete ==
  ASSUME MediaInv, NEW h \in Handlers,
         CompleteStart(h) \/ CompleteHash(h) \/ CompleteMime(h) \/ CompleteUpload(h)
  PROVE  MediaInv'
<1> USE DEF MediaInv, upload, clock, disk, sweeper, history
<1>0. Handling(h) /\ snap[h] \in Snaps /\ Len(file) \in Nat /\ received \in Nat
  BY TotalFacts DEF TypeOK, Snaps
<1>1. CASE CompleteStart(h)
  <2>1. /\ Moved(h) /\ pc[h] = "idle" /\ pc'[h] = "completeHash"
        /\ overlapped' \in BOOLEAN /\ Begins
    BY <1>1, Start, SnapFacts DEF CompleteStart, OpenOwned, Steps, Starts
  <2>2. TypeOK'
    BY <1>0, <1>1, <2>1
    DEF CompleteStart, OpenOwned, Steps, Starts, TypeOK, Moved, Snaps, Kept
  <2>3. Rows' /\ Sweeping'
    BY <1>0, <1>1, <2>1
    DEF CompleteStart, OpenOwned, Steps, Starts, Rows, Sweeping, Gone, Handling
  <2>4. Handling(h)'
    BY <1>0, <1>1, <2>1
    DEF CompleteStart, OpenOwned, Steps, Starts, Handling, Appending, Fits, Moved
  <2>5. row \in {"aborted", "deleted"} => row' = row
    BY <1>0, <1>1, <2>1 DEF CompleteStart, OpenOwned, Steps, Starts, Handling
  <2>6. pc[h] = "idle" => row # "none" \/ \A g \in Handlers : pc[g] = "idle"
    BY <1>1, <2>1 DEF CompleteStart, OpenOwned, Steps, Starts
  <2>7. ASSUME ~overlapped' PROVE Alone' /\ SerialBytes' /\ (\A g \in Handlers : SerialStep(g))'
    <3>1. /\ sweep' = sweep
          /\ Begins
      BY <1>1, <2>1 DEF CompleteStart, OpenOwned, Steps, Starts
    <3>2. /\ SerialBytes /\ SerialStep(h) /\ Alone' /\ sweep = "idle"
          /\ SerialStep(h)' => (\A g \in Handlers : SerialStep(g))'
      BY <2>1, <2>7, <3>1, Solo
    <3>3. SerialBytes'
      BY <1>0, <1>1, <2>1, <3>1, <3>2
      DEF CompleteStart, OpenOwned, Steps, Starts, SerialBytes, SerialStep, Appending,
          Verified, Handling, Rows
    <3>4. SerialStep(h)'
      BY <1>0, <1>1, <2>1, <3>2
      DEF CompleteStart, OpenOwned, Steps, Starts, SerialStep, Appending, Verified, Handling
    <3>5. QED
      BY <3>2, <3>3, <3>4
  <2>8. QED
    BY <2>1, <2>2, <2>3, <2>4, <2>5, <2>6, <2>7, Beside DEF Serially
<1>2. CASE CompleteHash(h)
  <2>1. /\ Moved(h) /\ pc[h] = "completeHash"
        /\ \/ pc'[h] = "completeMime" /\ file = Expected
           \/ pc'[h] = "idle"
    <3>1. CASE DigestMatches
      BY <1>2, <3>1, Go DEF CompleteHash, DigestMatches, Steps
    <3>2. CASE ~DigestMatches
      BY <1>2, <3>2, Return DEF CompleteHash
    <3>3. QED
      BY <3>1, <3>2
  <2>2. TypeOK'
    BY <1>0, <1>2, <2>1 DEF CompleteHash, TypeOK, Moved, Snaps, Kept
  <2>3. Rows' /\ Sweeping'
    BY <1>0, <1>2, <2>1 DEF CompleteHash, Rows, Sweeping, Gone, Handling
  <2>4. Handling(h)'
    BY <1>0, <1>2, <2>1 DEF CompleteHash, Handling, Appending, Fits, Moved
  <2>5. row \in {"aborted", "deleted"} => row' = row
    BY <1>0, <1>2, <2>1 DEF CompleteHash, Handling
  <2>6. pc[h] = "idle" => row # "none" \/ \A g \in Handlers : pc[g] = "idle"
    BY <1>2, <2>1 DEF CompleteHash
  <2>7. ASSUME ~overlapped' PROVE Alone' /\ SerialBytes' /\ (\A g \in Handlers : SerialStep(g))'
    <3>1. /\ sweep' = sweep
          /\ pc[h] # "idle" /\ overlapped' = overlapped
      BY <1>2, <2>1 DEF CompleteHash
    <3>2. /\ SerialBytes /\ SerialStep(h) /\ Alone' /\ sweep = "idle"
          /\ SerialStep(h)' => (\A g \in Handlers : SerialStep(g))'
      BY <2>1, <2>7, <3>1, Solo
    <3>3. SerialBytes'
      BY <1>0, <1>2, <2>1, <3>1, <3>2
      DEF CompleteHash, SerialBytes, SerialStep, Appending, Verified, Handling, Rows
    <3>4. SerialStep(h)'
      BY <1>0, <1>2, <2>1, <3>2 DEF CompleteHash, SerialStep, Appending, Verified, Handling
    <3>5. QED
      BY <3>2, <3>3, <3>4
  <2>8. QED
    BY <2>1, <2>2, <2>3, <2>4, <2>5, <2>6, <2>7, Beside DEF Serially
<1>3. CASE CompleteMime(h)
  <2>1. Moved(h) /\ pc[h] = "completeMime" /\ pc'[h] \in {"completeSeal", "idle"}
    <3>1. CASE exists /\ file # <<>> /\ Head(file) = Head(Expected)
      <4>1. /\ pc[h] = "completeMime" /\ pc' = [pc EXCEPT ![h] = "completeSeal"]
            /\ snap' = [snap EXCEPT ![h].intime = ~late]
        BY <1>3, <3>1 DEF CompleteMime
      <4>2. QED
        BY <4>1, ReadClock DEF Steps
    <3>2. CASE ~(exists /\ file # <<>> /\ Head(file) = Head(Expected))
      BY <1>3, <3>2, Return DEF CompleteMime
    <3>3. QED
      BY <3>1, <3>2
  <2>2. TypeOK'
    BY <1>0, <1>3, <2>1 DEF CompleteMime, TypeOK, Moved, Snaps, Kept
  <2>3. Rows' /\ Sweeping'
    BY <1>0, <1>3, <2>1 DEF CompleteMime, Rows, Sweeping, Gone, Handling
  <2>4. Handling(h)'
    BY <1>0, <1>3, <2>1 DEF CompleteMime, Handling, Appending, Fits, Moved
  <2>5. row \in {"aborted", "deleted"} => row' = row
    BY <1>0, <1>3, <2>1 DEF CompleteMime, Handling
  <2>6. pc[h] = "idle" => row # "none" \/ \A g \in Handlers : pc[g] = "idle"
    BY <1>3, <2>1 DEF CompleteMime
  <2>7. ASSUME ~overlapped' PROVE Alone' /\ SerialBytes' /\ (\A g \in Handlers : SerialStep(g))'
    <3>1. /\ sweep' = sweep
          /\ pc[h] # "idle" /\ overlapped' = overlapped
      BY <1>3, <2>1 DEF CompleteMime
    <3>2. /\ SerialBytes /\ SerialStep(h) /\ Alone' /\ sweep = "idle"
          /\ SerialStep(h)' => (\A g \in Handlers : SerialStep(g))'
      BY <2>1, <2>7, <3>1, Solo
    <3>3. SerialBytes'
      BY <1>0, <1>3, <2>1, <3>1, <3>2
      DEF CompleteMime, SerialBytes, SerialStep, Appending, Verified, Handling, Rows
    <3>4. SerialStep(h)'
      BY <1>0, <1>3, <2>1, <3>2 DEF CompleteMime, SerialStep, Appending, Verified, Handling
    <3>5. QED
      BY <3>2, <3>3, <3>4
  <2>8. QED
    BY <2>1, <2>2, <2>3, <2>4, <2>5, <2>6, <2>7, Beside DEF Serially
<1>4. CASE CompleteUpload(h)
  <2>1. /\ Moved(h) /\ pc[h] = "completeSeal" /\ pc'[h] = "idle"
        /\ \/ row = "open" /\ row' = "completed" /\ lease' = "active"
           \/ row' = row /\ lease' = lease
    BY <1>4, Return DEF CompleteUpload, Seals
  <2>2. TypeOK'
    BY <1>0, <1>4, <2>1 DEF CompleteUpload, Seals, TypeOK, Moved, Snaps, Kept
  <2>3. Rows' /\ Sweeping'
    BY <1>0, <1>4, <2>1 DEF CompleteUpload, Seals, Rows, Sweeping, Gone, Handling
  <2>4. Handling(h)'
    BY <1>0, <1>4, <2>1 DEF CompleteUpload, Seals, Handling, Appending, Fits, Moved
  <2>5. row \in {"aborted", "deleted"} => row' = row
    BY <1>0, <1>4, <2>1 DEF CompleteUpload, Seals, Handling
  <2>6. pc[h] = "idle" => row # "none" \/ \A g \in Handlers : pc[g] = "idle"
    BY <1>4, <2>1 DEF CompleteUpload, Seals
  <2>7. ASSUME ~overlapped' PROVE Alone' /\ SerialBytes' /\ (\A g \in Handlers : SerialStep(g))'
    <3>1. /\ sweep' = sweep
          /\ pc[h] # "idle" /\ overlapped' = overlapped
      BY <1>4, <2>1 DEF CompleteUpload, Seals
    <3>2. /\ SerialBytes /\ SerialStep(h) /\ Alone' /\ sweep = "idle"
          /\ SerialStep(h)' => (\A g \in Handlers : SerialStep(g))'
      BY <2>1, <2>7, <3>1, Solo
    <3>3. SerialBytes'
      BY <1>0, <1>4, <2>1, <3>1, <3>2
      DEF CompleteUpload, Seals, SerialBytes, SerialStep, Appending, Verified, Handling,
          Rows
    <3>4. SerialStep(h)'
      BY <1>0, <1>4, <2>1, <3>2
      DEF CompleteUpload, Seals, SerialStep, Appending, Verified, Handling
    <3>5. QED
      BY <3>2, <3>3, <3>4
  <2>8. QED
    BY <2>1, <2>2, <2>3, <2>4, <2>5, <2>6, <2>7, Beside DEF Serially
<1>5. QED
  BY <1>1, <1>2, <1>3, <1>4

-----------------------------------------------------------------------------
(* Cancel, and any request that fails half-way. *)

LEMMA InvCancel ==
  ASSUME MediaInv, NEW h \in Handlers,
         CancelStart(h) \/ AbortOpen(h) \/ CancelReread(h) \/ CancelRemove(h) \/ RequestFails(h)
  PROVE  MediaInv'
<1> USE DEF MediaInv, upload, clock, disk, sweeper, history
<1>0. Handling(h) /\ snap[h] \in Snaps /\ Len(file) \in Nat /\ received \in Nat
  BY TotalFacts DEF TypeOK, Snaps
<1>1. CASE CancelStart(h)
  <2>1. /\ Moved(h) /\ pc[h] = "idle"
        /\ \/ pc'[h] = "cancelAbort" /\ row = "open"
           \/ pc'[h] = "cancelRemove" /\ row = "aborted"
        /\ overlapped' \in BOOLEAN /\ Begins
    BY <1>1, Start, SnapFacts DEF CancelStart, OpenOwned, Steps, Starts
  <2>2. TypeOK'
    BY <1>0, <1>1, <2>1
    DEF CancelStart, OpenOwned, Steps, Starts, TypeOK, Moved, Snaps, Kept
  <2>3. Rows' /\ Sweeping'
    BY <1>0, <1>1, <2>1
    DEF CancelStart, OpenOwned, Steps, Starts, Rows, Sweeping, Gone, Handling
  <2>4. Handling(h)'
    BY <1>0, <1>1, <2>1
    DEF CancelStart, OpenOwned, Steps, Starts, Handling, Appending, Fits, Moved
  <2>5. row \in {"aborted", "deleted"} => row' = row
    BY <1>0, <1>1, <2>1 DEF CancelStart, OpenOwned, Steps, Starts, Handling
  <2>6. pc[h] = "idle" => row # "none" \/ \A g \in Handlers : pc[g] = "idle"
    BY <1>1, <2>1 DEF CancelStart, OpenOwned, Steps, Starts
  <2>7. ASSUME ~overlapped' PROVE Alone' /\ SerialBytes' /\ (\A g \in Handlers : SerialStep(g))'
    <3>1. /\ sweep' = sweep
          /\ Begins
      BY <1>1, <2>1 DEF CancelStart, OpenOwned, Steps, Starts
    <3>2. /\ SerialBytes /\ SerialStep(h) /\ Alone' /\ sweep = "idle"
          /\ SerialStep(h)' => (\A g \in Handlers : SerialStep(g))'
      BY <2>1, <2>7, <3>1, Solo
    <3>3. SerialBytes'
      BY <1>0, <1>1, <2>1, <3>1, <3>2
      DEF CancelStart, OpenOwned, Steps, Starts, SerialBytes, SerialStep, Appending,
          Verified, Handling, Rows
    <3>4. SerialStep(h)'
      BY <1>0, <1>1, <2>1, <3>2
      DEF CancelStart, OpenOwned, Steps, Starts, SerialStep, Appending, Verified, Handling
    <3>5. QED
      BY <3>2, <3>3, <3>4
  <2>8. QED
    BY <2>1, <2>2, <2>3, <2>4, <2>5, <2>6, <2>7, Beside DEF Serially
<1>2. CASE AbortOpen(h)
  <2>1. /\ Moved(h) /\ pc[h] = "cancelAbort"
        /\ \/ pc'[h] = "cancelRemove" /\ row = "open" /\ row' = "aborted"
           \/ pc'[h] = "cancelReread" /\ row' = row
    BY <1>2, Go DEF AbortOpen, Steps
  <2>2. TypeOK'
    BY <1>0, <1>2, <2>1 DEF AbortOpen, Steps, TypeOK, Moved, Snaps, Kept
  <2>3. Rows' /\ Sweeping'
    BY <1>0, <1>2, <2>1 DEF AbortOpen, Steps, Rows, Sweeping, Gone, Handling
  <2>4. Handling(h)'
    BY <1>0, <1>2, <2>1 DEF AbortOpen, Steps, Handling, Appending, Fits, Moved
  <2>5. row \in {"aborted", "deleted"} => row' = row
    BY <1>0, <1>2, <2>1 DEF AbortOpen, Steps, Handling
  <2>6. pc[h] = "idle" => row # "none" \/ \A g \in Handlers : pc[g] = "idle"
    BY <1>2, <2>1 DEF AbortOpen, Steps
  <2>7. ASSUME ~overlapped' PROVE Alone' /\ SerialBytes' /\ (\A g \in Handlers : SerialStep(g))'
    <3>1. /\ sweep' = sweep
          /\ pc[h] # "idle" /\ overlapped' = overlapped
      BY <1>2, <2>1 DEF AbortOpen, Steps
    <3>2. /\ SerialBytes /\ SerialStep(h) /\ Alone' /\ sweep = "idle"
          /\ SerialStep(h)' => (\A g \in Handlers : SerialStep(g))'
      BY <2>1, <2>7, <3>1, Solo
    <3>3. SerialBytes'
      BY <1>0, <1>2, <2>1, <3>1, <3>2
      DEF AbortOpen, Steps, SerialBytes, SerialStep, Appending, Verified, Handling, Rows
    <3>4. SerialStep(h)'
      BY <1>0, <1>2, <2>1, <3>2
      DEF AbortOpen, Steps, SerialStep, Appending, Verified, Handling
    <3>5. QED
      BY <3>2, <3>3, <3>4
  <2>8. QED
    BY <2>1, <2>2, <2>3, <2>4, <2>5, <2>6, <2>7, Beside DEF Serially
<1>3. CASE CancelReread(h)
  <2>1. /\ Moved(h) /\ pc[h] = "cancelReread"
        /\ \/ pc'[h] = "cancelRemove" /\ row = "aborted"
           \/ pc'[h] = "idle"
    <3>1. CASE row = "aborted"
      BY <1>3, <3>1, Go DEF CancelReread, Steps
    <3>2. CASE row # "aborted"
      BY <1>3, <3>2, Return DEF CancelReread
    <3>3. QED
      BY <3>1, <3>2
  <2>2. TypeOK'
    BY <1>0, <1>3, <2>1 DEF CancelReread, TypeOK, Moved, Snaps, Kept
  <2>3. Rows' /\ Sweeping'
    BY <1>0, <1>3, <2>1 DEF CancelReread, Rows, Sweeping, Gone, Handling
  <2>4. Handling(h)'
    BY <1>0, <1>3, <2>1 DEF CancelReread, Handling, Appending, Fits, Moved
  <2>5. row \in {"aborted", "deleted"} => row' = row
    BY <1>0, <1>3, <2>1 DEF CancelReread, Handling
  <2>6. pc[h] = "idle" => row # "none" \/ \A g \in Handlers : pc[g] = "idle"
    BY <1>3, <2>1 DEF CancelReread
  <2>7. ASSUME ~overlapped' PROVE Alone' /\ SerialBytes' /\ (\A g \in Handlers : SerialStep(g))'
    <3>1. /\ sweep' = sweep
          /\ pc[h] # "idle" /\ overlapped' = overlapped
      BY <1>3, <2>1 DEF CancelReread
    <3>2. /\ SerialBytes /\ SerialStep(h) /\ Alone' /\ sweep = "idle"
          /\ SerialStep(h)' => (\A g \in Handlers : SerialStep(g))'
      BY <2>1, <2>7, <3>1, Solo
    <3>3. SerialBytes'
      BY <1>0, <1>3, <2>1, <3>1, <3>2
      DEF CancelReread, SerialBytes, SerialStep, Appending, Verified, Handling, Rows
    <3>4. SerialStep(h)'
      BY <1>0, <1>3, <2>1, <3>2 DEF CancelReread, SerialStep, Appending, Verified, Handling
    <3>5. QED
      BY <3>2, <3>3, <3>4
  <2>8. QED
    BY <2>1, <2>2, <2>3, <2>4, <2>5, <2>6, <2>7, Beside DEF Serially
<1>4. CASE CancelRemove(h)
  <2>1. Moved(h) /\ pc[h] = "cancelRemove" /\ pc'[h] = "idle" /\ Kept /\ ~exists'
    BY <1>4, Return, Removed DEF CancelRemove
  <2>2. TypeOK'
    BY <1>0, <1>4, <2>1 DEF CancelRemove, TypeOK, Moved, Snaps, Kept
  <2>3. Rows' /\ Sweeping'
    BY <1>0, <1>4, <2>1 DEF CancelRemove, Rows, Sweeping, Gone, Handling
  <2>4. Handling(h)'
    BY <1>0, <1>4, <2>1 DEF CancelRemove, Handling, Appending, Fits, Moved
  <2>5. row \in {"aborted", "deleted"} => row' = row
    BY <1>0, <1>4, <2>1 DEF CancelRemove, Handling
  <2>6. pc[h] = "idle" => row # "none" \/ \A g \in Handlers : pc[g] = "idle"
    BY <1>4, <2>1 DEF CancelRemove
  <2>7. ASSUME ~overlapped' PROVE Alone' /\ SerialBytes' /\ (\A g \in Handlers : SerialStep(g))'
    <3>1. /\ sweep' = sweep
          /\ pc[h] # "idle" /\ overlapped' = overlapped
      BY <1>4, <2>1 DEF CancelRemove
    <3>2. /\ SerialBytes /\ SerialStep(h) /\ Alone' /\ sweep = "idle"
          /\ SerialStep(h)' => (\A g \in Handlers : SerialStep(g))'
      BY <2>1, <2>7, <3>1, Solo
    <3>3. SerialBytes'
      BY <1>0, <1>4, <2>1, <3>1, <3>2
      DEF CancelRemove, SerialBytes, SerialStep, Appending, Verified, Handling, Rows
    <3>4. SerialStep(h)'
      BY <1>0, <1>4, <2>1, <3>2 DEF CancelRemove, SerialStep, Appending, Verified, Handling
    <3>5. QED
      BY <3>2, <3>3, <3>4
  <2>8. QED
    BY <2>1, <2>2, <2>3, <2>4, <2>5, <2>6, <2>7, Beside DEF Serially
<1>5. CASE RequestFails(h)
  <2>1. Moved(h) /\ pc[h] # "idle" /\ pc'[h] = "idle"
    BY <1>5, Return DEF RequestFails
  <2>2. TypeOK'
    BY <1>0, <1>5, <2>1 DEF RequestFails, TypeOK, Moved, Snaps, Kept
  <2>3. Rows' /\ Sweeping'
    BY <1>0, <1>5, <2>1 DEF RequestFails, Rows, Sweeping, Gone, Handling
  <2>4. Handling(h)'
    BY <1>0, <1>5, <2>1 DEF RequestFails, Handling, Appending, Fits, Moved
  <2>5. row \in {"aborted", "deleted"} => row' = row
    BY <1>0, <1>5, <2>1 DEF RequestFails, Handling
  <2>6. pc[h] = "idle" => row # "none" \/ \A g \in Handlers : pc[g] = "idle"
    BY <1>5, <2>1 DEF RequestFails
  <2>7. ASSUME ~overlapped' PROVE Alone' /\ SerialBytes' /\ (\A g \in Handlers : SerialStep(g))'
    <3>1. /\ sweep' = sweep
          /\ pc[h] # "idle" /\ overlapped' = overlapped
      BY <1>5, <2>1 DEF RequestFails
    <3>2. /\ SerialBytes /\ SerialStep(h) /\ Alone' /\ sweep = "idle"
          /\ SerialStep(h)' => (\A g \in Handlers : SerialStep(g))'
      BY <2>1, <2>7, <3>1, Solo
    <3>3. SerialBytes'
      BY <1>0, <1>5, <2>1, <3>1, <3>2
      DEF RequestFails, SerialBytes, SerialStep, Appending, Verified, Handling, Rows
    <3>4. SerialStep(h)'
      BY <1>0, <1>5, <2>1, <3>2 DEF RequestFails, SerialStep, Appending, Verified, Handling
    <3>5. QED
      BY <3>2, <3>3, <3>4
  <2>8. QED
    BY <2>1, <2>2, <2>3, <2>4, <2>5, <2>6, <2>7, Beside DEF Serially
<1>6. QED
  BY <1>1, <1>2, <1>3, <1>4, <1>5

-----------------------------------------------------------------------------
(* Recover. *)

LEMMA InvSweep ==
  ASSUME MediaInv, Sweep \/ SweepFails
  PROVE  MediaInv'
<1> USE DEF MediaInv, upload, clock, disk, sweeper, history, SweepGoes
<1>0. Len(file) \in Nat /\ received \in Nat /\ swept \in Offsets
  BY TotalFacts DEF TypeOK
<1>1. CASE SweepExpire
  <2>1. /\ UNCHANGED handlers
        /\ Begins
    BY <1>1 DEF SweepExpire
  <2>2. TypeOK'
    BY <1>1, <2>1 DEF SweepExpire, TypeOK, Kept, handlers, Begins
  <2>3. Rows' /\ Sweeping'
    BY <1>1, <2>1 DEF SweepExpire, Rows, Sweeping, Gone
  <2>4. (\A g \in Handlers : Handling(g))'
    <3>1. row = "none" => row' = "none" /\ exists' = exists
      BY <1>1, <2>1 DEF SweepExpire, Rows, Sweeping, Gone
    <3>2. row \in {"aborted", "deleted"} => row' \in {"aborted", "deleted"}
      BY <1>1, <2>1 DEF SweepExpire
    <3>3. QED
      BY <2>1, <3>1, <3>2, Around
  <2>5. ASSUME ~overlapped' PROVE Alone' /\ SerialBytes' /\ (\A g \in Handlers : SerialStep(g))'
    <3>1. SerialBytes /\ Alone' /\ (\A g \in Handlers : SerialStep(g))'
      BY <2>1, <2>5, SoloSweep
    <3>2. SerialBytes'
      BY <1>0, <1>1, <2>1, <3>1 DEF SweepExpire, SerialBytes, Rows, Sweeping, Gone
    <3>3. QED
      BY <3>1, <3>2
  <2>6. QED
    BY <2>2, <2>3, <2>4, <2>5 DEF Serially
<1>2. CASE SweepOpenUploads
  <2>1. /\ UNCHANGED handlers
        /\ sweep # "idle" /\ overlapped' = overlapped
    BY <1>2 DEF SweepOpenUploads
  <2>2. TypeOK'
    BY <1>2, <2>1, TotalFacts DEF SweepOpenUploads, TypeOK, Kept, handlers, Begins
  <2>3. Rows' /\ Sweeping'
    BY <1>2, <2>1 DEF SweepOpenUploads, Rows, Sweeping, Gone
  <2>4. (\A g \in Handlers : Handling(g))'
    <3>1. row = "none" => row' = "none" /\ exists' = exists
      BY <1>2, <2>1 DEF SweepOpenUploads, Rows, Sweeping, Gone
    <3>2. row \in {"aborted", "deleted"} => row' \in {"aborted", "deleted"}
      BY <1>2, <2>1 DEF SweepOpenUploads
    <3>3. QED
      BY <2>1, <3>1, <3>2, Around
  <2>5. ASSUME ~overlapped' PROVE Alone' /\ SerialBytes' /\ (\A g \in Handlers : SerialStep(g))'
    <3>1. SerialBytes /\ Alone' /\ (\A g \in Handlers : SerialStep(g))'
      BY <2>1, <2>5, SoloSweep
    <3>2. SerialBytes'
      BY <1>0, <1>2, <2>1, <3>1 DEF SweepOpenUploads, SerialBytes, Rows, Sweeping, Gone
    <3>3. QED
      BY <3>1, <3>2
  <2>6. QED
    BY <2>2, <2>3, <2>4, <2>5 DEF Serially
<1>3. CASE SweepSize
  <2>1. /\ UNCHANGED handlers
        /\ sweep # "idle" /\ overlapped' = overlapped
    BY <1>3 DEF SweepSize
  <2>2. TypeOK'
    BY <1>3, <2>1 DEF SweepSize, TypeOK, Kept, handlers, Begins
  <2>3. Rows' /\ Sweeping'
    BY <1>3, <2>1 DEF SweepSize, Rows, Sweeping, Gone
  <2>4. (\A g \in Handlers : Handling(g))'
    <3>1. row = "none" => row' = "none" /\ exists' = exists
      BY <1>3, <2>1 DEF SweepSize, Rows, Sweeping, Gone
    <3>2. row \in {"aborted", "deleted"} => row' \in {"aborted", "deleted"}
      BY <1>3, <2>1 DEF SweepSize
    <3>3. QED
      BY <2>1, <3>1, <3>2, Around
  <2>5. ASSUME ~overlapped' PROVE Alone' /\ SerialBytes' /\ (\A g \in Handlers : SerialStep(g))'
    <3>1. SerialBytes /\ Alone' /\ (\A g \in Handlers : SerialStep(g))'
      BY <2>1, <2>5, SoloSweep
    <3>2. SerialBytes'
      BY <1>0, <1>3, <2>1, <3>1 DEF SweepSize, SerialBytes, Rows, Sweeping, Gone
    <3>3. QED
      BY <3>1, <3>2
  <2>6. QED
    BY <2>2, <2>3, <2>4, <2>5 DEF Serially
<1>4. CASE SweepExpireOpen
  <2>1. /\ UNCHANGED handlers
        /\ sweep # "idle" /\ overlapped' = overlapped
    BY <1>4 DEF SweepExpireOpen
  <2>2. TypeOK'
    BY <1>4, <2>1 DEF SweepExpireOpen, TypeOK, Kept, handlers, Begins
  <2>3. Rows' /\ Sweeping'
    BY <1>4, <2>1 DEF SweepExpireOpen, Rows, Sweeping, Gone
  <2>4. (\A g \in Handlers : Handling(g))'
    <3>1. row = "none" => row' = "none" /\ exists' = exists
      BY <1>4, <2>1 DEF SweepExpireOpen, Rows, Sweeping, Gone
    <3>2. row \in {"aborted", "deleted"} => row' \in {"aborted", "deleted"}
      BY <1>4, <2>1 DEF SweepExpireOpen
    <3>3. QED
      BY <2>1, <3>1, <3>2, Around
  <2>5. ASSUME ~overlapped' PROVE Alone' /\ SerialBytes' /\ (\A g \in Handlers : SerialStep(g))'
    <3>1. SerialBytes /\ Alone' /\ (\A g \in Handlers : SerialStep(g))'
      BY <2>1, <2>5, SoloSweep
    <3>2. SerialBytes'
      BY <1>0, <1>4, <2>1, <3>1 DEF SweepExpireOpen, SerialBytes, Rows, Sweeping, Gone
    <3>3. QED
      BY <3>1, <3>2
  <2>6. QED
    BY <2>2, <2>3, <2>4, <2>5 DEF Serially
<1>5. CASE SweepTruncate
  <2>1. /\ UNCHANGED handlers
        /\ sweep # "idle" /\ overlapped' = overlapped
        /\ Kept /\ exists' = exists
        /\ sweep = "truncate" /\ sweep' \in {"list", "idle"}
        /\ Len(file') = swept \/ file' = file
    <3>1. CASE CanTruncate(swept)
      <4>1. PICK n \in Offsets : n = swept
        BY <1>0
      <4>2. CanTruncate(n) /\ Truncate(n) /\ sweep = "truncate" /\ sweep' = "list"
        BY <1>5, <3>1, <4>1 DEF SweepTruncate
      <4>3. Kept /\ exists' = exists /\ Len(file') = n
        BY <4>2, Truncated
      <4>4. QED
        BY <1>5, <4>1, <4>2, <4>3 DEF SweepTruncate
    <3>2. CASE ~CanTruncate(swept)
      BY <1>5, <3>2 DEF SweepTruncate, Kept, TypeOK
    <3>3. QED
      BY <3>1, <3>2
  <2>2. TypeOK'
    BY <1>5, <2>1 DEF SweepTruncate, TypeOK, Kept, handlers, Begins
  <2>3. Rows' /\ Sweeping'
    BY <1>5, <2>1 DEF SweepTruncate, Rows, Sweeping, Gone
  <2>4. (\A g \in Handlers : Handling(g))'
    <3>1. row = "none" => row' = "none" /\ exists' = exists
      BY <1>5, <2>1 DEF SweepTruncate, Rows, Sweeping, Gone
    <3>2. row \in {"aborted", "deleted"} => row' \in {"aborted", "deleted"}
      BY <1>5, <2>1 DEF SweepTruncate
    <3>3. QED
      BY <2>1, <3>1, <3>2, Around
  <2>5. ASSUME ~overlapped' PROVE Alone' /\ SerialBytes' /\ (\A g \in Handlers : SerialStep(g))'
    <3>1. SerialBytes /\ Alone' /\ (\A g \in Handlers : SerialStep(g))'
      BY <2>1, <2>5, SoloSweep
    <3>2. SerialBytes'
      BY <1>0, <1>5, <2>1, <3>1 DEF SweepTruncate, SerialBytes, Rows, Sweeping, Gone
    <3>3. QED
      BY <3>1, <3>2
  <2>6. QED
    BY <2>2, <2>3, <2>4, <2>5 DEF Serially
<1>6. CASE SweepList
  <2>1. /\ UNCHANGED handlers
        /\ sweep # "idle" /\ overlapped' = overlapped
    BY <1>6 DEF SweepList, Retired
  <2>2. TypeOK'
    BY <1>6, <2>1 DEF SweepList, Retired, TypeOK, Kept, handlers, Begins
  <2>3. Rows' /\ Sweeping'
    BY <1>6, <2>1 DEF SweepList, Retired, Rows, Sweeping, Gone
  <2>4. (\A g \in Handlers : Handling(g))'
    <3>1. row = "none" => row' = "none" /\ exists' = exists
      BY <1>6, <2>1 DEF SweepList, Retired, Rows, Sweeping, Gone
    <3>2. row \in {"aborted", "deleted"} => row' \in {"aborted", "deleted"}
      BY <1>6, <2>1 DEF SweepList, Retired
    <3>3. QED
      BY <2>1, <3>1, <3>2, Around
  <2>5. ASSUME ~overlapped' PROVE Alone' /\ SerialBytes' /\ (\A g \in Handlers : SerialStep(g))'
    <3>1. SerialBytes /\ Alone' /\ (\A g \in Handlers : SerialStep(g))'
      BY <2>1, <2>5, SoloSweep
    <3>2. SerialBytes'
      BY <1>0, <1>6, <2>1, <3>1 DEF SweepList, Retired, SerialBytes, Rows, Sweeping, Gone
    <3>3. QED
      BY <3>1, <3>2
  <2>6. QED
    BY <2>2, <2>3, <2>4, <2>5 DEF Serially
<1>7. CASE SweepRemove
  <2>1. /\ UNCHANGED handlers
        /\ sweep # "idle" /\ overlapped' = overlapped
        /\ Kept /\ ~exists'
    BY <1>7, Removed DEF SweepRemove
  <2>2. TypeOK'
    BY <1>7, <2>1 DEF SweepRemove, TypeOK, Kept, handlers, Begins
  <2>3. Rows' /\ Sweeping'
    BY <1>7, <2>1 DEF SweepRemove, Rows, Sweeping, Gone
  <2>4. (\A g \in Handlers : Handling(g))'
    <3>1. row = "none" => row' = "none" /\ exists' = exists
      BY <1>7, <2>1 DEF SweepRemove, Rows, Sweeping, Gone
    <3>2. row \in {"aborted", "deleted"} => row' \in {"aborted", "deleted"}
      BY <1>7, <2>1 DEF SweepRemove
    <3>3. QED
      BY <2>1, <3>1, <3>2, Around
  <2>5. ASSUME ~overlapped' PROVE Alone' /\ SerialBytes' /\ (\A g \in Handlers : SerialStep(g))'
    <3>1. SerialBytes /\ Alone' /\ (\A g \in Handlers : SerialStep(g))'
      BY <2>1, <2>5, SoloSweep
    <3>2. SerialBytes'
      BY <1>0, <1>7, <2>1, <3>1 DEF SweepRemove, SerialBytes, Rows, Sweeping, Gone
    <3>3. QED
      BY <3>1, <3>2
  <2>6. QED
    BY <2>2, <2>3, <2>4, <2>5 DEF Serially
<1>8. CASE SweepAck
  <2>1. /\ UNCHANGED handlers
        /\ sweep # "idle" /\ overlapped' = overlapped
    BY <1>8 DEF SweepAck
  <2>2. TypeOK'
    BY <1>8, <2>1 DEF SweepAck, TypeOK, Kept, handlers, Begins
  <2>3. Rows' /\ Sweeping'
    BY <1>8, <2>1 DEF SweepAck, Rows, Sweeping, Gone
  <2>4. (\A g \in Handlers : Handling(g))'
    <3>1. row = "none" => row' = "none" /\ exists' = exists
      BY <1>8, <2>1 DEF SweepAck, Rows, Sweeping, Gone
    <3>2. row \in {"aborted", "deleted"} => row' \in {"aborted", "deleted"}
      BY <1>8, <2>1 DEF SweepAck
    <3>3. QED
      BY <2>1, <3>1, <3>2, Around
  <2>5. ASSUME ~overlapped' PROVE Alone' /\ SerialBytes' /\ (\A g \in Handlers : SerialStep(g))'
    <3>1. SerialBytes /\ Alone' /\ (\A g \in Handlers : SerialStep(g))'
      BY <2>1, <2>5, SoloSweep
    <3>2. SerialBytes'
      BY <1>0, <1>8, <2>1, <3>1 DEF SweepAck, SerialBytes, Rows, Sweeping, Gone
    <3>3. QED
      BY <3>1, <3>2
  <2>6. QED
    BY <2>2, <2>3, <2>4, <2>5 DEF Serially
<1>9. CASE SweepFails
  <2>1. /\ UNCHANGED handlers
        /\ sweep # "idle" /\ overlapped' = overlapped
    BY <1>9 DEF SweepFails
  <2>2. TypeOK'
    BY <1>9, <2>1 DEF SweepFails, TypeOK, Kept, handlers, Begins
  <2>3. Rows' /\ Sweeping'
    BY <1>9, <2>1 DEF SweepFails, Rows, Sweeping, Gone
  <2>4. (\A g \in Handlers : Handling(g))'
    <3>1. row = "none" => row' = "none" /\ exists' = exists
      BY <1>9, <2>1 DEF SweepFails, Rows, Sweeping, Gone
    <3>2. row \in {"aborted", "deleted"} => row' \in {"aborted", "deleted"}
      BY <1>9, <2>1 DEF SweepFails
    <3>3. QED
      BY <2>1, <3>1, <3>2, Around
  <2>5. ASSUME ~overlapped' PROVE Alone' /\ SerialBytes' /\ (\A g \in Handlers : SerialStep(g))'
    <3>1. SerialBytes /\ Alone' /\ (\A g \in Handlers : SerialStep(g))'
      BY <2>1, <2>5, SoloSweep
    <3>2. SerialBytes'
      BY <1>0, <1>9, <2>1, <3>1 DEF SweepFails, SerialBytes, Rows, Sweeping, Gone
    <3>3. QED
      BY <3>1, <3>2
  <2>6. QED
    BY <2>2, <2>3, <2>4, <2>5 DEF Serially
<1>10. QED
  BY <1>1, <1>2, <1>3, <1>4, <1>5, <1>6, <1>7, <1>8, <1>9 DEF Sweep

-----------------------------------------------------------------------------
(* The surroundings. *)

LEMMA InvSurroundings ==
  ASSUME MediaInv, RevokeLease \/ UploadExpires \/ LeaseExpires
  PROVE  MediaInv'
<1> USE DEF MediaInv, upload, clock, disk, sweeper, history
<1>1. /\ UNCHANGED <<row, received, exists, file, pc, snap, sweep, swept, cancelled, overlapped>>
      /\ lease' = lease \/ (lease = "active" /\ lease' = "expired")
      /\ late' \in BOOLEAN /\ leaseLate' \in BOOLEAN
  BY DEF RevokeLease, UploadExpires, LeaseExpires, TypeOK, handlers
<1>2. TypeOK'
  BY <1>1 DEF TypeOK
<1>3. Rows' /\ Sweeping'
  BY <1>1 DEF Rows, Sweeping, Gone
<1>4. (\A g \in Handlers : Handling(g))'
  BY <1>1, Around DEF handlers
<1>5. Serially'
  BY <1>1 DEF Serially, Alone, SerialBytes, SerialStep
<1>6. QED
  BY <1>2, <1>3, <1>4, <1>5

LEMMA InvCrash ==
  ASSUME MediaInv, Crash
  PROVE  MediaInv'
<1> USE DEF MediaInv, upload, clock, disk, sweeper, history
<1>1. snap' \in [Handlers -> Snaps]
  BY SnapFacts DEF Crash
<1>2. TypeOK'
  BY <1>1 DEF Crash, TypeOK, Snaps, Steps
<1>3. Rows' /\ Sweeping'
  BY DEF Crash, Rows, Sweeping
<1>4. (\A g \in Handlers : Handling(g))'
  BY DEF Crash, Handling, Appending
<1>5. Serially'
  BY DEF Crash, Serially, Alone, SerialBytes, SerialStep, Appending, Verified
<1>6. QED
  BY <1>2, <1>3, <1>4, <1>5

LEMMA InvNext == MediaInv /\ [Next]_vars => MediaInv'
<1> SUFFICES ASSUME MediaInv, [Next]_vars PROVE MediaInv'
  OBVIOUS
<1>1. CASE UNCHANGED vars
  <2> USE <1>1 DEF vars, upload, clock, disk, handlers, sweeper, history, MediaInv
  <2>1. TypeOK'
    BY DEF TypeOK
  <2>2. Rows' /\ Sweeping'
    BY DEF Rows, Sweeping, Gone
  <2>3. (\A g \in Handlers : Handling(g))'
    BY Around
  <2>4. Serially'
    BY DEF Serially, Alone, SerialBytes, SerialStep
  <2>5. QED
    BY <2>1, <2>2, <2>3, <2>4
<1>2. CASE Next
  BY <1>2, InvCreate, InvAppend, InvComplete, InvCancel, InvSweep, InvSurroundings, InvCrash
  DEF Next, Request
<1>3. QED
  BY <1>1, <1>2

LEMMA Invariant == Spec => []MediaInv
  BY InvInit, InvNext, PTL DEF Spec

-----------------------------------------------------------------------------
(***************************************************************************)
(* Row, lease and file agree at every moment, whichever requests, sweeps   *)
(* and crashes interleave: an active lease has its file, and what the      *)
(* sweeper has acknowledged never gets its bytes back.                     *)
(***************************************************************************)
THEOREM StagingIsConsistent == Spec => []StagingConsistent
<1>1. MediaInv => StagingConsistent
  BY DEF MediaInv, Rows, StagingConsistent, ActiveLeaseHasFile, NoBytesWithoutOwner
<1>2. QED
  BY <1>1, Invariant, PTL

(***************************************************************************)
(* A Cancel that answered success is final: no Append or Complete racing   *)
(* it ever issues a lease for the upload.                                  *)
(***************************************************************************)
THEOREM CancelsAreFinal == Spec => []CancelIsFinal
<1>1. MediaInv => CancelIsFinal
  BY DEF MediaInv, Rows, CancelIsFinal
<1>2. QED
  BY <1>1, Invariant, PTL

(***************************************************************************)
(* Without overlapping requests the staged bytes are safe, whatever the    *)
(* chunks and wherever crashes, failed writes and repairs fall: the cursor *)
(* stays within the file, and a lease has exactly the verified bytes.      *)
(***************************************************************************)
THEOREM SerialUseIsSafe == Spec => []SerialUseKeepsBytes
<1>1. MediaInv => SerialUseKeepsBytes
  BY DEF MediaInv, Rows, Serially, SerialBytes, SerialUseKeepsBytes, CursorWithinFile,
         ActiveLeaseIntact
<1>2. QED
  BY <1>1, Invariant, PTL

(***************************************************************************)
(* AdvanceReceived's compare-and-set makes received_bytes a cursor: it     *)
(* only moves forward and only while the upload is open, however many      *)
(* Appends race at one offset.                                             *)
(***************************************************************************)
THEOREM CursorOnlyAdvances == Spec => CursorMonotone
<1>1. ASSUME MediaInv, [Next]_vars, received' # received
      PROVE  received' > received /\ row = "open" /\ row' = "open"
  <2> USE <1>1 DEF upload, clock, disk, handlers, sweeper, history
  <2>1. PICK h \in Handlers : AdvanceReceived(h)
    BY DEF vars, Next, Request, Sweep, CreateFile, CreateUpload, CreateFails, CreateUndo,
       AppendStart, AppendSize, AppendRepair, AppendWrite, AppendWriteFails, AdvanceFails,
       AppendUndo, CompleteStart, CompleteHash, CompleteMime, CompleteUpload, CancelStart,
       AbortOpen, CancelReread, CancelRemove, RequestFails, SweepExpire, SweepOpenUploads,
       SweepSize, SweepExpireOpen, SweepTruncate, SweepList, SweepRemove, SweepAck, SweepFails,
       RevokeLease, UploadExpires, LeaseExpires, Crash
  <2>2. Advances(h) /\ received' = snap[h].received + Len(snap[h].chunk) /\ pc[h] = "appendCursor"
    BY <2>1 DEF AdvanceReceived, Returns
  <2>3. snap[h].chunk \in Chunks /\ received \in Nat
    BY <2>2, TotalFacts DEF MediaInv, Handling, Appending, TypeOK
  <2>4. Len(snap[h].chunk) \in Nat \ {0}
    BY <2>3, TotalFacts
  <2>5. QED
    BY <2>1, <2>2, <2>3, <2>4 DEF AdvanceReceived, Advances
<1>2. MediaInv /\ [Next]_vars =>
        [received' # received => received' > received /\ row = "open" /\ row' = "open"]_vars
  BY <1>1
<1>3. QED
  BY <1>2, Invariant, PTL DEF Spec, CursorMonotone
=============================================================================
