-------------------------- MODULE AsyncFileProofs --------------------------
(***************************************************************************)
(* Proofs about AsyncFile, for every buffer size and every set of calls,   *)
(* and about ThreadPool, on whose workers its tasks run, for any number of *)
(* workers and tasks.                                                      *)
(***************************************************************************)
EXTENDS AsyncFile, ThreadPool, SequenceTheorems, TLAPS

-----------------------------------------------------------------------------
(* The writer. *)

(* The type of the buffers, in the form the steps below use it. *)
LEMMA BufferTypes ==
  ASSUME TypeOK, NEW i \in {0, 1}
  PROVE  /\ bufs[i] \in [offset : Nat, data : Seq(Nat)]
         /\ bufs[i].offset \in Nat
         /\ bufs[i].data \in Seq(Nat)
         /\ Len(bufs[i].data) \in Nat
         /\ Len(bufs[i].data) <= BufferSize
<1>1. bufs[i] \in [offset : Nat, data : Seq(Nat)] /\ Len(bufs[i].data) <= BufferSize
  BY DEF TypeOK, Buffers, Indices
<1> QED
  BY <1>1, LenProperties

LEMMA LogTypes ==
  ASSUME TypeOK
  PROVE  /\ Len(accepted) \in Nat /\ Len(written) \in Nat
         /\ accepted \in Seq(Nat \X Nat) /\ written \in Seq(Nat \X Nat)
  BY LenProperties DEF TypeOK

LEMMA PendingLeftType ==
  ASSUME TypeOK, ControlInv
  PROVE  PendingLeft \in Nat
  BY BufferTypes DEF TypeOK, ControlInv, PendingLeft, Indices, None

LEMMA InitIInv == Init => IInv
<1> SUFFICES ASSUME Init PROVE IInv
  OBVIOUS
<1> USE DEF Init, Indices, None, EmptyBuffer
<1>1. TypeOK
  BY AsyncFileAssumption DEF TypeOK, Ops, Pcs, Buffers
<1>2. ControlInv
  BY DEF ControlInv
<1>3. LogInv
  BY DEF LogInv, PendingLeft
<1>4. ReturnIsTrue
  BY DEF ReturnIsTrue
<1> QED
  BY <1>1, <1>2, <1>3, <1>4 DEF IInv

(* A step that leaves the buffers and the logs alone leaves LogInv true. *)
LEMMA LogUntouched ==
  ASSUME LogInv, UNCHANGED <<bufs, active, pending, failed, pos, accepted, written>>
  PROVE  LogInv'
  BY DEF LogInv, PendingLeft, None

LEMMA CallsIInv == IInv /\ Calls => IInv'
<1> SUFFICES ASSUME IInv, Calls PROVE IInv'
  OBVIOUS
<1> USE DEF IInv, fileVars, logVars
<1>1. ASSUME NEW offset \in Offsets, NEW len \in 1 .. MaxLen, WriteCall(offset, len)
      PROVE  IInv'
  <2> USE <1>1 DEF WriteCall
  <2>1. TypeOK'
    BY AsyncFileAssumption DEF TypeOK, Ops, Pcs
  <2>2. ControlInv'
    BY DEF ControlInv
  <2>3. LogInv'
    BY LogUntouched
  <2>4. ReturnIsTrue'
    BY DEF ReturnIsTrue
  <2> QED BY <2>1, <2>2, <2>3, <2>4
<1>2. ASSUME NEW o \in {"drain", "sync", "close"}, DrainCall(o)
      PROVE  IInv'
  <2> USE <1>2 DEF DrainCall
  <2>1. TypeOK'
    BY DEF TypeOK, Ops, Pcs
  <2>2. ControlInv'
    BY DEF ControlInv
  <2>3. LogInv'
    BY LogUntouched
  <2>4. ReturnIsTrue'
    BY DEF ReturnIsTrue
  <2> QED BY <2>1, <2>2, <2>3, <2>4
<1> QED
  BY <1>1, <1>2 DEF Calls

(* Copying a byte appends it to the active buffer and to the log. *)
LEMMA CopyByteIInv ==
  ASSUME IInv, pc = "write", args.len > 0, ~failed, ~MustSwap, CopyByte,
         UNCHANGED <<asleep, op, task, pos>>
  PROVE  IInv'
<1> DEFINE buf == bufs[active]
           id == Len(accepted) + 1
           start == IF Len(buf.data) = 0 THEN args.offset ELSE buf.offset
           n == Len(buf.data)
<1>1. TypeOK /\ ControlInv /\ LogInv
  BY DEF IInv
<1>2. active \in {0, 1} /\ args \in [offset : Nat, len : Nat]
  BY <1>1 DEF TypeOK, Indices
<1>3. /\ buf.data \in Seq(Nat) /\ buf.offset \in Nat
      /\ n \in Nat /\ n < BufferSize
      /\ args.len \in Nat /\ args.offset \in Nat
      /\ n > 0 => args.offset = buf.offset + n
  BY <1>1, <1>2, BufferTypes, AsyncFileAssumption DEF MustSwap
<1>4. /\ Len(accepted) \in Nat /\ accepted \in Seq(Nat \X Nat)
      /\ id \in Nat /\ <<args.offset, id>> \in Nat \X Nat
      /\ Len(written) \in Nat
  BY <1>1, <1>3, LogTypes
<1>5. /\ bufs' = [bufs EXCEPT ![active] = [offset |-> start, data |-> Append(buf.data, id)]]
      /\ accepted' = Append(accepted, <<args.offset, id>>)
      /\ args' = [offset |-> args.offset + 1, len |-> args.len - 1]
      /\ UNCHANGED <<active, pending, worker_queued, failed, pc, lock, rc, written, synced>>
  BY DEF CopyByte
<1>6. /\ Append(buf.data, id) \in Seq(Nat)
      /\ Len(Append(buf.data, id)) = n + 1
      /\ \A i \in 1 .. n : Append(buf.data, id)[i] = buf.data[i]
      /\ Append(buf.data, id)[n + 1] = id
  BY <1>3, <1>4, AppendProperties
<1>7. /\ accepted' \in Seq(Nat \X Nat)
      /\ Len(accepted') = Len(accepted) + 1
      /\ \A i \in 1 .. Len(accepted) : accepted'[i] = accepted[i]
      /\ accepted'[Len(accepted) + 1] = <<args.offset, id>>
  BY <1>4, <1>5, AppendProperties
<1>8. /\ bufs' \in [Indices -> Buffers]
      /\ bufs'[active].data = Append(buf.data, id)
      /\ bufs'[active].offset = start
      /\ \A i \in Indices \ {active} : bufs'[i] = bufs[i]
  BY <1>1, <1>2, <1>3, <1>5, <1>6 DEF TypeOK, Indices, Buffers
<1>9. TypeOK'
  <2>1. Len(bufs'[active].data) <= BufferSize
    BY <1>3, <1>6, <1>8, AsyncFileAssumption
  <2>2. \A i \in Indices : Len(bufs'[i].data) <= BufferSize
    BY <1>1, <1>8, <2>1 DEF TypeOK
  <2>3. args' \in [offset : Nat, len : Nat]
    BY <1>3, <1>5
  <2> QED BY <1>1, <1>5, <1>7, <1>8, <2>2, <2>3 DEF TypeOK
<1>10. ControlInv'
  BY <1>1, <1>5, <1>8 DEF TypeOK, ControlInv
<1>11. LogInv'
  <2>1. PendingLeft' = PendingLeft /\ PendingLeft \in Nat
    BY <1>1, <1>5, <1>8, PendingLeftType DEF TypeOK, ControlInv, PendingLeft, None
  <2>2. Len(accepted) = Len(written) + PendingLeft + n
    BY <1>1 DEF LogInv
  <2>3. ASSUME NEW i \in 1 .. n + 1
        PROVE  accepted'[Len(written) + PendingLeft + i] =
                  <<start + i - 1, Append(buf.data, id)[i]>>
    <3>1. CASE i \in 1 .. n
      <4>1. accepted[Len(written) + PendingLeft + i] = <<buf.offset + i - 1, buf.data[i]>>
        BY <1>1, <3>1 DEF LogInv
      <4>2. Len(written) + PendingLeft + i \in 1 .. Len(accepted)
        BY <1>3, <1>4, <2>1, <2>2, <3>1
      <4>3. start = buf.offset
        BY <1>3, <3>1
      <4> QED BY <1>6, <1>7, <3>1, <4>1, <4>2, <4>3
    <3>2. CASE i = n + 1
      <4>1. Len(written) + PendingLeft + i = Len(accepted) + 1
        <5> HIDE DEF n
        <5>1. n \in Nat /\ Len(accepted) = Len(written) + PendingLeft + n
          BY <1>3, <2>2
        <5> QED BY <1>4, <2>1, <3>2, <5>1
      <4>2. start + n = args.offset
        <5>1. CASE n = 0
          BY <1>3, <5>1
        <5>2. CASE n > 0
          BY <1>3, <5>2
        <5> QED BY <1>3, <5>1, <5>2
      <4>3. start + i - 1 = start + n
        BY <1>3, <3>2
      <4> QED BY <1>6, <1>7, <3>2, <4>1, <4>2, <4>3
    <3> QED BY <1>3, <2>3, <3>1, <3>2
  <2>4. ASSUME pending # None, NEW i \in 1 .. PendingLeft
        PROVE  accepted'[Len(written) + i] =
                  <<bufs'[pending].offset + pos + i - 1, bufs'[pending].data[pos + i]>>
    <3>1. accepted[Len(written) + i] =
             <<bufs[pending].offset + pos + i - 1, bufs[pending].data[pos + i]>>
      BY <1>1, <2>4 DEF LogInv
    <3>2. Len(written) + i \in 1 .. Len(accepted)
      <4> HIDE DEF n
      <4>1. n \in Nat /\ Len(accepted) = Len(written) + PendingLeft + n
        BY <1>3, <2>2
      <4> QED BY <1>4, <2>1, <2>4, <4>1
    <3>3. bufs'[pending] = bufs[pending]
      BY <1>1, <1>8, <2>4 DEF TypeOK, ControlInv
    <3> QED BY <1>7, <3>1, <3>2, <3>3
  <2>5. Len(written) <= Len(accepted') /\ \A i \in 1 .. Len(written) : written[i] = accepted'[i]
    <3>1. Len(written) <= Len(accepted) /\ \A i \in 1 .. Len(written) : written[i] = accepted[i]
      BY <1>1 DEF LogInv
    <3>2. \A i \in 1 .. Len(written) : i \in 1 .. Len(accepted)
      BY <1>4, <3>1
    <3> QED BY <1>4, <1>7, <3>1, <3>2
  <2>6. Len(accepted') = Len(written) + PendingLeft + (n + 1)
    <3> HIDE DEF n
    <3>1. n \in Nat /\ Len(accepted) = Len(written) + PendingLeft + n
      BY <1>3, <2>2
    <3> QED BY <1>4, <1>7, <2>1, <3>1
  <2> HIDE DEF n, start, buf, id
  <2>7. Len(bufs'[active].data) = n + 1
    BY <1>6, <1>8
  <2>8. \A i \in 1 .. Len(bufs'[active].data) :
           accepted'[Len(written) + PendingLeft + i] =
              <<bufs'[active].offset + i - 1, bufs'[active].data[i]>>
    BY <1>8, <2>3, <2>7
  <2>9. pending # None => \A i \in 1 .. PendingLeft :
           accepted'[Len(written) + i] =
              <<bufs'[pending].offset + pos + i - 1, bufs'[pending].data[pos + i]>>
    BY <2>4
  <2>10. written' = written /\ active' = active /\ pending' = pending /\ pos' = pos /\ failed' = failed
    BY <1>5
  <2> QED
    BY <2>1, <2>5, <2>6, <2>7, <2>8, <2>9, <2>10 DEF LogInv, None
<1>12. ReturnIsTrue'
  BY <1>5 DEF ReturnIsTrue
<1> QED
  BY <1>9, <1>10, <1>11, <1>12 DEF IInv

(* The rest of the write loop, and the waits, move control only. *)
LEMMA WriteLoopIInv == IInv /\ WriteLoop => IInv'
<1> SUFFICES ASSUME IInv, WriteLoop PROVE IInv'
  OBVIOUS
<1> USE DEF IInv, fileVars, logVars
<1>1. CASE args.len > 0 /\ ~failed /\ ~MustSwap /\ CopyByte
  BY <1>1, CopyByteIInv DEF WriteLoop
<1>2. ASSUME pc = "write", pc' \in {"submit", "idle"},
             lock' = IF pc' = "idle" THEN "none" ELSE lock,
             pc' = "idle" => rc' = ~failed, pc' = "submit" => rc' = rc,
             UNCHANGED <<fileVars, args, logVars, asleep, op, task, pos>>
      PROVE  IInv'
  <2>1. TypeOK'
    BY <1>2 DEF TypeOK, Pcs
  <2>2. ControlInv'
    BY <1>2 DEF ControlInv
  <2>3. LogInv'
    BY <1>2, LogUntouched
  <2>4. ReturnIsTrue'
    BY <1>2 DEF ReturnIsTrue, ControlInv
  <2> QED BY <2>1, <2>2, <2>3, <2>4
<1> QED
  BY <1>1, <1>2 DEF WriteLoop, TypeOK

LEMMA ResumeIInv ==
  ASSUME IInv, NEW where, NEW back,
         <<where, back>> \in {<<"submit_wait", "submit">>, <<"drain_wait", "drain">>},
         Resume(where, back)
  PROVE  IInv'
<1> USE DEF IInv, Resume, fileVars, logVars
<1>1. TypeOK'
  BY DEF TypeOK, Pcs
<1>2. ControlInv'
  BY DEF ControlInv
<1>3. LogInv'
  BY LogUntouched
<1>4. ReturnIsTrue'
  BY DEF ReturnIsTrue
<1> QED
  BY <1>1, <1>2, <1>3, <1>4

LEMMA WaitIInv == IInv /\ (SubmitWait \/ DrainWait) => IInv'
<1> SUFFICES ASSUME IInv, SubmitWait \/ DrainWait PROVE IInv'
  OBVIOUS
<1> USE DEF IInv, SubmitWait, DrainWait, Wait, fileVars, logVars
<1>1. TypeOK'
  BY DEF TypeOK, Pcs
<1>2. ControlInv'
  BY DEF ControlInv
<1>3. LogInv'
  BY LogUntouched
<1>4. ReturnIsTrue'
  BY DEF ReturnIsTrue
<1> QED
  BY <1>1, <1>2, <1>3, <1>4

LEMMA SubmitNothingIInv == IInv /\ SubmitNothing => IInv'
<1> SUFFICES ASSUME IInv, SubmitNothing PROVE IInv'
  OBVIOUS
<1> USE DEF IInv, SubmitNothing, AfterSubmit, fileVars, logVars
<1>1. TypeOK'
  BY DEF TypeOK, Pcs
<1>2. ControlInv'
  BY DEF ControlInv
<1>3. LogInv'
  BY LogUntouched
<1>4. ReturnIsTrue'
  BY DEF ReturnIsTrue
<1> QED
  BY <1>1, <1>2, <1>3, <1>4

LEMMA SubmitDroppedIInv == IInv /\ SubmitDropped => IInv'
<1> SUFFICES ASSUME IInv, SubmitDropped PROVE IInv'
  OBVIOUS
<1> USE DEF IInv, SubmitDropped, AfterSubmit, logVars
<1>1. active \in Indices /\ Len(bufs'[active].data) = 0 /\ bufs' \in [Indices -> Buffers]
      /\ \A i \in Indices \ {active} : bufs'[i] = bufs[i]
  BY DEF TypeOK, Indices, Buffers, EmptyBuffer
<1>2. TypeOK'
  <2>1. \A i \in Indices : Len(bufs'[i].data) <= BufferSize
    BY <1>1, AsyncFileAssumption DEF TypeOK
  <2> QED BY <1>1, <2>1 DEF TypeOK, Pcs
<1>3. ControlInv'
  <2>1. pc' \in {"write", "drain"} /\ (pc' = "write" <=> op = "write")
    BY DEF TypeOK, Ops
  <2> QED BY <1>1, <2>1 DEF ControlInv, TypeOK, None
<1>4. LogInv'
  BY DEF LogInv, PendingLeft, None
<1>5. ReturnIsTrue'
  BY DEF ReturnIsTrue
<1> QED
  BY <1>2, <1>3, <1>4, <1>5

(* The swap: the active buffer, whole, becomes the pending one. *)
LEMMA SubmitSwapIInv ==
  ASSUME IInv, NEW poolAccepts \in BOOLEAN, SubmitSwap(poolAccepts)
  PROVE  IInv'
<1> USE DEF IInv, logVars
<1> DEFINE other == 1 - active
<1>1. active \in {0, 1} /\ other \in {0, 1} /\ active # other
  BY DEF TypeOK, Indices
<1>2. /\ pc = "submit" /\ pending = None /\ ~failed /\ lock = "producer" /\ ~asleep
      /\ ~worker_queued /\ task = "none"
  BY <1>1 DEF SubmitSwap, TypeOK, ControlInv
<1>3. /\ active' = other /\ pending' = active /\ pos' = 0 /\ failed' = failed
      /\ lock' = lock /\ asleep' = FALSE
      /\ UNCHANGED <<op, args, rc, accepted, written, synced>>
      /\ bufs' = [bufs EXCEPT ![other] = EmptyBuffer]
      /\ \/ worker_queued' = TRUE /\ task' = "queued" /\ pc' = AfterSubmit
         \/ worker_queued' = worker_queued /\ task' = task /\ pc' = "inline"
  BY <1>2 DEF SubmitSwap
<1> HIDE DEF other
<1>4. bufs \in [{0, 1} -> [offset : Nat, data : Seq(Nat)]]
  BY DEF TypeOK, Indices, Buffers
<1>5. /\ bufs' \in [{0, 1} -> [offset : Nat, data : Seq(Nat)]]
      /\ bufs'[active] = bufs[active]
      /\ bufs'[other].data = <<>>
      /\ \A i \in {0, 1} : i = active \/ i = other
  <2>1. \A i \in {0, 1} : i = active \/ i = other
    BY <1>1 DEF other
  <2> QED BY <1>1, <1>3, <1>4, <2>1 DEF EmptyBuffer
<1>6. Len(bufs'[other].data) = 0 /\ Len(bufs'[active].data) = Len(bufs[active].data)
  BY <1>5
<1>7. pc' \in {"inline", "write", "drain"} /\ (pc' = "write" => op = "write")
      /\ (pc' = "drain" => op # "write")
  BY <1>3 DEF AfterSubmit
<1>8. TypeOK'
  <2>1. \A i \in {0, 1} : Len(bufs'[i].data) <= BufferSize
    BY <1>1, <1>5, <1>6, AsyncFileAssumption DEF TypeOK, Indices
  <2> QED BY <1>1, <1>2, <1>3, <1>5, <1>7, <2>1 DEF TypeOK, Pcs, Indices, Buffers
<1>9. ControlInv'
  <2>1. pos' <= Len(bufs'[pending'].data)
    BY <1>1, <1>3, <1>6, BufferTypes
  <2>2. pending' # None /\ pending' # active'
    BY <1>1, <1>3 DEF None
  <2>3. Len(bufs'[active'].data) = 0
    BY <1>3, <1>6
  <2>4. CASE worker_queued' = TRUE /\ task' = "queued" /\ pc' = AfterSubmit
    <3>1. pc' \in {"write", "drain"}
      BY <2>4 DEF AfterSubmit
    <3> QED BY <1>2, <1>3, <1>7, <2>1, <2>2, <2>3, <2>4, <3>1 DEF ControlInv
  <2>5. CASE worker_queued' = worker_queued /\ task' = task /\ pc' = "inline"
    BY <1>2, <1>3, <2>1, <2>2, <2>3, <2>5 DEF ControlInv
  <2> QED BY <1>3, <2>4, <2>5
<1>10. LogInv'
  <2>1. PendingLeft = 0
    BY <1>2 DEF PendingLeft
  <2>2. PendingLeft' = Len(bufs[active].data)
    BY <1>1, <1>3, <1>6, BufferTypes DEF PendingLeft, None
  <2>3. /\ Len(accepted) = Len(written) + Len(bufs[active].data)
        /\ Len(written) \in Nat /\ Len(bufs[active].data) \in Nat
    BY <1>1, <1>2, <2>1, BufferTypes, LogTypes DEF LogInv
  <2>4. \A i \in 1 .. Len(bufs[active].data) :
           accepted[Len(written) + i] =
              <<bufs[active].offset + 0 + i - 1, bufs[active].data[0 + i]>>
    <3>1. bufs[active].offset \in Nat
      BY <1>1, BufferTypes
    <3> QED BY <1>2, <2>1, <2>3, <3>1 DEF LogInv
  <2>5. Len(written) <= Len(accepted) /\ \A i \in 1 .. Len(written) : written[i] = accepted[i]
    BY DEF LogInv
  <2>6. Len(accepted) = Len(written) + PendingLeft' + Len(bufs'[active'].data)
    <3>1. Len(bufs'[active'].data) = 0
      BY <1>3, <1>6
    <3> QED BY <2>2, <2>3, <3>1
  <2>7. \A i \in 1 .. Len(bufs'[active'].data) : FALSE
    BY <1>3, <1>6
  <2> QED
    BY <1>3, <1>5, <2>2, <2>4, <2>5, <2>6, <2>7 DEF LogInv
<1>11. ReturnIsTrue'
  BY <1>7 DEF ReturnIsTrue
<1> QED
  BY <1>8, <1>9, <1>10, <1>11

(* A byte that fwrite moves is the next accepted one. *)
LEMMA MoveByteIInv ==
  ASSUME IInv, pending # None, MoveByte,
         UNCHANGED <<fileVars, lock, asleep, pc, op, args, rc, task, accepted, synced>>
  PROVE  IInv'
<1> DEFINE buf == bufs[pending]
           byte == <<buf.offset + pos, buf.data[pos + 1]>>
           n == Len(bufs[active].data)
<1> USE DEF IInv, fileVars
<1>1. pending \in {0, 1} /\ pos \in Nat /\ ~failed
  BY DEF TypeOK, ControlInv, Indices
<1>2. buf.data \in Seq(Nat) /\ buf.offset \in Nat /\ Len(buf.data) \in Nat
  BY <1>1, BufferTypes
<1>3. pos < Len(buf.data) /\ written' = Append(written, byte) /\ pos' = pos + 1
  BY DEF MoveByte
<1>4. byte \in Nat \X Nat
  <2>1. buf.data[pos + 1] \in Nat
    BY <1>1, <1>2, <1>3, ElementOfSeq
  <2> QED BY <1>1, <1>2, <2>1
<1>5. /\ Len(written) \in Nat /\ Len(accepted) \in Nat /\ written \in Seq(Nat \X Nat)
      /\ n \in Nat
  BY LogTypes, BufferTypes DEF TypeOK, Indices
<1>6. /\ written' \in Seq(Nat \X Nat)
      /\ Len(written') = Len(written) + 1
      /\ \A i \in 1 .. Len(written) : written'[i] = written[i]
      /\ written'[Len(written) + 1] = byte
  BY <1>3, <1>4, <1>5, AppendProperties
<1>7. PendingLeft = Len(buf.data) - pos /\ PendingLeft = PendingLeft' + 1
      /\ PendingLeft \in Nat /\ PendingLeft >= 1 /\ PendingLeft' \in Nat
  <2>1. PendingLeft = Len(buf.data) - pos
    BY <1>1 DEF PendingLeft, None
  <2>2. PendingLeft' = Len(buf.data) - pos'
    <3>1. bufs' = bufs /\ pending' = pending
      OBVIOUS
    <3> QED BY <1>1, <3>1 DEF PendingLeft, None
  <2> HIDE DEF buf
  <2> QED BY <1>1, <1>2, <1>3, <2>1, <2>2
<1>8. accepted[Len(written) + 1] = byte
  <2>1. accepted[Len(written) + 1] = <<buf.offset + pos + 1 - 1, buf.data[pos + 1]>>
    BY <1>7 DEF LogInv
  <2> QED BY <1>1, <1>2, <2>1
<1>9. Len(accepted) = Len(written) + PendingLeft + n
  BY <1>1 DEF LogInv
<1>10. TypeOK'
  BY <1>1, <1>3, <1>6 DEF TypeOK
<1>11. ControlInv'
  BY <1>1, <1>2, <1>3 DEF ControlInv, None
<1> HIDE DEF buf, byte, n
<1>12. LogInv'
  <2>1. Len(written') <= Len(accepted)
    BY <1>5, <1>6, <1>7, <1>9
  <2>2. \A i \in 1 .. Len(written') : written'[i] = accepted[i]
    <3>1. \A i \in 1 .. Len(written) : written[i] = accepted[i]
      BY DEF LogInv
    <3>2. \A i \in 1 .. Len(written') : i \in 1 .. Len(written) \/ i = Len(written) + 1
      BY <1>5, <1>6
    <3> QED BY <1>6, <1>8, <3>1, <3>2
  <2>3. Len(accepted) = Len(written') + PendingLeft' + n
    BY <1>5, <1>6, <1>7, <1>9
  <2>4. ASSUME NEW i \in 1 .. PendingLeft'
        PROVE  accepted[Len(written') + i] =
                  <<bufs[pending].offset + pos' + i - 1, bufs[pending].data[pos' + i]>>
    <3>1. i + 1 \in 1 .. PendingLeft
      BY <1>7, <2>4
    <3>2. accepted[Len(written) + (i + 1)] =
             <<bufs[pending].offset + pos + (i + 1) - 1, bufs[pending].data[pos + (i + 1)]>>
      BY <3>1 DEF LogInv
    <3>3. /\ Len(written) + (i + 1) = Len(written') + i
          /\ pos + (i + 1) = pos' + i
      BY <1>1, <1>3, <1>5, <1>6, <1>7, <2>4
    <3>4. bufs[pending].offset + pos + (i + 1) - 1 = bufs[pending].offset + pos' + i - 1
      <4> DEFINE off == bufs[pending].offset
      <4>1. off \in Nat /\ i \in Nat
        BY <1>2, <1>7, <2>4 DEF buf
      <4> HIDE DEF off
      <4>2. off + pos + (i + 1) - 1 = off + pos' + i - 1
        BY <1>1, <1>3, <4>1
      <4> QED BY <4>2 DEF off
    <3> QED BY <3>2, <3>3, <3>4
  <2>5. ASSUME NEW i \in 1 .. n
        PROVE  accepted[Len(written') + PendingLeft' + i] =
                  <<bufs[active].offset + i - 1, bufs[active].data[i]>>
    <3>1. accepted[Len(written) + PendingLeft + i] =
             <<bufs[active].offset + i - 1, bufs[active].data[i]>>
      BY <1>1, <2>5 DEF LogInv, n
    <3>2. Len(written) + PendingLeft + i = Len(written') + PendingLeft' + i
      BY <1>5, <1>6, <1>7, <2>5
    <3> QED BY <3>1, <3>2
  <2> QED BY <1>1, <2>1, <2>2, <2>3, <2>4, <2>5 DEF LogInv, n
<1>13. ReturnIsTrue'
  <2>1. pc \notin {"closed"} /\ written # accepted
    <3>1. Len(accepted) # Len(written)
      <4> HIDE DEF IInv, fileVars
      <4> QED BY <1>5, <1>7, <1>9
    <3>2. pc # "closed"
      BY <1>1 DEF ControlInv
    <3> QED BY <3>1, <3>2
  <2>2. UNCHANGED <<pc, op, rc, accepted, synced>>
    OBVIOUS
  <2>3. ReturnIsTrue
    OBVIOUS
  <2> HIDE DEF IInv, fileVars
  <2> QED BY <2>1, <2>2, <2>3 DEF ReturnIsTrue
<1> QED
  BY <1>10, <1>11, <1>12, <1>13

(* A write of the whole buffer that returned releases it. *)
LEMMA WriteDoneLog ==
  ASSUME TypeOK, ControlInv, LogInv, pending # None, NEW ok \in BOOLEAN,
         WriteBufferReturns(ok), failed' = (failed \/ ~ok), pending' = None,
         UNCHANGED <<bufs, active, pos, accepted, written>>
  PROVE  LogInv'
<1>1. pending \in {0, 1} /\ ~failed
  BY DEF TypeOK, ControlInv, Indices
<1>2. PendingLeft' = 0
  BY DEF PendingLeft
<1>3. Len(written) <= Len(accepted) /\ \A i \in 1 .. Len(written) : written[i] = accepted[i]
  BY DEF LogInv
<1>4. CASE ok
  <2>1. PendingLeft = 0
    BY <1>1, <1>4, BufferTypes DEF WriteBufferReturns, PendingLeft, TypeOK
  <2> QED BY <1>1, <1>2, <1>3, <1>4, <2>1 DEF LogInv
<1>5. CASE ~ok
  BY <1>2, <1>3, <1>5 DEF LogInv
<1> QED
  BY <1>4, <1>5

LEMMA InlineDoneIInv ==
  ASSUME IInv, NEW ok \in BOOLEAN, InlineDone(ok)
  PROVE  IInv'
<1> USE DEF IInv, logVars
<1>1. pc' \in {"write", "drain"} /\ (pc' = "write" <=> op = "write")
  BY DEF InlineDone, AfterSubmit, TypeOK, Ops
<1>2. TypeOK'
  BY <1>1 DEF InlineDone, TypeOK, Pcs
<1>3. ControlInv'
  <2>1. pending # None /\ pc = "inline" /\ Len(bufs[active].data) = 0
    BY DEF InlineDone, ControlInv
  <2> QED BY <1>1, <2>1 DEF InlineDone, ControlInv, TypeOK, Indices, None
<1>4. LogInv'
  BY WriteDoneLog DEF InlineDone, ControlInv
<1>5. ReturnIsTrue'
  BY <1>1 DEF ReturnIsTrue
<1> QED
  BY <1>2, <1>3, <1>4, <1>5

LEMMA WorkerTakeIInv == IInv /\ WorkerTake => IInv'
<1> SUFFICES ASSUME IInv, WorkerTake PROVE IInv'
  OBVIOUS
<1> USE DEF IInv, WorkerTake, fileVars, logVars
<1>1. TypeOK'
  BY DEF TypeOK
<1>2. ControlInv'
  BY DEF ControlInv
<1>3. LogInv'
  BY LogUntouched
<1>4. ReturnIsTrue'
  BY DEF ReturnIsTrue
<1> QED
  BY <1>1, <1>2, <1>3, <1>4

LEMMA WorkerDoneIInv ==
  ASSUME IInv, NEW ok \in BOOLEAN, WorkerDone(ok)
  PROVE  IInv'
<1> USE DEF IInv, logVars
<1>1. /\ pending # None /\ pending \in {0, 1} /\ ~failed
      /\ pc \notin {"fsync", "fsync_failed", "close_lock", "closed", "inline"}
  BY DEF WorkerDone, TypeOK, ControlInv, Indices
<1>2. TypeOK'
  BY DEF WorkerDone, TypeOK
<1>3. ControlInv'
  BY <1>1 DEF WorkerDone, ControlInv, TypeOK, Indices, None
<1>4. LogInv'
  BY <1>1, WriteDoneLog DEF WorkerDone
<1>5. ReturnIsTrue'
  BY DEF WorkerDone, ReturnIsTrue
<1> QED
  BY <1>2, <1>3, <1>4, <1>5

(* With nothing pending and the active buffer empty, the logs agree. *)
LEMMA DrainedLog ==
  ASSUME TypeOK, LogInv, pending = None, Len(bufs[active].data) = 0, ~failed
  PROVE  written = accepted
<1>1. Len(accepted) = Len(written)
  BY LogTypes DEF LogInv, PendingLeft
<1>2. \A i \in 1 .. Len(written) : written[i] = accepted[i]
  BY DEF LogInv
<1> QED
  BY <1>1, <1>2, LogTypes, SeqEqual

LEMMA DrainDoneIInv == IInv /\ DrainDone => IInv'
<1> SUFFICES ASSUME IInv, DrainDone PROVE IInv'
  OBVIOUS
<1> USE DEF IInv, DrainDone, fileVars, logVars
<1>1. TypeOK'
  BY DEF TypeOK, Pcs
<1>2. ControlInv'
  <2>1. /\ op \in {"drain", "sync", "close"} /\ ~worker_queued /\ ~asleep
        /\ Len(bufs[active].data) = 0
    BY DEF ControlInv, TypeOK, Ops
  <2>2. pc' = "close_lock" => failed /\ ~rc'
    OBVIOUS
  <2> QED BY <2>1, <2>2 DEF ControlInv
<1>3. LogInv'
  BY LogUntouched
<1>4. ReturnIsTrue'
  <2>1. ~failed => written = accepted
    BY DrainedLog DEF ControlInv
  <2>2. pc' = "idle" => op = "drain" \/ ~rc'
    OBVIOUS
  <2>3. pc' # "closed"
    OBVIOUS
  <2> QED BY <2>1, <2>2, <2>3 DEF ReturnIsTrue
<1> QED
  BY <1>1, <1>2, <1>3, <1>4

LEMMA FsyncIInv ==
  ASSUME IInv, NEW ok \in BOOLEAN, Fsync(ok)
  PROVE  IInv'
<1> USE DEF IInv, Fsync, fileVars, logVars
<1>1. written = accepted /\ Len(written) \in Nat /\ ~failed /\ op \in {"sync", "close"}
  BY DrainedLog, LogTypes DEF ControlInv
<1>2. TypeOK'
  BY <1>1 DEF TypeOK, Pcs
<1>3. ControlInv'
  BY <1>1 DEF ControlInv
<1>4. LogInv'
  BY LogUntouched
<1>5. ReturnIsTrue'
  BY <1>1 DEF ReturnIsTrue
<1> QED
  BY <1>2, <1>3, <1>4, <1>5

LEMMA FsyncFailedIInv == IInv /\ FsyncFailed => IInv'
<1> SUFFICES ASSUME IInv, FsyncFailed PROVE IInv'
  OBVIOUS
<1> USE DEF IInv, FsyncFailed, fileVars, logVars
<1>1. TypeOK'
  BY DEF TypeOK, Pcs
<1>2. ControlInv'
  BY DEF ControlInv
<1>3. LogInv'
  BY DEF LogInv, PendingLeft, ControlInv, None
<1>4. ReturnIsTrue'
  BY DEF ReturnIsTrue, ControlInv
<1> QED
  BY <1>1, <1>2, <1>3, <1>4

LEMMA CloseFreeIInv ==
  ASSUME IInv, NEW ok \in BOOLEAN, CloseFree(ok)
  PROVE  IInv'
<1> USE DEF IInv, CloseFree, fileVars, logVars
<1>1. TypeOK'
  BY DEF TypeOK, Pcs
<1>2. ControlInv'
  BY DEF ControlInv
<1>3. LogInv'
  BY LogUntouched
<1>4. ReturnIsTrue'
  BY DEF ReturnIsTrue, ControlInv
<1> QED
  BY <1>1, <1>2, <1>3, <1>4

LEMMA OpenIInv == IInv /\ Open => IInv'
<1> SUFFICES ASSUME IInv, Open PROVE IInv'
  OBVIOUS
<1> USE DEF IInv, Open, Indices, None, EmptyBuffer
<1>1. task = "none" /\ lock = "none" /\ ~asleep /\ op = "close"
  BY DEF ControlInv, TypeOK
<1>2. TypeOK'
  <2>1. EmptyBuffer \in [offset : Nat, data : Seq(Nat)] /\ Len(EmptyBuffer.data) = 0
    OBVIOUS
  <2>2. bufs' \in [Indices -> Buffers] /\ \A i \in Indices : Len(bufs'[i].data) = 0
    BY <2>1 DEF Buffers
  <2>3. accepted' \in Seq(Nat \X Nat) /\ written' \in Seq(Nat \X Nat)
    OBVIOUS
  <2>4. \A i \in Indices : Len(bufs'[i].data) <= BufferSize
    BY <2>2, AsyncFileAssumption
  <2>5. pc' = "idle" /\ failed' = FALSE /\ rc' = TRUE /\ synced' = 0 /\ active' = 0
        /\ pending' = None /\ worker_queued' = FALSE
        /\ UNCHANGED <<lock, asleep, op, args, task, pos>>
    OBVIOUS
  <2> HIDE DEF Open, EmptyBuffer
  <2> QED BY <2>2, <2>3, <2>4, <2>5 DEF TypeOK, Pcs
<1>3. ControlInv'
  <2>1. /\ pc' = "idle" /\ pending' = None /\ pending' # active' /\ worker_queued' = FALSE
        /\ lock' = "none" /\ asleep' = FALSE /\ task' = "none"
    BY <1>1
  <2> HIDE DEF Open, None
  <2> QED BY <2>1 DEF ControlInv
<1>4. LogInv'
  BY DEF LogInv, PendingLeft
<1>5. ReturnIsTrue'
  BY <1>1 DEF ReturnIsTrue
<1> QED
  BY <1>2, <1>3, <1>4, <1>5

LEMMA NextIInv == IInv /\ [Next]_vars => IInv'
<1> SUFFICES ASSUME IInv, [Next]_vars PROVE IInv'
  OBVIOUS
<1>1. CASE Calls
  BY <1>1, CallsIInv
<1>2. CASE ProducerStep
  <2>1. CASE \/ WriteLoop \/ SubmitWait \/ DrainWait \/ SubmitNothing \/ SubmitDropped
             \/ DrainDone \/ FsyncFailed
    BY <2>1, WriteLoopIInv, WaitIInv, SubmitNothingIInv, SubmitDroppedIInv, DrainDoneIInv,
       FsyncFailedIInv
  <2>2. CASE Resume("submit_wait", "submit") \/ Resume("drain_wait", "drain")
    BY <2>2, ResumeIInv
  <2>3. ASSUME NEW ok \in BOOLEAN,
               SubmitSwap(ok) \/ InlineDone(ok) \/ Fsync(ok) \/ CloseFree(ok)
        PROVE  IInv'
    BY <2>3, SubmitSwapIInv, InlineDoneIInv, FsyncIInv, CloseFreeIInv
  <2>4. CASE InlineByte
    BY <2>4, MoveByteIInv DEF InlineByte, IInv, ControlInv
  <2> QED BY <1>2, <2>1, <2>2, <2>3, <2>4 DEF ProducerStep
<1>3. CASE Open
  BY <1>3, OpenIInv
<1>4. CASE WorkerStep
  <2>1. CASE WorkerByte
    BY <2>1, MoveByteIInv DEF WorkerByte, IInv, ControlInv
  <2> QED BY <1>4, <2>1, WorkerTakeIInv, WorkerDoneIInv DEF WorkerStep
<1>5. CASE UNCHANGED vars
  <2> USE <1>5 DEF vars, fileVars, logVars, IInv
  <2>1. TypeOK'
    BY DEF TypeOK
  <2>2. ControlInv'
    BY DEF ControlInv
  <2>3. LogInv'
    BY LogUntouched
  <2>4. ReturnIsTrue'
    BY DEF ReturnIsTrue
  <2> QED BY <2>1, <2>2, <2>3, <2>4
<1> QED
  BY <1>1, <1>2, <1>3, <1>4, <1>5 DEF Next

(* The inductive invariant holds in every reachable state of the writer. *)
THEOREM Invariance == Spec => []IInv
  BY InitIInv, NextIInv, PTL DEF Spec

(* TypeOK, the memory bound of two buffers included. *)
THEOREM TypeCorrect == Spec => []TypeOK
<1>1. IInv => TypeOK
  BY DEF IInv
<1> QED
  BY <1>1, Invariance, PTL

(* The unlocked write and the producer never share a buffer. *)
THEOREM RaceFreedom == Spec => []NoBufferRace
<1>1. IInv => NoBufferRace
  BY DEF IInv, TypeOK, ControlInv, NoBufferRace
<1> QED
  BY <1>1, Invariance, PTL

(* Successful returns of drain, sync and close tell the truth. *)
THEOREM ReturnsAreTrue == Spec => []ReturnIsTrue
<1>1. IInv => ReturnIsTrue
  BY DEF IInv
<1> QED
  BY <1>1, Invariance, PTL

(* No pool task survives the file it writes to. *)
THEOREM FreedSafely == Spec => []NoUseAfterFree
<1>1. IInv => NoUseAfterFree
  BY DEF IInv, ControlInv, NoUseAfterFree
<1> QED
  BY <1>1, Invariance, PTL

(* The bytes of a buffer from a position on, as a sequence. *)
LEMMA BytesFromProperties ==
  ASSUME NEW buf \in [offset : Nat, data : Seq(Nat)], NEW p \in Nat, p <= Len(buf.data)
  PROVE  /\ BytesFrom(buf, p) \in Seq(Nat \X Nat)
         /\ Len(BytesFrom(buf, p)) = Len(buf.data) - p
         /\ \A i \in 1 .. Len(buf.data) - p :
               BytesFrom(buf, p)[i] = <<buf.offset + p + i - 1, buf.data[p + i]>>
<1> DEFINE n == Len(buf.data) - p
           off == buf.offset
           data == buf.data
<1>1. n \in Nat /\ off \in Nat /\ data \in Seq(Nat) /\ Len(data) \in Nat /\ Len(data) = n + p
  BY LenProperties
<1> HIDE DEF n, off, data
<1>2. \A i \in 1 .. n : <<off + p + i - 1, data[p + i]>> \in Nat \X Nat
  <2> SUFFICES ASSUME NEW i \in 1 .. n PROVE <<off + p + i - 1, data[p + i]>> \in Nat \X Nat
    OBVIOUS
  <2>1. p + i \in 1 .. Len(data)
    BY <1>1
  <2>2. data[p + i] \in Nat
    BY <1>1, <2>1, ElementOfSeq
  <2>3. off + p + i - 1 \in Nat
    BY <1>1
  <2> QED BY <2>2, <2>3
<1>3. BytesFrom(buf, p) = [i \in 1 .. n |-> <<off + p + i - 1, data[p + i]>>]
  BY DEF BytesFrom, n, off, data
<1>4. BytesFrom(buf, p) \in [1 .. n -> Nat \X Nat]
  BY <1>2, <1>3
<1>5. BytesFrom(buf, p) \in Seq(Nat \X Nat)
  BY <1>1, <1>4, SeqDef
<1>6. DOMAIN BytesFrom(buf, p) = 1 .. n /\ DOMAIN BytesFrom(buf, p) = 1 .. Len(BytesFrom(buf, p))
      /\ Len(BytesFrom(buf, p)) \in Nat
  BY <1>4, <1>5, LenProperties
<1>7. Len(BytesFrom(buf, p)) = n
  BY <1>1, <1>6
<1> QED
  BY <1>3, <1>5, <1>7 DEF n, off, data

(* LogInv is NothingLost, byte by byte. *)
LEMMA LogInvNothingLost == IInv => NothingLost
<1> SUFFICES ASSUME IInv, ~failed PROVE accepted = written \o Queued
  BY DEF NothingLost
<1> DEFINE P == IF pending = None THEN <<>> ELSE BytesFrom(bufs[pending], pos)
           A == BytesFrom(bufs[active], 0)
           n == Len(bufs[active].data)
           w == Len(written)
           T == Nat \X Nat
<1>1. TypeOK /\ ControlInv /\ LogInv
  BY DEF IInv
<1>2. active \in {0, 1} /\ (pending # None => pending \in {0, 1}) /\ pos \in Nat
  BY <1>1 DEF TypeOK, Indices
<1>3. w \in Nat /\ written \in Seq(T) /\ accepted \in Seq(T) /\ Len(accepted) \in Nat
  BY <1>1, LogTypes
<1>4. n \in Nat /\ PendingLeft \in Nat
  BY <1>1, <1>2, BufferTypes, PendingLeftType
<1>5. A \in Seq(T) /\ Len(A) = n /\ \A i \in 1 .. n : A[i] = accepted[w + PendingLeft + i]
  <2>1. bufs[active] \in [offset : Nat, data : Seq(Nat)] /\ 0 <= Len(bufs[active].data)
    BY <1>1, <1>2, BufferTypes
  <2>2. /\ A \in Seq(T) /\ Len(A) = Len(bufs[active].data) - 0
        /\ \A i \in 1 .. Len(bufs[active].data) - 0 :
              A[i] = <<bufs[active].offset + 0 + i - 1, bufs[active].data[0 + i]>>
    BY <2>1, BytesFromProperties
  <2>3. \A i \in 1 .. n : accepted[w + PendingLeft + i] =
                              <<bufs[active].offset + i - 1, bufs[active].data[i]>>
    BY <1>1 DEF LogInv
  <2>4. Len(bufs[active].data) - 0 = n /\ bufs[active].offset + 0 = bufs[active].offset
    BY <1>4, <2>1
  <2>5. \A i \in 1 .. n : 0 + i = i
    BY <1>4
  <2> HIDE DEF A, n, w
  <2> QED BY <2>2, <2>3, <2>4, <2>5
<1>6. P \in Seq(T) /\ Len(P) = PendingLeft /\ \A i \in 1 .. PendingLeft : P[i] = accepted[w + i]
  <2>1. CASE pending = None
    BY <2>1 DEF PendingLeft
  <2>2. CASE pending # None
    <3>1. /\ bufs[pending] \in [offset : Nat, data : Seq(Nat)]
          /\ pos <= Len(bufs[pending].data)
      BY <1>1, <1>2, <2>2, BufferTypes DEF ControlInv
    <3>2. /\ P \in Seq(T) /\ Len(P) = Len(bufs[pending].data) - pos
          /\ \A i \in 1 .. Len(bufs[pending].data) - pos :
                P[i] = <<bufs[pending].offset + pos + i - 1, bufs[pending].data[pos + i]>>
      BY <1>2, <2>2, <3>1, BytesFromProperties
    <3>3. PendingLeft = Len(bufs[pending].data) - pos
      BY <2>2 DEF PendingLeft
    <3>4. \A i \in 1 .. PendingLeft : accepted[w + i] =
             <<bufs[pending].offset + pos + i - 1, bufs[pending].data[pos + i]>>
      BY <1>1, <2>2 DEF LogInv
    <3> HIDE DEF P, w
    <3> QED BY <3>2, <3>3, <3>4
  <2> QED BY <2>1, <2>2
<1>7. Len(accepted) = w + PendingLeft + n /\ \A i \in 1 .. w : written[i] = accepted[i]
  BY <1>1 DEF LogInv
<1>8. Queued = P \o A
  BY DEF Queued
<1> HIDE DEF P, A, n, w, T
<1>9. /\ P \o A \in Seq(T) /\ Len(P \o A) = PendingLeft + n
      /\ \A i \in 1 .. PendingLeft + n : (P \o A)[i] = accepted[w + i]
  <2>1. /\ P \o A \in Seq(T) /\ Len(P \o A) = Len(P) + Len(A)
        /\ \A i \in 1 .. Len(P) + Len(A) :
              (P \o A)[i] = IF i <= Len(P) THEN P[i] ELSE A[i - Len(P)]
    BY <1>5, <1>6, ConcatProperties
  <2>2. ASSUME NEW i \in 1 .. PendingLeft + n PROVE (P \o A)[i] = accepted[w + i]
    <3>1. CASE i <= PendingLeft
      BY <1>4, <1>5, <1>6, <2>1, <2>2, <3>1
    <3>2. CASE ~(i <= PendingLeft)
      <4>1. i - PendingLeft \in 1 .. n /\ w + PendingLeft + (i - PendingLeft) = w + i
        BY <1>3, <1>4, <2>2, <3>2
      <4>2. A[i - PendingLeft] = accepted[w + i]
        BY <1>5, <4>1
      <4> QED BY <1>5, <1>6, <2>1, <2>2, <3>2, <4>2
    <3> QED BY <3>1, <3>2
  <2> QED BY <1>5, <1>6, <2>1, <2>2
<1>10. /\ written \o (P \o A) \in Seq(T) /\ Len(written \o (P \o A)) = Len(accepted)
       /\ \A i \in 1 .. Len(accepted) : (written \o (P \o A))[i] = accepted[i]
  <2>1. /\ written \o (P \o A) \in Seq(T)
        /\ Len(written \o (P \o A)) = Len(written) + Len(P \o A)
        /\ \A i \in 1 .. Len(written) + Len(P \o A) :
              (written \o (P \o A))[i] =
                 IF i <= Len(written) THEN written[i] ELSE (P \o A)[i - Len(written)]
    BY <1>3, <1>9, ConcatProperties
  <2>2. Len(written) = w
    BY DEF w
  <2>3. Len(written) + Len(P \o A) = Len(accepted)
    BY <1>3, <1>4, <1>7, <1>9, <2>2
  <2>4. ASSUME NEW i \in 1 .. Len(accepted) PROVE (written \o (P \o A))[i] = accepted[i]
    <3>1. CASE i <= w
      BY <1>3, <1>7, <2>1, <2>2, <2>3, <2>4, <3>1
    <3>2. CASE ~(i <= w)
      <4>1. i - w \in 1 .. PendingLeft + n /\ w + (i - w) = i
        BY <1>3, <1>4, <1>7, <2>4, <3>2
      <4> QED BY <1>9, <2>1, <2>2, <2>3, <2>4, <3>2, <4>1
    <3> QED BY <3>1, <3>2
  <2> QED BY <2>1, <2>3, <2>4
<1> QED
  BY <1>3, <1>8, <1>10, SeqEqual

(* No byte is lost, doubled, reordered or misplaced across swaps. *)
THEOREM OrderedDelivery == Spec => []NothingLost
  BY LogInvNothingLost, Invariance, PTL

(* A failure is reported by every later call until the close. *)
THEOREM StickyErrors == Spec => ErrorsAreSticky
<1> DEFINE Sticky == /\ failed /\ pc \notin {"idle", "closed"} /\ pc' \in {"idle", "closed"} => ~rc'
                     /\ failed /\ pc # "closed" => failed'
<1>1. IInv /\ [Next]_vars => [Sticky]_vars
  <2> SUFFICES ASSUME IInv, Next PROVE Sticky
    OBVIOUS
  <2> USE DEF IInv, fileVars, logVars
  <2>1. CASE Calls
    BY <2>1 DEF Calls, WriteCall, DrainCall
  <2>2. CASE ProducerStep
    <3>1. CASE WriteLoop
      <4>1. failed' = failed
        BY <3>1 DEF WriteLoop, CopyByte
      <4>2. pc' \in {"idle", "closed"} => rc' = ~failed
        BY <3>1 DEF WriteLoop, CopyByte
      <4> QED BY <4>1, <4>2
    <3>2. CASE DrainDone
      <4>1. failed' = failed /\ rc' = ~failed
        BY <3>2 DEF DrainDone
      <4> QED BY <4>1
    <3>3. CASE FsyncFailed
      <4>1. ~failed /\ failed' = TRUE
        BY <3>3 DEF FsyncFailed, ControlInv
      <4> QED BY <4>1
    <3>4. ASSUME NEW ok \in BOOLEAN, Fsync(ok)
          PROVE  Sticky
      <4>1. ~failed
        BY <3>4 DEF Fsync, ControlInv
      <4> QED BY <4>1
    <3>5. ASSUME NEW ok \in BOOLEAN, CloseFree(ok)
          PROVE  Sticky
      <4>1. failed' = failed /\ rc' = (rc /\ ok) /\ (failed => ~rc)
        BY <3>5 DEF CloseFree, ControlInv
      <4> QED BY <4>1
    <3>6. CASE \/ Resume("submit_wait", "submit") \/ Resume("drain_wait", "drain")
               \/ SubmitNothing \/ SubmitWait \/ SubmitDropped \/ DrainWait \/ InlineByte
               \/ \E ok \in BOOLEAN : SubmitSwap(ok) \/ InlineDone(ok)
      <4>1. pc' \notin {"idle", "closed"}
        BY <3>6 DEF Resume, SubmitNothing, SubmitWait, SubmitDropped, DrainWait, InlineByte,
                    SubmitSwap, InlineDone, AfterSubmit, Wait
      <4>2. failed => failed'
        BY <3>6 DEF Resume, SubmitNothing, SubmitWait, SubmitDropped, DrainWait, InlineByte,
                    SubmitSwap, InlineDone
      <4> QED BY <4>1, <4>2
    <3> QED BY <2>2, <3>1, <3>2, <3>3, <3>4, <3>5, <3>6 DEF ProducerStep
  <2>3. CASE Open
    BY <2>3 DEF Open
  <2>4. CASE WorkerStep
    <3>1. pc' = pc
      BY <2>4 DEF WorkerStep, WorkerTake, WorkerByte, WorkerDone
    <3>2. failed' = failed \/ \E ok \in BOOLEAN : failed' = (failed \/ ~ok)
      BY <2>4 DEF WorkerStep, WorkerTake, WorkerByte, WorkerDone
    <3>3. failed => failed'
      BY <3>2
    <3> QED BY <3>1, <3>3
  <2> QED BY <2>1, <2>2, <2>3, <2>4 DEF Next
<1> QED
  BY <1>1, Invariance, PTL DEF Spec, ErrorsAreSticky

(* The writer implements OrderedWriter: its initial state is one of the    *)
(* abstract log, and every step of the producer and of the worker is an    *)
(* abstract step or invisible.                                             *)
THEOREM Refinement == Spec => ImplementsOrderedWriter
<1>1. Init => Abstract!Init
  BY DEF Init, Abstract!Init, Call
<1>2. IInv /\ IInv' /\ [Next]_vars => [Abstract!Next]_(Abstract!vars)
  <2> SUFFICES ASSUME IInv, IInv', Next
               PROVE  Abstract!Next \/ UNCHANGED Abstract!vars
    BY DEF vars, fileVars, logVars, Abstract!vars, Call
  <2> USE DEF IInv, fileVars, logVars, Call, Abstract!vars
  <2>1. CASE Calls
    <3>1. ASSUME NEW offset \in Offsets, NEW len \in 1 .. MaxLen, WriteCall(offset, len)
          PROVE  Abstract!Begin("write")
      BY <3>1 DEF WriteCall, Abstract!Begin
    <3>2. ASSUME NEW o \in {"drain", "sync", "close"}, DrainCall(o)
          PROVE  Abstract!Begin(o)
      BY <3>2 DEF DrainCall, Abstract!Begin
    <3> QED BY <2>1, <3>1, <3>2 DEF Calls, Abstract!Next, Abstract!Running
  <2>2. CASE WriteLoop
    <3>1. CASE args.len > 0 /\ ~failed /\ ~MustSwap
      <4>1. pc = "write" /\ pc' = "write" /\ op = "write" /\ op' = "write" /\ CopyByte
        BY <2>2, <3>1 DEF WriteLoop, CopyByte, ControlInv
      <4>2. accepted' = Append(accepted, <<args.offset, Len(accepted) + 1>>)
            /\ UNCHANGED <<written, synced, failed>>
        BY <4>1 DEF CopyByte
      <4>3. <<args.offset, Len(accepted) + 1>> \in Nat \X Nat
        BY LogTypes DEF TypeOK
      <4>4. /\ accepted' \in Seq(Nat \X Nat) /\ Len(accepted') = Len(accepted) + 1
            /\ Len(accepted) \in Nat
            /\ \A i \in 1 .. Len(accepted) : accepted'[i] = accepted[i]
        BY <4>2, <4>3, LogTypes, AppendProperties
      <4>5. Abstract!Accept
        BY <3>1, <4>1, <4>2, <4>4 DEF Abstract!Accept
      <4> QED BY <4>5 DEF Abstract!Next
    <3>2. CASE args.len > 0 /\ ~failed /\ MustSwap
      BY <2>2, <3>2 DEF WriteLoop
    <3>3. CASE ~(args.len > 0 /\ ~failed)
      <4>1. /\ pc = "write" /\ pc' = "idle" /\ op = "write" /\ op' = op
            /\ UNCHANGED <<accepted, written, synced, failed>>
            /\ rc' = ~failed
        BY <2>2, <3>3 DEF WriteLoop, ControlInv
      <4>2. Abstract!Return
        BY <4>1 DEF Abstract!Return, Abstract!Running, TypeOK
      <4> QED BY <4>2 DEF Abstract!Next
    <3> QED BY <3>1, <3>2, <3>3
  <2>3. CASE \/ Resume("submit_wait", "submit") \/ Resume("drain_wait", "drain")
             \/ SubmitNothing \/ SubmitWait \/ SubmitDropped \/ DrainWait
             \/ \E ok \in BOOLEAN : SubmitSwap(ok)
    BY <2>3 DEF Resume, SubmitNothing, SubmitWait, SubmitDropped, DrainWait, SubmitSwap,
                AfterSubmit, Wait
  <2>4. CASE InlineByte \/ WorkerByte
    <3>1. pending # None /\ pc # "closed" /\ UNCHANGED <<accepted, synced, failed, pc, op, rc>>
          /\ MoveByte
      BY <2>4 DEF InlineByte, WorkerByte, ControlInv
    <3> DEFINE byte == <<bufs[pending].offset + pos, bufs[pending].data[pos + 1]>>
               k == Len(written) + 1
    <3>2. written' = Append(written, byte)
      BY <3>1 DEF MoveByte
    <3> HIDE DEF byte
    <3>3. written \in Seq(Nat \X Nat) /\ Len(written) \in Nat /\ Len(accepted) \in Nat
      BY LogTypes
    <3>4. Len(written') = k /\ written'[k] = byte
      BY <3>2, <3>3
    <3>5. Len(written') <= Len(accepted') /\ written'[k] = accepted'[k]
      <4>1. k \in 1 .. Len(written')
        BY <3>3, <3>4
      <4> HIDE DEF k
      <4> QED BY <4>1 DEF LogInv
    <3>6. written' = Append(written, accepted[k]) /\ Len(written) < Len(accepted)
      <4>1. accepted' = accepted
        BY <3>1
      <4>2. byte = accepted[k]
        BY <3>4, <3>5, <4>1
      <4>3. k <= Len(accepted)
        BY <3>4, <3>5, <4>1
      <4> QED BY <3>2, <3>3, <4>2, <4>3
    <3>7. Call # "closed"
      BY <3>1 DEF TypeOK, Ops
    <3>8. Abstract!Flush
      BY <3>1, <3>6, <3>7 DEF Abstract!Flush
    <3> QED BY <3>8 DEF Abstract!Next
  <2>5. ASSUME NEW ok \in BOOLEAN, InlineDone(ok) \/ WorkerDone(ok)
        PROVE  Abstract!Fail \/ UNCHANGED Abstract!vars
    <3>1. /\ ~failed /\ pc # "closed" /\ Call # "closed" /\ Call' = Call
          /\ UNCHANGED <<accepted, written, synced, op, rc>>
          /\ (pc' \in {"idle", "closed"}) <=> (pc \in {"idle", "closed"})
      BY <2>5 DEF InlineDone, WorkerDone, AfterSubmit, ControlInv, TypeOK, Ops
    <3>2. failed' = (failed \/ ~ok)
      BY <2>5 DEF InlineDone, WorkerDone
    <3> HIDE DEF Call
    <3>3. CASE ok
      <4>1. failed' = failed
        BY <3>1, <3>2, <3>3 DEF TypeOK
      <4> QED BY <3>1, <4>1
    <3>4. CASE ~ok
      <4>1. failed' = TRUE
        BY <3>2, <3>4
      <4> QED BY <3>1, <4>1 DEF Abstract!Fail
    <3> QED BY <3>3, <3>4
  <2>6. CASE DrainDone
    <3>1. ~failed => written = accepted
      BY <2>6, DrainedLog DEF DrainDone, ControlInv
    <3>2. op \in {"drain", "sync", "close"} /\ pc = "drain" /\ rc' = ~failed
          /\ UNCHANGED <<accepted, written, synced, failed, op>>
      BY <2>6 DEF DrainDone, ControlInv, TypeOK, Ops
    <3>3. CASE op = "drain" \/ (op = "sync" /\ failed)
      <4>1. pc' = "idle"
        BY <2>6, <3>3 DEF DrainDone
      <4>2. Abstract!Return
        BY <3>1, <3>2, <3>3, <4>1 DEF Abstract!Return, Abstract!Running, TypeOK
      <4> QED BY <4>2 DEF Abstract!Next
    <3>4. CASE ~(op = "drain" \/ (op = "sync" /\ failed))
      <4>1. pc' \in {"fsync", "close_lock"}
        BY <2>6, <3>2, <3>4 DEF DrainDone
      <4> QED BY <3>2, <4>1
    <3> QED BY <3>3, <3>4
  <2>7. ASSUME NEW ok \in BOOLEAN, Fsync(ok)
        PROVE  Abstract!Sync \/ Abstract!SyncReturn \/ UNCHANGED Abstract!vars
    <3>1. written = accepted /\ ~failed /\ op \in {"sync", "close"} /\ pc = "fsync"
      BY <2>7, DrainedLog DEF Fsync, ControlInv
    <3>2. CASE ok /\ op = "sync"
      BY <2>7, <3>1, <3>2 DEF Fsync, Abstract!SyncReturn
    <3>3. CASE ok /\ op = "close"
      BY <2>7, <3>1, <3>3 DEF Fsync, Abstract!Sync
    <3>4. CASE ~ok
      BY <2>7, <3>1, <3>4 DEF Fsync
    <3> QED BY <3>1, <3>2, <3>3, <3>4
  <2>8. CASE FsyncFailed
    <3>1. ~failed /\ ~rc /\ op \in {"sync", "close"} /\ pc = "fsync_failed" /\ failed' = TRUE
          /\ UNCHANGED <<accepted, written, synced, op, rc>>
      BY <2>8 DEF FsyncFailed, ControlInv
    <3>2. CASE op = "sync"
      <4>1. pc' = "idle"
        BY <2>8, <3>2 DEF FsyncFailed
      <4>2. Abstract!Return
        BY <3>1, <3>2, <4>1 DEF Abstract!Return, Abstract!Running, TypeOK
      <4> QED BY <4>2 DEF Abstract!Next
    <3>3. CASE op = "close"
      <4>1. pc' = "close_lock"
        BY <2>8, <3>3 DEF FsyncFailed
      <4>2. Abstract!Fail
        BY <3>1, <3>3, <4>1 DEF Abstract!Fail
      <4> QED BY <4>2 DEF Abstract!Next
    <3> QED BY <3>1, <3>2, <3>3
  <2>9. ASSUME NEW ok \in BOOLEAN, CloseFree(ok)
        PROVE  Abstract!Return
    <3>1. op = "close" /\ pc = "close_lock" /\ pc' = "closed" /\ rc' \in BOOLEAN
          /\ UNCHANGED <<accepted, written, synced, failed, op>>
      BY <2>9 DEF CloseFree, ControlInv, TypeOK
    <3>2. rc' => ~failed /\ synced = Len(accepted) /\ written = accepted
      BY <2>9, DrainedLog DEF CloseFree, ControlInv
    <3> QED BY <3>1, <3>2 DEF Abstract!Return, Abstract!Running, TypeOK
  <2>10. CASE Open
    BY <2>10 DEF Open, Abstract!Reopen, Abstract!Next
  <2>11. CASE WorkerTake
    BY <2>11 DEF WorkerTake
  <2> QED
    BY <2>1, <2>2, <2>3, <2>4, <2>5, <2>6, <2>7, <2>8, <2>9, <2>10, <2>11
       DEF Next, ProducerStep, WorkerStep, Abstract!Next
<1> QED BY <1>1, <1>2, Invariance, PTL DEF Spec, ImplementsOrderedWriter, Abstract!Spec
-----------------------------------------------------------------------------
(* The pool. *)

USE DEF NULL, Workers, Tasks

LEMMA PoolInitInv == PoolInit => PoolIInv
<1> SUFFICES ASSUME PoolInit PROVE PoolIInv
  OBVIOUS
<1> USE ThreadPoolAssumption DEF PoolInit
<1>1. PoolTypeOK
  <2>1. next \in [Tasks -> Tasks \cup {NULL}] /\ worker \in [Workers -> WorkerStates]
        /\ running \in [Workers -> Tasks \cup {NULL}]
    BY DEF WorkerStates
  <2>2. started \in Seq(Tasks)
    OBVIOUS
  <2>3. /\ head = NULL /\ tail = NULL /\ mutex = NULL /\ finished = {}
        /\ owner = "create" /\ shutdown = FALSE /\ broadcast = FALSE
    OBVIOUS
  <2>4. /\ created \in 0 .. WorkerCount /\ joined \in 0 .. WorkerCount
        /\ submitted \in 0 .. MaxTasks
    OBVIOUS
  <2> HIDE DEF PoolInit
  <2> QED
    BY <2>1, <2>2, <2>3, <2>4, Zenon DEF PoolTypeOK, OwnerStates
<1>2. Len(started) = 0
  OBVIOUS
<1>3. PoolControlInv
  BY DEF PoolControlInv, Freed
<1>4. Fifo
  BY <1>2 DEF Fifo, Freed
<1>5. RunsOnce /\ WorkIsNoticed /\ NothingDropped
  BY <1>2 DEF RunsOnce, WorkIsNoticed, NothingDropped, Freed
<1> QED BY <1>1, <1>3, <1>4, <1>5 DEF PoolIInv

LEMMA WorkerLockInv ==
    ASSUME PoolIInv, NEW w \in Workers, WorkerLock(w) PROVE PoolIInv'
<1> USE ThreadPoolAssumption DEF PoolIInv, WorkerLock, poolVars, listVars, ownerVars
<1>1. PoolTypeOK'
  BY DEF PoolTypeOK, WorkerStates, OwnerStates
<1>2. PoolControlInv'
  BY DEF PoolTypeOK, PoolControlInv, Freed
<1>3. Fifo'
  BY DEF PoolTypeOK, PoolControlInv, Fifo, Freed
<1>4. RunsOnce'
  BY DEF PoolTypeOK, PoolControlInv, Fifo, RunsOnce
<1>5. WorkIsNoticed'
  BY DEF PoolTypeOK, PoolControlInv, Fifo, WorkIsNoticed, Freed
<1>6. NothingDropped'
  BY DEF PoolTypeOK, PoolControlInv, Fifo, RunsOnce, WorkIsNoticed, NothingDropped, Freed
<1> QED BY <1>1, <1>2, <1>3, <1>4, <1>5, <1>6 DEF PoolIInv

LEMMA WorkerWillSleepInv ==
    ASSUME PoolIInv, NEW w \in Workers, WorkerWillSleep(w) PROVE PoolIInv'
<1> USE ThreadPoolAssumption DEF PoolIInv, WorkerWillSleep, poolVars, listVars, ownerVars
<1>1. PoolTypeOK'
  BY DEF PoolTypeOK, WorkerStates, OwnerStates
<1>2. PoolControlInv'
  BY DEF PoolTypeOK, PoolControlInv, Freed
<1>3. Fifo'
  BY DEF PoolTypeOK, PoolControlInv, Fifo, Freed
<1>4. RunsOnce'
  BY DEF PoolTypeOK, PoolControlInv, Fifo, RunsOnce
<1>5. WorkIsNoticed'
  BY DEF PoolTypeOK, PoolControlInv, Fifo, WorkIsNoticed, Freed
<1>6. NothingDropped'
  BY DEF PoolTypeOK, PoolControlInv, Fifo, RunsOnce, WorkIsNoticed, NothingDropped, Freed
<1> QED BY <1>1, <1>2, <1>3, <1>4, <1>5, <1>6 DEF PoolIInv

LEMMA WorkerSleepInv ==
    ASSUME PoolIInv, NEW w \in Workers, WorkerSleep(w) PROVE PoolIInv'
<1> USE ThreadPoolAssumption DEF PoolIInv, WorkerSleep, poolVars, listVars, ownerVars
<1>1. PoolTypeOK'
  BY DEF PoolTypeOK, WorkerStates, OwnerStates
<1>2. PoolControlInv'
  BY DEF PoolTypeOK, PoolControlInv, Freed
<1>3. Fifo'
  BY DEF PoolTypeOK, PoolControlInv, Fifo, Freed
<1>4. RunsOnce'
  BY DEF PoolTypeOK, PoolControlInv, Fifo, RunsOnce
<1>5. WorkIsNoticed'
  BY DEF PoolTypeOK, PoolControlInv, Fifo, WorkIsNoticed, Freed
<1>6. NothingDropped'
  BY DEF PoolTypeOK, PoolControlInv, Fifo, RunsOnce, WorkIsNoticed, NothingDropped, Freed
<1> QED BY <1>1, <1>2, <1>3, <1>4, <1>5, <1>6 DEF PoolIInv

LEMMA SpuriousWakeInv ==
    ASSUME PoolIInv, NEW w \in Workers, SpuriousWake(w) PROVE PoolIInv'
<1> USE ThreadPoolAssumption DEF PoolIInv, SpuriousWake, poolVars, listVars, ownerVars
<1>1. PoolTypeOK'
  BY DEF PoolTypeOK, WorkerStates, OwnerStates
<1>2. PoolControlInv'
  BY DEF PoolTypeOK, PoolControlInv, Freed
<1>3. Fifo'
  BY DEF PoolTypeOK, PoolControlInv, Fifo, Freed
<1>4. RunsOnce'
  BY DEF PoolTypeOK, PoolControlInv, Fifo, RunsOnce
<1>5. WorkIsNoticed'
  BY DEF PoolTypeOK, PoolControlInv, Fifo, WorkIsNoticed, Freed
<1>6. NothingDropped'
  BY DEF PoolTypeOK, PoolControlInv, Fifo, RunsOnce, WorkIsNoticed, NothingDropped, Freed
<1> QED BY <1>1, <1>2, <1>3, <1>4, <1>5, <1>6 DEF PoolIInv

LEMMA WorkerExitInv ==
    ASSUME PoolIInv, NEW w \in Workers, WorkerExit(w) PROVE PoolIInv'
<1> USE ThreadPoolAssumption DEF PoolIInv, WorkerExit, poolVars, listVars, ownerVars
<1>1. PoolTypeOK'
  BY DEF PoolTypeOK, WorkerStates, OwnerStates
<1>2. PoolControlInv'
  BY DEF PoolTypeOK, PoolControlInv, Freed
<1>3. Fifo'
  BY DEF PoolTypeOK, PoolControlInv, Fifo, Freed
<1>4. RunsOnce'
  BY DEF PoolTypeOK, PoolControlInv, Fifo, RunsOnce
<1>5. WorkIsNoticed'
  BY DEF PoolTypeOK, PoolControlInv, Fifo, WorkIsNoticed, Freed
<1>6. NothingDropped'
  BY DEF PoolTypeOK, PoolControlInv, Fifo, RunsOnce, WorkIsNoticed, NothingDropped, Freed
<1> QED BY <1>1, <1>2, <1>3, <1>4, <1>5, <1>6 DEF PoolIInv

LEMMA WorkerPopInv ==
    ASSUME PoolIInv, NEW w \in Workers, WorkerPop(w) PROVE PoolIInv'
<1> DEFINE k == Len(started)
<1> USE ThreadPoolAssumption
<1>0. k \in Nat /\ started \in Seq(Tasks) /\ submitted \in Nat
  BY LenProperties DEF PoolIInv, PoolTypeOK
<1>1. ~Freed /\ worker[w] = "test" /\ head \in Tasks
  BY DEF PoolIInv, NothingDropped, PoolTypeOK, WorkerPop
<1>2. k < submitted /\ head = k + 1
  BY <1>0, <1>1 DEF PoolIInv, Fifo
<1>3. \A i \in k + 1 .. submitted : next[i] = IF i < submitted THEN i + 1 ELSE NULL
  BY DEF PoolIInv, Fifo
<1>4. next[head] = IF k + 1 < submitted THEN k + 2 ELSE NULL
  <2> HIDE DEF k
  <2> QED BY <1>0, <1>2, <1>3
<1>5. /\ started' \in Seq(Tasks) /\ Len(started') = k + 1
      /\ \A i \in 1 .. k : started'[i] = started[i]
      /\ started'[k + 1] = k + 1
  BY <1>0, <1>1, <1>2, AppendProperties DEF WorkerPop
<1>6. PoolTypeOK'
  BY <1>1, <1>4, <1>5 DEF PoolIInv, PoolTypeOK, WorkerPop, Pop, ownerVars, WorkerStates, OwnerStates
<1>7. PoolControlInv'
  BY DEF PoolIInv, PoolTypeOK, PoolControlInv, Freed, WorkerPop, ownerVars
<1>8. Fifo'
  <2>1. \A i \in 1 .. k + 1 : started'[i] = i
    <3>1. \A i \in 1 .. k : started[i] = i
      BY DEF PoolIInv, Fifo
    <3> HIDE DEF k
    <3> QED BY <1>0, <1>5, <3>1
  <2>2. /\ head' = IF k + 1 < submitted THEN k + 2 ELSE NULL
        /\ tail' = IF k + 1 < submitted THEN submitted ELSE NULL
    <3>1. tail = submitted
      BY <1>1, <1>2 DEF PoolIInv, Fifo
    <3> HIDE DEF k
    <3> QED BY <1>0, <1>4, <3>1 DEF WorkerPop, Pop
  <2>3. \A i \in k + 2 .. submitted : next'[i] = next[i]
    <3> HIDE DEF k
    <3> QED BY <1>0, <1>2 DEF PoolIInv, PoolTypeOK, WorkerPop, Pop
  <2>4. submitted' = submitted
    BY DEF WorkerPop
  <2>5. \A i \in k + 2 .. submitted : next'[i] = IF i < submitted THEN i + 1 ELSE NULL
    <3> HIDE DEF k
    <3> QED BY <1>0, <1>3, <2>3
  <2> HIDE DEF k
  <2> QED
    BY <1>0, <1>2, <1>5, <2>1, <2>2, <2>4, <2>5 DEF Fifo
<1>9. RunsOnce'
  <2>1. /\ running'[w] = k + 1 /\ worker'[w] = "run" /\ finished' = finished
        /\ \A v \in Workers : v # w => running'[v] = running[v] /\ worker'[v] = worker[v]
    BY <1>2 DEF PoolIInv, PoolTypeOK, WorkerPop
  <2>2. /\ finished \subseteq 1 .. k
        /\ \A v \in Workers : worker[v] = "run" => running[v] \in 1 .. k
        /\ \A v \in Workers : worker[v] = "run" => running[v] \notin finished
        /\ \A u, v \in Workers :
              worker[u] = "run" /\ worker[v] = "run" /\ running[u] = running[v] => u = v
        /\ \A t \in 1 .. k :
              t \in finished \/ \E v \in Workers : worker[v] = "run" /\ running[v] = t
    BY DEF PoolIInv, RunsOnce
  <2> HIDE DEF k
  <2>3. finished' \subseteq 1 .. k + 1 /\ k + 1 \notin finished
    BY <1>0, <2>1, <2>2
  <2>4. \A v \in Workers : worker'[v] = "run" =>
            running'[v] \in 1 .. k + 1 /\ running'[v] \notin finished'
    BY <1>0, <2>1, <2>2, <2>3
  <2>5. \A u, v \in Workers :
            worker'[u] = "run" /\ worker'[v] = "run" /\ running'[u] = running'[v] => u = v
    BY <1>0, <2>1, <2>2
  <2>6. \A t \in 1 .. k + 1 :
            t \in finished' \/ \E v \in Workers : worker'[v] = "run" /\ running'[v] = t
    <3> TAKE t \in 1 .. k + 1
    <3>1. CASE t = k + 1
      BY <2>1, <3>1
    <3>2. CASE t \in 1 .. k
      BY <1>1, <2>1, <2>2, <3>2
    <3> QED BY <1>0, <3>1, <3>2
  <2> QED
    BY <1>5, <2>3, <2>4, <2>5, <2>6 DEF RunsOnce
<1>10. WorkIsNoticed'
  BY DEF PoolIInv, PoolTypeOK, WorkIsNoticed, WorkerPop
<1>11. NothingDropped'
  BY <1>1 DEF NothingDropped, Freed, WorkerPop, ownerVars
<1> QED BY <1>6, <1>7, <1>8, <1>9, <1>10, <1>11 DEF PoolIInv

LEMMA WorkerFinishInv ==
    ASSUME PoolIInv, NEW w \in Workers, WorkerFinish(w) PROVE PoolIInv'
<1> USE ThreadPoolAssumption
<1>1. running[w] \in Tasks /\ running[w] \in 1 .. Len(started)
  BY LenProperties DEF PoolIInv, RunsOnce, PoolTypeOK, Fifo, WorkerFinish
<1>2. PoolTypeOK'
  BY <1>1 DEF PoolIInv, PoolTypeOK, WorkerFinish, listVars, ownerVars, WorkerStates, OwnerStates
<1>3. PoolControlInv'
  BY DEF PoolIInv, PoolTypeOK, PoolControlInv, Freed, WorkerFinish, listVars, ownerVars
<1>4. Fifo'
  BY DEF PoolIInv, Fifo, Freed, WorkerFinish, listVars, ownerVars
<1>5. RunsOnce'
  <2>1. /\ worker'[w] = "lock" /\ started' = started
        /\ finished' = finished \cup {running[w]}
        /\ \A v \in Workers : v # w => running'[v] = running[v] /\ worker'[v] = worker[v]
    BY DEF PoolIInv, PoolTypeOK, WorkerFinish
  <2>2. \A v \in Workers : worker'[v] = "run" => v # w /\ worker[v] = "run"
    BY <2>1
  <2>3. RunsOnce /\ worker[w] = "run"
    BY DEF PoolIInv, WorkerFinish
  <2>4. finished' \subseteq 1 .. Len(started')
    BY <1>1, <2>1, <2>3 DEF RunsOnce
  <2>5. \A v \in Workers : worker'[v] = "run" =>
            running'[v] \in 1 .. Len(started') /\ running'[v] \notin finished'
    BY <2>1, <2>2, <2>3 DEF RunsOnce
  <2>6. \A u, v \in Workers :
            worker'[u] = "run" /\ worker'[v] = "run" /\ running'[u] = running'[v] => u = v
    BY <2>1, <2>2, <2>3 DEF RunsOnce
  <2>7. ASSUME NEW t \in 1 .. Len(started'), t \notin finished'
        PROVE  \E v \in Workers : worker'[v] = "run" /\ running'[v] = t
    <3>1. t \in 1 .. Len(started) /\ t \notin finished /\ t # running[w]
      BY <2>1, <2>7
    <3>2. PICK v \in Workers : worker[v] = "run" /\ running[v] = t
      BY <2>3, <3>1 DEF RunsOnce
    <3> QED BY <2>1, <3>1, <3>2
  <2> QED
    BY <2>4, <2>5, <2>6, <2>7 DEF RunsOnce
<1>6. WorkIsNoticed'
  BY DEF PoolIInv, PoolTypeOK, WorkIsNoticed, WorkerFinish, listVars
<1>7. NothingDropped'
  BY DEF PoolIInv, NothingDropped, Freed, WorkerFinish, ownerVars
<1> QED BY <1>2, <1>3, <1>4, <1>5, <1>6, <1>7 DEF PoolIInv

LEMMA SubmitInv ==
    ASSUME PoolIInv, Submit PROVE PoolIInv'
<1> USE ThreadPoolAssumption DEF PoolIInv, Submit, Push, poolVars, listVars, ownerVars
<1>0. Len(started) \in Nat
  BY LenProperties DEF PoolTypeOK
<1>1. (* the signal changes nobody, or one waiter *)
      /\ worker' \in [Workers -> WorkerStates]
      /\ \A v \in Workers :
            worker'[v] = worker[v] \/ (worker[v] = "waiting" /\ worker'[v] = "lock")
  <2>1. CASE Waiting = {}
    <3>1. worker' = worker
      BY <2>1 DEF Signal
    <3> HIDE DEF Submit
    <3> QED BY <3>1 DEF PoolTypeOK
  <2>2. CASE Waiting # {}
    <3>1. PICK v \in Waiting : worker' = [worker EXCEPT ![v] = "lock"]
      BY <2>2 DEF Signal
    <3>2. v \in Workers /\ worker[v] = "waiting"
      BY DEF Waiting
    <3>3. worker \in [Workers -> WorkerStates] /\ "lock" \in WorkerStates
      BY DEF PoolTypeOK, WorkerStates
    <3> HIDE DEF Submit, PoolIInv, Workers
    <3> QED BY <3>1, <3>2, <3>3
  <2> QED BY <2>1, <2>2
<1>2. created = WorkerCount /\ ~Freed
  <2>1. CASE owner = "up"
    BY <2>1 DEF PoolControlInv, Freed
  <2>2. CASE \E w \in Workers : worker[w] = "run"
    BY <1>0, <2>2 DEF RunsOnce, Fifo, PoolControlInv, NothingDropped, PoolTypeOK
  <2> QED BY <2>1, <2>2 DEF InUse
<1>3. PoolTypeOK'
  <2>1. /\ submitted + 1 \in Tasks /\ submitted' \in 0 .. MaxTasks
        /\ submitted' = submitted + 1
    BY DEF PoolTypeOK, Tasks
  <2>2. /\ head' \in Tasks \cup {NULL} /\ tail' \in Tasks \cup {NULL}
        /\ next' \in [Tasks -> Tasks \cup {NULL}]
    <3>1. /\ head \in Tasks \cup {NULL} /\ tail \in Tasks \cup {NULL}
          /\ next \in [Tasks -> Tasks \cup {NULL}]
      BY DEF PoolTypeOK
    <3>2. Push(submitted + 1)
      OBVIOUS
    <3>3. PICK t \in Tasks : t = submitted + 1
      BY <2>1
    <3>4. Push(t)
      BY <3>2, <3>3
    <3> HIDE DEF PoolIInv, Submit, Tasks
    <3> QED BY <3>1, <3>4
  <2>3. /\ shutdown' = shutdown /\ broadcast' = broadcast /\ running' = running
        /\ mutex' = mutex /\ owner' = owner /\ created' = created /\ joined' = joined
        /\ started' = started /\ finished' = finished
    OBVIOUS
  <2>4. PoolTypeOK
    OBVIOUS
  <2> HIDE DEF PoolIInv, Submit
  <2> QED BY <1>1, <2>1, <2>2, <2>3, <2>4 DEF PoolTypeOK
<1>4. PoolControlInv'
  BY <1>1, <1>2 DEF PoolTypeOK, PoolControlInv, Freed
<1>5. Fifo'
  BY <1>0, <1>2 DEF PoolTypeOK, Fifo, Freed
<1>6. RunsOnce'
  <2>1. /\ running' = running /\ started' = started /\ finished' = finished
        /\ \A v \in Workers : worker'[v] = "run" <=> worker[v] = "run"
    BY <1>1
  <2> HIDE DEF Submit
  <2> QED BY <2>1 DEF RunsOnce
<1>7. WorkIsNoticed'
  <2>1. CASE Waiting = {}
    <3>1. \A v \in Workers : worker[v] \notin {"waiting", "test", "sleep", "exited"}
      BY <2>1 DEF Waiting, PoolControlInv
    <3>2. 1 \in Workers /\ worker[1] \in {"lock", "run"}
      BY <1>2, <3>1 DEF PoolControlInv, PoolTypeOK, WorkerStates
    <3> QED BY <1>1, <3>1, <3>2 DEF WorkIsNoticed
  <2>2. CASE Waiting # {}
    <3>1. PICK v \in Waiting : worker' = [worker EXCEPT ![v] = "lock"]
      BY <2>2 DEF Signal
    <3> QED BY <3>1 DEF PoolTypeOK, Waiting, WorkIsNoticed
  <2> QED BY <2>1, <2>2
<1>8. NothingDropped'
  BY <1>2 DEF NothingDropped, Freed
<1> QED BY <1>3, <1>4, <1>5, <1>6, <1>7, <1>8 DEF PoolIInv

LEMMA CreateWorkerInv ==
    ASSUME PoolIInv, CreateWorker PROVE PoolIInv'
<1> USE ThreadPoolAssumption DEF PoolIInv, CreateWorker, poolVars, listVars, ownerVars
<1>1. PoolTypeOK'
  BY DEF PoolTypeOK, WorkerStates, OwnerStates
<1>2. PoolControlInv'
  BY DEF PoolTypeOK, PoolControlInv, Freed
<1>3. Fifo'
  BY DEF PoolTypeOK, PoolControlInv, Fifo, Freed
<1>4. RunsOnce'
  BY DEF PoolTypeOK, PoolControlInv, Fifo, RunsOnce
<1>5. WorkIsNoticed'
  BY DEF PoolTypeOK, PoolControlInv, Fifo, WorkIsNoticed, Freed
<1>6. NothingDropped'
  BY DEF PoolTypeOK, PoolControlInv, Fifo, RunsOnce, WorkIsNoticed, NothingDropped, Freed
<1> QED BY <1>1, <1>2, <1>3, <1>4, <1>5, <1>6 DEF PoolIInv

LEMMA DestroyInv ==
    ASSUME PoolIInv, Destroy PROVE PoolIInv'
<1> USE ThreadPoolAssumption DEF PoolIInv, Destroy, poolVars, listVars, ownerVars
<1>1. PoolTypeOK'
  BY DEF PoolTypeOK, WorkerStates, OwnerStates
<1>2. PoolControlInv'
  BY DEF PoolTypeOK, PoolControlInv, Freed
<1>3. Fifo'
  BY DEF PoolTypeOK, PoolControlInv, Fifo, Freed
<1>4. RunsOnce'
  BY DEF PoolTypeOK, PoolControlInv, Fifo, RunsOnce
<1>5. WorkIsNoticed'
  BY DEF PoolTypeOK, PoolControlInv, Fifo, WorkIsNoticed, Freed
<1>6. NothingDropped'
  BY DEF PoolTypeOK, PoolControlInv, Fifo, RunsOnce, WorkIsNoticed, NothingDropped, Freed
<1> QED BY <1>1, <1>2, <1>3, <1>4, <1>5, <1>6 DEF PoolIInv

LEMMA StoreShutdownInv ==
    ASSUME PoolIInv, StoreShutdown PROVE PoolIInv'
<1> USE ThreadPoolAssumption DEF PoolIInv, StoreShutdown, poolVars, listVars, ownerVars
<1>1. PoolTypeOK'
  BY DEF PoolTypeOK, WorkerStates, OwnerStates
<1>2. PoolControlInv'
  BY DEF PoolTypeOK, PoolControlInv, Freed
<1>3. Fifo'
  BY DEF PoolTypeOK, PoolControlInv, Fifo, Freed
<1>4. RunsOnce'
  BY DEF PoolTypeOK, PoolControlInv, Fifo, RunsOnce
<1>5. WorkIsNoticed'
  BY DEF PoolTypeOK, PoolControlInv, Fifo, WorkIsNoticed, Freed
<1>6. NothingDropped'
  BY DEF PoolTypeOK, PoolControlInv, Fifo, RunsOnce, WorkIsNoticed, NothingDropped, Freed
<1> QED BY <1>1, <1>2, <1>3, <1>4, <1>5, <1>6 DEF PoolIInv

LEMMA BroadcastInv ==
    ASSUME PoolIInv, Broadcast PROVE PoolIInv'
<1> USE ThreadPoolAssumption DEF PoolIInv, Broadcast, WakeAll, poolVars, listVars, ownerVars
<1>1. PoolTypeOK'
  BY DEF PoolTypeOK, WorkerStates, OwnerStates
<1>2. PoolControlInv'
  BY DEF PoolTypeOK, PoolControlInv, Freed
<1>3. Fifo'
  BY DEF PoolTypeOK, PoolControlInv, Fifo, Freed
<1>4. RunsOnce'
  BY DEF PoolTypeOK, PoolControlInv, Fifo, RunsOnce
<1>5. WorkIsNoticed'
  BY DEF PoolTypeOK, PoolControlInv, Fifo, WorkIsNoticed, Freed
<1>6. NothingDropped'
  BY DEF PoolTypeOK, PoolControlInv, Fifo, RunsOnce, WorkIsNoticed, NothingDropped, Freed
<1> QED BY <1>1, <1>2, <1>3, <1>4, <1>5, <1>6 DEF PoolIInv

LEMMA JoinInv ==
    ASSUME PoolIInv, Join PROVE PoolIInv'
<1> USE ThreadPoolAssumption DEF PoolIInv, Join, poolVars, listVars, ownerVars
<1>1. PoolTypeOK'
  BY DEF PoolTypeOK, WorkerStates, OwnerStates
<1>2. PoolControlInv'
  BY DEF PoolTypeOK, PoolControlInv, Freed
<1>3. Fifo'
  BY DEF PoolTypeOK, PoolControlInv, Fifo, Freed
<1>4. RunsOnce'
  BY DEF PoolTypeOK, PoolControlInv, Fifo, RunsOnce
<1>5. WorkIsNoticed'
  BY DEF PoolTypeOK, PoolControlInv, Fifo, WorkIsNoticed, Freed
<1>6. NothingDropped'
  BY DEF PoolTypeOK, PoolControlInv, Fifo, RunsOnce, WorkIsNoticed, NothingDropped, Freed
<1> QED BY <1>1, <1>2, <1>3, <1>4, <1>5, <1>6 DEF PoolIInv

LEMMA FreeInv ==
    ASSUME PoolIInv, Free PROVE PoolIInv'
<1> USE ThreadPoolAssumption DEF PoolIInv, Free, poolVars, listVars, ownerVars
<1>1. PoolTypeOK'
  BY DEF PoolTypeOK, WorkerStates, OwnerStates
<1>2. PoolControlInv'
  BY DEF PoolTypeOK, PoolControlInv, Freed
<1>3. Fifo'
  BY DEF PoolTypeOK, PoolControlInv, Fifo, Freed
<1>4. RunsOnce'
  BY DEF PoolTypeOK, PoolControlInv, Fifo, RunsOnce
<1>5. WorkIsNoticed'
  BY DEF PoolTypeOK, PoolControlInv, Fifo, WorkIsNoticed, Freed
<1>6. NothingDropped'
  <2>1. \A w \in Workers : worker[w] \in {"exited", "unborn"}
    BY DEF PoolControlInv, PoolTypeOK
  <2>2. Len(started) = submitted
    <3>1. head = NULL
      BY <2>1 DEF WorkIsNoticed
    <3>2. Len(started) \in Nat /\ submitted \in Nat /\ ~Freed
      BY LenProperties DEF PoolTypeOK, Freed
    <3> HIDE DEF Free
    <3> QED BY <3>1, <3>2 DEF Fifo
  <2> QED
    BY <2>1, <2>2 DEF RunsOnce, NothingDropped, Freed
<1> QED BY <1>1, <1>2, <1>3, <1>4, <1>5, <1>6 DEF PoolIInv

LEMMA PoolNextInv == ASSUME PoolIInv, [PoolNext]_poolVars PROVE PoolIInv'
<1>1. CASE \E w \in Workers : PoolWorkerStep(w) \/ SpuriousWake(w)
  BY <1>1, WorkerLockInv, WorkerWillSleepInv, WorkerSleepInv, SpuriousWakeInv, WorkerExitInv,
     WorkerPopInv, WorkerFinishInv DEF PoolWorkerStep
<1>2. CASE OwnerStep
  BY <1>2, CreateWorkerInv, StoreShutdownInv, BroadcastInv, JoinInv, FreeInv DEF OwnerStep
<1>3. CASE UNCHANGED poolVars
  BY <1>3 DEF PoolIInv, PoolTypeOK, PoolControlInv, Fifo, RunsOnce, WorkIsNoticed, NothingDropped, Freed,
     Waiting, poolVars, listVars, ownerVars
<1> QED BY <1>1, <1>2, <1>3, SubmitInv, DestroyInv DEF PoolNext

(* The invariant of the pool, for any number of workers and tasks. *)
THEOREM PoolInvariance == PoolSpec => []PoolIInv
<1>1. PoolInit => PoolIInv
  BY PoolInitInv
<1>2. PoolIInv /\ [PoolNext]_poolVars => PoolIInv'
  BY PoolNextInv
<1> QED BY <1>1, <1>2, PTL DEF PoolSpec

(* The variables of the pool keep their types. *)
THEOREM PoolTypeCorrect == PoolSpec => []PoolTypeOK
BY PoolInvariance, PTL DEF PoolIInv

(* thread_pool_push_locked and _pop_locked keep the list exact: tasks are  *)
(* started once each, in the order they were submitted.                    *)
THEOREM FirstInFirstOut == PoolSpec => []Fifo
BY PoolInvariance, PTL DEF PoolIInv

(* No task runs on two workers, and none runs again after it returned. *)
THEOREM NeverTwice == PoolSpec => []RunsOnce
BY PoolInvariance, PTL DEF PoolIInv

(* The wake-up of a submission is never lost. *)
THEOREM NoLostSubmission == PoolSpec => []WorkIsNoticed
BY PoolInvariance, PTL DEF PoolIInv

(* thread_pool_destroy frees the pool only when every accepted task has    *)
(* been run.                                                               *)
THEOREM DestroyRunsEverything == PoolSpec => []NothingDropped
BY PoolInvariance, PTL DEF PoolIInv
=============================================================================
