--------------------------- MODULE PtyBridge_proof ---------------------------
(***************************************************************************)
(* Proofs about the terminal bridge, for buffers of any size and any       *)
(* amount of input and output.                                             *)
(***************************************************************************)
EXTENDS PtyBridge, SequenceTheorems, TLAPS

\* What one read() takes fits the buffer, and the rest stays (pty_bridge.c:159, 167).
LEMMA ChunkFacts ==
  ASSUME NEW s \in Seq(Bytes)
  PROVE  /\ Chunk(s) \in Seq(Bytes) /\ Beyond(s) \in Seq(Bytes)
         /\ Len(Chunk(s)) <= BufSize
<1> DEFINE n == IF Len(s) < BufSize THEN Len(s) ELSE BufSize
<1>1. BufSize \in Nat /\ BufSize > 0
  BY SizesAssumption
<1>2. n \in Nat /\ n <= Len(s) /\ n <= BufSize /\ Len(s) \in Nat
  BY <1>1
<1> HIDE DEF n
<1>3. \A i \in 1..Len(s) : s[i] \in Bytes
  OBVIOUS
<1>4. SubSeq(s, 1, n) \in Seq(Bytes) /\ Len(SubSeq(s, 1, n)) = IF 1 <= n THEN n - 1 + 1 ELSE 0
  BY <1>2, <1>3, SubSeqProperties
<1>5. Len(SubSeq(s, 1, n)) = n
  BY <1>2, <1>4
<1>6. SubSeq(s, n + 1, Len(s)) \in Seq(Bytes)
  BY <1>2, <1>3, SubSeqProperties
<1>7. Chunk(s) = SubSeq(s, 1, n) /\ Beyond(s) = SubSeq(s, n + 1, Len(s))
  BY <1>5 DEF Chunk, Beyond, n
<1> QED
  BY <1>2, <1>4, <1>5, <1>6, <1>7

\* Moving one byte keeps the types of both ends.
LEMMA MoveByte ==
  ASSUME NEW s \in Seq(Bytes), NEW r \in Seq(Bytes), s # <<>>
  PROVE  /\ Append(r, Head(s)) \in Seq(Bytes) /\ Tail(s) \in Seq(Bytes)
         /\ Len(s) <= BufSize => Len(Tail(s)) <= BufSize
BY SizesAssumption

\* So does adding one.
LEMMA AddByte ==
  ASSUME NEW s \in Seq(Bytes), NEW max \in Nat, NEW n \in 0..max, n < max
  PROVE  /\ n + 1 \in 0..max
         /\ Append(s, n + 1) \in Seq(Bytes) /\ Append(s, n + 1) # <<>>
<1>1. n + 1 \in Bytes /\ n + 1 \in 0..max
  BY DEF Bytes
<1> QED
  BY <1>1

LEMMA EmptyFits == <<>> \in Seq(Bytes) /\ Len(<<>>) <= BufSize
BY SizesAssumption

\* The calls of the handler are one or two, or none.
Frames == {h \in Seq(Statements) : Len(h) <= 2}

\* One more call starts.
LEMMA FramePushed ==
  ASSUME NEW h \in Frames, Len(h) < 2
  PROVE  /\ Append(h, "flag") \in Frames /\ Len(Append(h, "flag")) = Len(h) + 1
         /\ \A i \in 1..Len(h) : Append(h, "flag")[i] = h[i]
         /\ Append(h, "flag")[Len(h) + 1] = "flag"
<1>1. h \in Seq(Statements) /\ "flag" \in Statements /\ Len(h) \in Nat
  BY DEF Frames, Statements
<1>2. Append(h, "flag") \in Seq(Statements) /\ Len(Append(h, "flag")) = Len(h) + 1
  BY <1>1
<1> QED
  BY <1>1, <1>2 DEF Frames

\* The last call returns.
LEMMA FramePopped ==
  ASSUME NEW h \in Frames, h # <<>>
  PROVE  /\ Last(h) = h[Len(h)] /\ Len(h) \in 1..2
         /\ Front(h) \in Frames /\ Len(Front(h)) = Len(h) - 1
         /\ \A i \in 1..(Len(h) - 1) : Front(h)[i] = h[i]
<1>a. h \in Seq(Statements) /\ Len(h) \in Nat /\ Len(h) <= 2
  BY DEF Frames
<1>b. Len(h) # 0 /\ \A i \in 1..Len(h) : h[i] \in Statements
  BY <1>a, EmptySeq
<1>c. Len(h) \in 1..2
  <2>1. \A n \in Nat : n <= 2 /\ n # 0 => n \in 1..2
    OBVIOUS
  <2>2. Len(h) \in Nat /\ Len(h) <= 2 /\ Len(h) # 0
    BY <1>a, <1>b
  <2> QED
    BY <2>1, <2>2
<1>1. h \in Seq(Statements) /\ Len(h) \in 1..2 /\ \A i \in 1..Len(h) : h[i] \in Statements
  BY <1>a, <1>b, <1>c
<1>2. 1 \in Int /\ Len(h) - 1 \in Int /\ \A i \in 1..(Len(h) - 1) : h[i] \in Statements
  BY <1>1
<1> DEFINE f == SubSeq(h, 1, Len(h) - 1)
<1>3. /\ f \in Seq(Statements)
      /\ Len(f) = IF 1 <= Len(h) - 1 THEN Len(h) - 1 - 1 + 1 ELSE 0
      /\ \A i \in 1..(Len(h) - 1 - 1 + 1) : f[i] = h[1 + i - 1]
  BY <1>2, SubSeqProperties
<1>6. Front(h) = f /\ Last(h) = h[Len(h)]
  BY DEF Front, Last
<1> HIDE DEF f
<1>4. Len(f) = Len(h) - 1
  <2> DEFINE n == Len(h)
             k == Len(f)
  <2>1. n \in 1..2 /\ k = IF 1 <= n - 1 THEN n - 1 - 1 + 1 ELSE 0
    BY <1>1, <1>3
  <2> HIDE DEF n, k
  <2>2. k = n - 1
    BY <2>1
  <2> QED
    BY <2>2 DEF n, k
<1>5. \A i \in 1..(Len(h) - 1) : f[i] = h[i]
  BY <1>1, <1>3
<1> QED
  BY <1>1, <1>3, <1>4, <1>5, <1>6 DEF Frames

\* The last call goes on.
LEMMA FrameMoved ==
  ASSUME NEW h \in Frames, h # <<>>, NEW s \in Statements
  PROVE  /\ Append(Front(h), s) \in Frames /\ Len(Append(Front(h), s)) = Len(h)
         /\ Append(Front(h), s)[Len(h)] = s
         /\ \A i \in 1..(Len(h) - 1) : Append(Front(h), s)[i] = h[i]
<1> DEFINE r == Front(h)
<1>1. /\ r \in Frames /\ Len(r) = Len(h) - 1 /\ Len(h) \in 1..2
      /\ \A i \in 1..(Len(h) - 1) : r[i] = h[i]
  BY FramePopped
<1> HIDE DEF r
<1>2. r \in Seq(Statements)
  BY <1>1 DEF Frames
<1>3. Append(r, s) \in Seq(Statements) /\ Len(Append(r, s)) = Len(h) /\ Append(r, s)[Len(h)] = s
  BY <1>1, <1>2
<1>4. \A i \in 1..(Len(h) - 1) : Append(r, s)[i] = h[i]
  BY <1>1, <1>2
<1>5. Append(r, s) \in Frames
  BY <1>1, <1>3 DEF Frames
<1> QED
  BY <1>3, <1>4, <1>5 DEF r

\* A signal leaves the loop's state well typed, whatever call it interrupts.
LEMMA InterruptedTypes ==
  ASSUME TypeOK, Armed, pc \notin {"done", "killed"}, NEW b \in BOOLEAN, raw' = raw,
         Interrupted(b) \/ UNCHANGED <<pc, buf, cut>>
  PROVE  /\ pc' \in Places /\ buf' \in Seq(Bytes) /\ Len(buf') <= BufSize /\ cut' \in BOOLEAN
         /\ buf' # <<>> => pc' \in {"out", "fwd"}
         /\ raw' => pc' \in Loop \cup {"restore"}
         /\ pc' \notin {"enter", "done", "killed"}
<1> USE DEF TypeOK, Places, Loop, Over, Armed
<1>1. CASE pc = "select" /\ pc' = (IF b THEN "restore" ELSE "select") /\ UNCHANGED <<buf, cut>>
  BY <1>1
<1>2. CASE /\ pc \in {"out", "fwd"} /\ pc' = (IF pc = "out" THEN "in" ELSE "select")
           /\ buf' = <<>> /\ cut' = (cut \/ buf # <<>>)
  BY <1>2, EmptyFits
<1>3. CASE pc = "wait" /\ pc' = "return" /\ UNCHANGED <<buf, cut>>
  BY <1>3
<1>4. CASE UNCHANGED <<pc, buf, cut>>
  BY <1>4
<1> QED
  BY <1>1, <1>2, <1>3, <1>4 DEF Interrupted

\* Types are kept by every step.
LEMMA TypeStep == TypeOK /\ [Next]_vars => TypeOK'
<1> SUFFICES ASSUME TypeOK, [Next]_vars PROVE TypeOK'
  OBVIOUS
<1>p. /\ handlers \in Frames
      /\ on_term => handlers' \in Frames
      /\ SetTerminate => handlers' \in Frames
      /\ CloseMaster => handlers' \in Frames
      /\ ForgetMaster => handlers' \in Frames
  <2>1. handlers \in Frames
    BY DEF TypeOK, Frames
  <2>2. on_term => handlers' \in Frames
    BY <2>1, FramePushed DEF on_term
  <2>3. SetTerminate => handlers' \in Frames
    <3> SUFFICES ASSUME SetTerminate PROVE handlers' \in Frames
      OBVIOUS
    <3>1. "close" \in Statements /\ handlers # <<>>
      BY DEF Statements, SetTerminate, Running
    <3>2. handlers' = Front(handlers) \/ handlers' = Append(Front(handlers), "close")
      BY DEF SetTerminate, GoesOn, Returns
    <3>3. Front(handlers) \in Frames
      BY <2>1, <3>1, FramePopped
    <3>4. Append(Front(handlers), "close") \in Frames
      BY <2>1, <3>1, FrameMoved
    <3> QED
      BY <3>2, <3>3, <3>4
  <2>4. CloseMaster => handlers' \in Frames
    <3> SUFFICES ASSUME CloseMaster PROVE handlers' \in Frames
      OBVIOUS
    <3>1. "forget" \in Statements /\ handlers # <<>> /\ handlers' = Append(Front(handlers), "forget")
      BY DEF Statements, CloseMaster, Running, GoesOn
    <3> QED
      BY <2>1, <3>1, FrameMoved
  <2>5. ForgetMaster => handlers' \in Frames
    BY <2>1, FramePopped DEF ForgetMaster, Running, Returns
  <2> QED
    BY <2>1, <2>2, <2>3, <2>4, <2>5
<1> USE DEF TypeOK, Places, Loop, Over, loopVars, masterVars, streamVars
<1>h. /\ handlers # <<>> => pc \notin {"enter", "done", "killed"}
      /\ closes \in Nat
  OBVIOUS
<1>1. CASE handlers = <<>> /\ Enter
  BY <1>1 DEF Enter
<1>2. CASE handlers = <<>> /\ Select
  BY <1>2 DEF Select, Readable
<1>3. CASE handlers = <<>> /\ SelectFails
  BY <1>3 DEF SelectFails
<1>4. CASE handlers = <<>> /\ ReadMaster
  BY <1>4, ChunkFacts DEF ReadMaster
<1>5. CASE handlers = <<>> /\ ReadStdin
  BY <1>5, ChunkFacts DEF ReadStdin
<1>6. CASE handlers = <<>> /\ WriteOut
  <2>1. CASE buf = <<>>
    BY <1>6, <2>1 DEF WriteOut
  <2>2. CASE buf # <<>> /\ terminal = "taking"
    <3>1. Append(shown, Head(buf)) \in Seq(Bytes) /\ Tail(buf) \in Seq(Bytes) /\ Len(Tail(buf)) <= BufSize
      BY <2>2, MoveByte
    <3> QED
      BY <1>6, <2>2, <3>1 DEF WriteOut
  <2>3. CASE buf # <<>> /\ terminal # "taking"
    BY <1>6, <2>3, EmptyFits DEF WriteOut
  <2> QED
    BY <2>1, <2>2, <2>3
<1>7. CASE handlers = <<>> /\ WriteMaster
  <2>1. CASE buf = <<>>
    BY <1>7, <2>1 DEF WriteMaster
  <2>2. CASE buf # <<>> /\ ~WriteFails
    <3>1. Append(inq, Head(buf)) \in Seq(Bytes) /\ Tail(buf) \in Seq(Bytes) /\ Len(Tail(buf)) <= BufSize
      BY <2>2, MoveByte
    <3> QED
      BY <1>7, <2>2, <3>1 DEF WriteMaster
  <2>3. CASE buf # <<>> /\ WriteFails
    BY <1>7, <2>3, EmptyFits DEF WriteMaster
  <2> QED
    BY <2>1, <2>2, <2>3
<1>8. CASE handlers = <<>> /\ (Restore \/ Reaped \/ Return)
  <2>1. CASE handlers = <<>> /\ Restore
    BY <2>1 DEF Restore
  <2>2. CASE handlers = <<>> /\ Reaped
    BY <2>2 DEF Reaped
  <2>3. CASE handlers = <<>> /\ Return
    BY <2>3 DEF Return
  <2> QED
    BY <1>8, <2>1, <2>2, <2>3
<1>9. CASE pc \notin {"done", "killed"} /\ on_term
  <2>1. /\ handlers' = Append(handlers, "flag") /\ Len(handlers) < 2
        /\ UNCHANGED <<rfds, g_master_fd, g_terminate, closes, raw, streamVars, terminal, child>>
        /\ Armed /\ (Interrupted(TRUE) \/ UNCHANGED <<pc, buf, cut>>)
    BY <1>9 DEF on_term
  <2>2. handlers' \in Seq(Statements) /\ Len(handlers') <= 2
    BY <1>p, <1>9 DEF Frames
  <2>3. /\ pc' \in Places /\ buf' \in Seq(Bytes) /\ Len(buf') <= BufSize /\ cut' \in BOOLEAN
        /\ buf' # <<>> => pc' \in {"out", "fwd"}
        /\ raw' => pc' \in Loop \cup {"restore"}
        /\ pc' \notin {"enter", "done", "killed"}
    BY <1>9, <2>1, InterruptedTypes
  <2> QED
    BY <1>h, <2>1, <2>2, <2>3
<1>10. CASE pc \notin {"done", "killed"} /\ on_winch
  <2>1. /\ UNCHANGED masterVars /\ UNCHANGED <<rfds, raw, streamVars, terminal, child>>
        /\ Armed /\ Interrupted(g_terminate)
    BY <1>10 DEF on_winch
  <2>2. /\ pc' \in Places /\ buf' \in Seq(Bytes) /\ Len(buf') <= BufSize /\ cut' \in BOOLEAN
        /\ buf' # <<>> => pc' \in {"out", "fwd"}
        /\ raw' => pc' \in Loop \cup {"restore"}
        /\ pc' \notin {"enter", "done", "killed"}
    BY <1>10, <2>1, InterruptedTypes
  <2> QED
    BY <2>1, <2>2
<1>11. CASE SetTerminate
  <2>1. /\ handlers # <<>> /\ g_terminate' = TRUE
        /\ handlers' = Front(handlers) \/ handlers' = Append(Front(handlers), "close")
        /\ UNCHANGED <<pc, loopVars, g_master_fd, closes, raw, streamVars, cut, terminal, child>>
    BY <1>11 DEF SetTerminate, Running, GoesOn, Returns
  <2>2. handlers' \in Seq(Statements) /\ Len(handlers') <= 2
    BY <1>p, <1>11 DEF Frames
  <2> QED
    BY <1>h, <2>1, <2>2
<1>12. CASE CloseMaster
  <2>1. /\ handlers # <<>> /\ handlers' = Append(Front(handlers), "forget")
        /\ closes' = closes + 1 \/ closes' = closes
        /\ UNCHANGED <<pc, loopVars, g_master_fd, g_terminate, raw, streamVars, cut, terminal, child>>
    BY <1>12 DEF CloseMaster, Running, GoesOn
  <2>2. handlers' \in Seq(Statements) /\ Len(handlers') <= 2
    BY <1>p, <1>12 DEF Frames
  <2> QED
    BY <1>h, <2>1, <2>2
<1>13. CASE ForgetMaster
  <2>1. /\ handlers # <<>> /\ handlers' = Front(handlers) /\ g_master_fd' = FALSE
        /\ UNCHANGED <<pc, loopVars, g_terminate, closes, raw, streamVars, cut, terminal, child>>
    BY <1>13 DEF ForgetMaster, Running, Returns
  <2>2. handlers' \in Seq(Statements) /\ Len(handlers') <= 2
    BY <1>p, <1>13 DEF Frames
  <2> QED
    BY <1>h, <2>1, <2>2
<1>14. CASE Type
  BY <1>14, AddByte, SizesAssumption DEF Type
<1>15. CASE EndOfInput
  BY <1>15 DEF EndOfInput
<1>16. CASE ContainerReads
  BY <1>16, MoveByte DEF ContainerReads
<1>17. CASE ContainerWrites
  BY <1>17, AddByte, SizesAssumption DEF ContainerWrites
<1>18. CASE ContainerExits
  BY <1>18 DEF ContainerExits
<1>19. CASE Stall \/ Resume
  <2>1. CASE Stall
    BY <2>1 DEF Stall
  <2>2. CASE Resume
    BY <2>2 DEF Resume
  <2> QED
    BY <1>19, <2>1, <2>2
<1>20. CASE HangUp
  BY <1>20, EmptyFits DEF HangUp
<1>21. CASE UNCHANGED vars
  BY <1>21 DEF vars
<1> HIDE DEF TypeOK
<1> QED
  BY <1>1, <1>2, <1>3, <1>4, <1>5, <1>6, <1>7, <1>8, <1>9, <1>10, <1>11, <1>12, <1>13, <1>14,
     <1>15, <1>16, <1>17, <1>18, <1>19, <1>20, <1>21 DEF Next, Bridge, Handler, Environment

(***************************************************************************)
(* TypeOK holds for buffers, terminals and streams of any size: what is    *)
(* read fits buf[], and the terminal is raw only inside the loop           *)
(* (pty_bridge.c:109-176).                                                 *)
(***************************************************************************)
THEOREM TypeCorrect == Spec => []TypeOK
<1>1. Init => TypeOK
  <2>1. 0 \in 0..MaxTyped /\ 0 \in 0..MaxWritten
    BY SizesAssumption
  <2>2. <<>> \in Seq(Statements) /\ Len(<<>>) <= 2
    OBVIOUS
  <2> QED
    <3> SUFFICES ASSUME Init PROVE TypeOK
      OBVIOUS
    <3>1. Len(<<>>) = 0
      OBVIOUS
    <3> QED
      BY <2>1, <2>2, <3>1, EmptyFits DEF Init, TypeOK, Places, Loop, Over
<1> QED
  BY <1>1, TypeStep, PTL DEF Spec

-----------------------------------------------------------------------------
(* The master descriptor *)

\* How many calls of the handler have closed the master and not yet forgotten it.
Forgetting(h) == (IF Len(h) >= 1 /\ h[1] = "forget" THEN 1 ELSE 0)
               + (IF Len(h) = 2 /\ h[2] = "forget" THEN 1 ELSE 0)

(***************************************************************************)
(* As long as the global names the master, each call of close() is still   *)
(* to be followed by its line 40.  Once it does not, no handler that       *)
(* starts closes anything, and only an outer one may still be about to     *)
(* close a second time.                                                    *)
(***************************************************************************)
MasterInv ==
  /\ closes <= 2
  /\ pc = "enter" => ~g_master_fd /\ ~g_terminate /\ closes = 0
  /\ pc \notin {"enter", "done", "killed"} /\ ~g_master_fd => g_terminate /\ closes >= 1
  /\ g_master_fd => closes = Forgetting(handlers)
  /\ g_master_fd /\ g_terminate => \E i \in 1..Len(handlers) : handlers[i] # "flag"
  /\ (\E i \in 1..Len(handlers) : handlers[i] # "flag") => g_terminate
  /\ ~g_master_fd /\ Len(handlers) >= 1 /\ handlers[1] = "close" => closes = 1
  /\ Len(handlers) = 2 /\ handlers[2] # "flag" => g_master_fd
  /\ g_terminate => g_master_fd \/ closes >= 1

LEMMA MasterStep == TypeOK /\ MasterInv /\ [Next]_vars => MasterInv'
<1> SUFFICES ASSUME TypeOK, MasterInv, [Next]_vars PROVE MasterInv'
  OBVIOUS
<1> DEFINE h == handlers
<1>t. /\ h \in Frames /\ closes \in Nat /\ g_master_fd \in BOOLEAN /\ g_terminate \in BOOLEAN
      /\ h # <<>> => pc \notin {"enter", "done", "killed"}
  BY DEF TypeOK, Frames
<1>h. /\ Len(h) \in 0..2 /\ (h = <<>> <=> Len(h) = 0)
      /\ \A i \in 1..Len(h) : h[i] \in {"flag", "close", "forget"}
      /\ h # <<>> => Last(h) = h[Len(h)]
  BY <1>t, FramePopped DEF Frames, Statements
<1>1. ASSUME UNCHANGED masterVars, pc' # "enter", pc # "enter", pc' \in {"done", "killed"} \/ pc \notin {"done", "killed"}
      PROVE  MasterInv'
  BY <1>1, <1>t DEF MasterInv, masterVars, Forgetting
<1>2. CASE h = <<>> /\ Enter
  BY <1>2, <1>h, <1>t DEF Enter, MasterInv, Forgetting
<1>3. CASE \/ Select \/ SelectFails \/ ReadMaster \/ WriteOut \/ ReadStdin \/ WriteMaster
           \/ Restore \/ Reaped
  <2>1. UNCHANGED masterVars /\ pc \notin {"enter", "done", "killed"} /\ pc' # "enter"
    BY <1>3 DEF Select, SelectFails, ReadMaster, WriteOut, ReadStdin, WriteMaster, Restore, Reaped, masterVars
  <2> QED
    BY <1>1, <2>1
<1>4. CASE h = <<>> /\ Return
  BY <1>4, <1>h, <1>t DEF Return, MasterInv, Forgetting
<1>5. CASE on_winch /\ pc \notin {"done", "killed"}
  <2>1. UNCHANGED masterVars /\ pc \notin {"enter", "done", "killed"} /\ pc' # "enter"
    BY <1>5 DEF on_winch, Armed, Interrupted, masterVars
  <2> QED
    BY <1>1, <2>1
<1>6. CASE on_term /\ pc \notin {"done", "killed"}
  <2>1. /\ Len(h) < 2 /\ handlers' = Append(h, "flag") /\ UNCHANGED <<g_master_fd, g_terminate, closes>>
        /\ pc \notin {"enter", "done", "killed"} /\ pc' # "enter"
    BY <1>6 DEF on_term, Armed, Interrupted
  <2>2. /\ Len(handlers') = Len(h) + 1 /\ handlers'[Len(h) + 1] = "flag"
        /\ \A i \in 1..Len(h) : handlers'[i] = h[i]
    BY <1>t, <2>1, FramePushed
  <2>3. Forgetting(handlers') = Forgetting(h)
    BY <1>h, <2>1, <2>2 DEF Forgetting
  <2>4. (\E i \in 1..Len(handlers') : handlers'[i] # "flag") <=> (\E i \in 1..Len(h) : h[i] # "flag")
    BY <1>h, <2>2
  <2>5. Len(h) >= 1 => handlers'[1] = h[1]
    BY <1>h, <2>2
  <2>6. Len(handlers') = 2 => handlers'[2] = "flag"
    BY <1>h, <2>2
  <2>7. Len(h) = 0 => handlers'[1] = "flag"
    BY <2>2
  <2> QED
    BY <1>h, <1>t, <2>1, <2>2, <2>3, <2>4, <2>5, <2>6, <2>7 DEF MasterInv
<1>7. ASSUME h # <<>> PROVE Len(h) = 1 \/ Len(h) = 2
  BY <1>7, <1>h
<1>8. CASE SetTerminate
  <2>1. /\ h # <<>> /\ h[Len(h)] = "flag" /\ g_terminate' = TRUE
        /\ IF g_master_fd THEN handlers' = Append(Front(h), "close") ELSE handlers' = Front(h)
        /\ UNCHANGED <<pc, g_master_fd, closes>>
    BY <1>8, <1>h DEF SetTerminate, Running, GoesOn, Returns
  <2>2. CASE g_master_fd
    <3>1. /\ Len(handlers') = Len(h) /\ handlers'[Len(h)] = "close"
          /\ \A i \in 1..(Len(h) - 1) : handlers'[i] = h[i]
      BY <1>t, <2>1, <2>2, FramePopped, FrameMoved DEF Statements
    <3>2. Forgetting(handlers') = Forgetting(h)
      BY <1>7, <2>1, <3>1 DEF Forgetting
    <3>3. \E i \in 1..Len(handlers') : handlers'[i] # "flag"
      BY <1>7, <2>1, <3>1
    <3> QED
      BY <1>t, <1>7, <2>1, <2>2, <3>1, <3>2, <3>3 DEF MasterInv
  <2>3. CASE ~g_master_fd
    <3>1. Len(handlers') = Len(h) - 1 /\ \A i \in 1..(Len(h) - 1) : handlers'[i] = h[i]
      BY <1>t, <2>1, <2>3, FramePopped, FrameMoved DEF Statements
    <3>2. Len(handlers') # 2 /\ (Len(handlers') >= 1 => handlers'[1] = h[1])
      BY <1>7, <2>1, <3>1
    <3>3. closes >= 1 /\ g_terminate
      BY <1>t, <2>1, <2>3 DEF MasterInv
    <3> QED
      BY <1>t, <1>h, <2>1, <2>3, <3>1, <3>2, <3>3 DEF MasterInv
  <2> QED
    BY <2>2, <2>3
<1>9. CASE CloseMaster
  <2>1. /\ h # <<>> /\ h[Len(h)] = "close" /\ handlers' = Append(Front(h), "forget")
        /\ closes' = closes + 1 \/ (~g_master_fd /\ closes' = closes)
        /\ UNCHANGED <<pc, g_master_fd, g_terminate>>
    BY <1>9, <1>h DEF CloseMaster, Running, GoesOn
  <2>2. /\ Len(handlers') = Len(h) /\ handlers'[Len(h)] = "forget"
        /\ \A i \in 1..(Len(h) - 1) : handlers'[i] = h[i]
    <3>1. "forget" \in Statements
      BY DEF Statements
    <3>2. /\ Len(Append(Front(h), "forget")) = Len(h) /\ Append(Front(h), "forget")[Len(h)] = "forget"
          /\ \A i \in 1..(Len(h) - 1) : Append(Front(h), "forget")[i] = h[i]
      BY <1>t, <2>1, <3>1, FrameMoved
    <3> QED
      BY <2>1, <3>2
  <2>3. Forgetting(handlers') = Forgetting(h) + 1 /\ Forgetting(handlers') <= 2
    BY <1>7, <2>1, <2>2 DEF Forgetting
  <2>4. (\E i \in 1..Len(h) : h[i] # "flag") /\ (\E i \in 1..Len(h) : handlers'[i] # "flag")
    BY <1>7, <2>1, <2>2
  <2>5. CASE g_master_fd
    <3>1. closes' = Forgetting(handlers')
      BY <1>t, <2>1, <2>3, <2>5 DEF MasterInv
    <3> QED
      BY <1>t, <1>h, <2>1, <2>2, <2>3, <2>4, <2>5, <3>1 DEF MasterInv
  <2>6. CASE ~g_master_fd
    <3>1. Len(h) = 1
      BY <1>7, <2>1, <2>6 DEF MasterInv
    <3>2. closes = 1 /\ handlers'[1] = "forget"
      BY <2>1, <2>2, <2>6, <3>1 DEF MasterInv
    <3> QED
      BY <1>t, <2>1, <2>2, <2>4, <2>6, <3>1, <3>2 DEF MasterInv
  <2> QED
    BY <2>5, <2>6, <1>t
<1>10. CASE ForgetMaster
  <2>1. /\ h # <<>> /\ h[Len(h)] = "forget" /\ handlers' = Front(h) /\ g_master_fd' = FALSE
        /\ UNCHANGED <<pc, g_terminate, closes>>
    BY <1>10, <1>h DEF ForgetMaster, Running, Returns
  <2>2. Len(handlers') = Len(h) - 1 /\ \A i \in 1..(Len(h) - 1) : handlers'[i] = h[i]
    BY <1>t, <2>1, FramePopped
  <2>3. g_terminate
    BY <1>7, <2>1 DEF MasterInv
  <2>4. closes >= 1
    BY <1>7, <1>t, <2>1 DEF MasterInv, Forgetting
  <2>5. CASE Len(h) = 1
    BY <1>t, <2>1, <2>2, <2>3, <2>4, <2>5 DEF MasterInv
  <2>6. CASE Len(h) = 2
    <3>1. g_master_fd
      BY <1>t, <2>1, <2>6 DEF MasterInv
    <3>2. handlers'[1] = h[1] /\ Len(handlers') = 1
      BY <2>2, <2>6
    <3>3. h[1] = "close" => closes = 1
      BY <2>1, <2>6, <3>1 DEF MasterInv, Forgetting
    <3> QED
      BY <1>t, <2>1, <2>3, <2>4, <3>2, <3>3 DEF MasterInv
  <2> QED
    BY <1>7, <2>1, <2>5, <2>6
<1>11. CASE \/ Type \/ EndOfInput \/ ContainerReads \/ ContainerWrites \/ ContainerExits
            \/ Stall \/ Resume \/ HangUp
  <2>1. UNCHANGED masterVars /\ pc' = pc
    BY <1>11 DEF Type, EndOfInput, ContainerReads, ContainerWrites, ContainerExits, Stall, Resume, HangUp, masterVars
  <2> QED
    BY <2>1 DEF MasterInv, masterVars, Forgetting
<1>12. CASE UNCHANGED vars
  BY <1>12 DEF vars, MasterInv, masterVars, Forgetting
<1> QED
  BY <1>2, <1>3, <1>4, <1>5, <1>6, <1>8, <1>9, <1>10, <1>11, <1>12 DEF Next, Bridge, Handler, Environment

(***************************************************************************)
(* However often SIGTERM and SIGHUP come and wherever they nest, the       *)
(* master's number is closed twice at most, and never once the handlers    *)
(* have returned (MasterClosedOnce; pty_bridge.c:35-42).                   *)
(***************************************************************************)
THEOREM ClosesOnce == Spec => []MasterClosedOnce
<1>1. Init => MasterInv
  BY DEF Init, MasterInv, Forgetting
<1>2. TypeOK /\ MasterInv => MasterClosedOnce
  <2> SUFFICES ASSUME TypeOK, MasterInv PROVE MasterClosedOnce
    OBVIOUS
  <2>1. closes \in Nat /\ closes <= 2
    BY DEF TypeOK, MasterInv
  <2>2. ASSUME handlers = <<>>
        PROVE  (g_master_fd => closes = 0) /\ (g_terminate => closes > 0)
    <3>1. Len(handlers) = 0
      BY <2>2
    <3>2. Forgetting(handlers) = 0
      BY <3>1 DEF Forgetting
    <3> QED
      BY <2>1, <3>1, <3>2 DEF MasterInv
  <2> QED
    BY <2>1, <2>2 DEF MasterClosedOnce
<1> QED
  BY <1>1, <1>2, MasterStep, TypeCorrect, PTL DEF Spec

-----------------------------------------------------------------------------
(* The end of the loop *)

\* What select() has found is still so when it is used, since only the loop itself reads; and
\* what the loop ended for is still so afterwards.
ReadyInv ==
  /\ pc = "master" /\ "master" \in rfds => outq # <<>> \/ child = "exited"
  /\ pc \in {"master", "out", "in"} /\ "stdin" \in rfds => stdin # <<>> \/ eof
  /\ LastWordsRead

LEMMA ReadyStep == TypeOK /\ MasterInv /\ ReadyInv /\ [Next]_vars => ReadyInv'
<1> SUFFICES ASSUME TypeOK, MasterInv, ReadyInv, [Next]_vars PROVE ReadyInv'
  OBVIOUS
<1>t. /\ pc \in Places /\ rfds \in SUBSET {"stdin", "master"} /\ closes \in Nat
      /\ g_terminate \in BOOLEAN /\ eof \in BOOLEAN /\ terminal \in {"taking", "stalled", "gone"}
      /\ child \in {"running", "exited"} /\ handlers \in Frames
      /\ stdin \in Seq(Bytes) /\ outq \in Seq(Bytes)
  BY DEF TypeOK, Frames
\* With no handler at work a closed master is the doing of one that has returned.
<1>m. handlers = <<>> /\ pc \notin {"enter", "done", "killed"} /\ ~MasterOpen => g_terminate
  <2> SUFFICES ASSUME handlers = <<>>, pc \notin {"enter", "done", "killed"}, closes # 0 PROVE g_terminate
    BY DEF MasterOpen
  <2>1. Forgetting(handlers) = 0
    <3>1. Len(handlers) = 0
      OBVIOUS
    <3> QED
      BY <3>1 DEF Forgetting
  <2> QED
    BY <2>1 DEF MasterInv
<1> USE DEF ReadyInv, LastWordsRead, Places, Loop, Over, loopVars, masterVars, streamVars
<1>1. CASE handlers = <<>> /\ Enter
  BY <1>1, <1>t DEF Enter
<1>2. CASE handlers = <<>> /\ Select
  BY <1>2, <1>t DEF Select, Readable
<1>3. CASE handlers = <<>> /\ SelectFails
  BY <1>3, <1>t, <1>m DEF SelectFails
<1>4. CASE handlers = <<>> /\ ReadMaster
  BY <1>4, <1>t, <1>m DEF ReadMaster
<1>5. CASE handlers = <<>> /\ WriteOut
  BY <1>5, <1>t DEF WriteOut
<1>6. CASE handlers = <<>> /\ ReadStdin
  BY <1>6, <1>t DEF ReadStdin
<1>7. CASE handlers = <<>> /\ WriteMaster
  BY <1>7, <1>t DEF WriteMaster
<1>8. CASE handlers = <<>> /\ Restore
  BY <1>8, <1>t DEF Restore
<1>9. CASE handlers = <<>> /\ Reaped
  BY <1>9, <1>t DEF Reaped
<1>10. CASE handlers = <<>> /\ Return
  BY <1>10, <1>t DEF Return
<1>11. CASE on_term
  <2>1. handlers' # <<>> /\ UNCHANGED <<rfds, stdin, eof, outq, child>>
    BY <1>11, <1>t, FramePushed DEF on_term, Frames
  <2>2. /\ pc' = "master" => pc = "master"
        /\ pc' \in {"master", "out", "in"} => pc \in {"master", "out", "in"}
    BY <1>11 DEF on_term, Interrupted
  <2> QED
    BY <2>1, <2>2
<1>12. CASE on_winch
  BY <1>12, <1>t DEF on_winch, Interrupted
<1>13. CASE SetTerminate
  BY <1>13, <1>t DEF SetTerminate
<1>14. CASE CloseMaster
  <2>1. /\ handlers # <<>> /\ handlers' = Append(Front(handlers), "forget")
        /\ UNCHANGED <<pc, rfds, stdin, eof, outq, child>>
    BY <1>14 DEF CloseMaster, Running, GoesOn
  <2>2. Len(handlers') = Len(handlers) /\ Len(handlers) \in 1..2
    <3>1. "forget" \in Statements
      BY DEF Statements
    <3> QED
      BY <1>t, <2>1, <3>1, FrameMoved, FramePopped
  <2>3. handlers' # <<>>
    BY <2>2
  <2> QED
    BY <2>1, <2>3
<1>15. CASE ForgetMaster
  <2>1. /\ handlers # <<>> /\ Last(handlers) = "forget" /\ UNCHANGED <<pc, rfds, stdin, eof, outq, child, g_terminate>>
    BY <1>15 DEF ForgetMaster, Running
  <2>2. Last(handlers) = handlers[Len(handlers)] /\ Len(handlers) \in 1..2
    BY <1>t, <2>1, FramePopped
  <2>3. g_terminate
    BY <2>1, <2>2 DEF MasterInv
  <2> QED
    BY <2>1, <2>3
<1>16. CASE Type
  <2>1. /\ Append(stdin, typed + 1) # <<>>
        /\ stdin' = Append(stdin, typed + 1) /\ UNCHANGED <<pc, rfds, eof, outq, child, g_terminate, handlers>>
    BY <1>16, AddByte, SizesAssumption DEF Type, TypeOK
  <2> QED
    BY <2>1
<1>17. CASE EndOfInput
  BY <1>17, <1>t DEF EndOfInput
<1>18. CASE ContainerReads
  BY <1>18, <1>t DEF ContainerReads
<1>19. CASE ContainerWrites
  <2>1. /\ Append(outq, wrote + 1) # <<>> /\ child = "running"
        /\ outq' = Append(outq, wrote + 1) /\ UNCHANGED <<pc, rfds, eof, stdin, child, g_terminate, handlers>>
    BY <1>19, AddByte, SizesAssumption DEF ContainerWrites, TypeOK
  <2> QED
    BY <2>1
<1>20. CASE ContainerExits
  BY <1>20, <1>t DEF ContainerExits
<1>21. CASE Stall \/ Resume
  BY <1>21, <1>t DEF Stall, Resume
<1>22. CASE HangUp
  BY <1>22, <1>t DEF HangUp
<1>23. CASE UNCHANGED vars
  BY <1>23 DEF vars
<1> HIDE DEF ReadyInv
<1> QED
  BY <1>1, <1>2, <1>3, <1>4, <1>5, <1>6, <1>7, <1>8, <1>9, <1>10, <1>11, <1>12, <1>13, <1>14,
     <1>15, <1>16, <1>17, <1>18, <1>19, <1>20, <1>21, <1>22, <1>23 DEF Next, Bridge, Handler, Environment

(***************************************************************************)
(* The loop outlives the container's output, for a container that writes   *)
(* any amount of it (LastWordsRead; pty_bridge.c:148-171).                 *)
(***************************************************************************)
THEOREM ReadsToTheEnd == Spec => []LastWordsRead
<1>1. Init => MasterInv /\ ReadyInv
  BY DEF Init, MasterInv, Forgetting, ReadyInv, LastWordsRead
<1>2. ReadyInv => LastWordsRead
  BY DEF ReadyInv
<1> QED
  BY <1>1, <1>2, MasterStep, ReadyStep, TypeCorrect, PTL DEF Spec

-----------------------------------------------------------------------------
(* The two streams *)

\* A step takes the stream s of n bytes to the stream t of m bytes.
Extends(s, n, t, m) == (t = s /\ m = n) \/ (t = Append(s, n + 1) /\ m = n + 1)

\* Some bytes in the middle are lost.
Thinned(s, t) == \E r, b, q \in Seq(Bytes) : s = (r \o b) \o q /\ t = r \o q

UpTo(s, n) == \A i \in DOMAIN s : s[i] <= n

\* CarriedInOrder, how far the streams have come, and that as long as nothing is cut no byte at
\* the end of one is missing either.
StreamInv ==
  /\ Ascending(OutStream) /\ UpTo(OutStream, wrote)
  /\ Ascending(InStream) /\ UpTo(InStream, typed)
  /\ ~cut => /\ Numbered(OutStream) /\ Len(OutStream) = wrote
             /\ Numbered(InStream) /\ Len(InStream) = typed

\* A byte that is moved stays between the same two.
LEMMA MoveKeeps ==
  ASSUME NEW r \in Seq(Bytes), NEW s \in Seq(Bytes), s # <<>>
  PROVE  Append(r, Head(s)) \o Tail(s) = r \o s
<1> DEFINE a == Append(r, Head(s))
           b == Tail(s)
<1>1. /\ a \in Seq(Bytes) /\ Len(a) = Len(r) + 1
      /\ \A i \in 1..Len(a) : a[i] = IF i <= Len(r) THEN r[i] ELSE s[1]
  BY HeadTailProperties
<1>2. b \in Seq(Bytes) /\ Len(b) = Len(s) - 1 /\ \A i \in 1..Len(b) : b[i] = s[i + 1]
  BY HeadTailProperties
<1>3. Len(r) \in Nat /\ Len(s) \in Nat /\ Len(s) > 0
  OBVIOUS
<1> HIDE DEF a, b
<1>4. /\ a \o b \in Seq(Bytes) /\ Len(a \o b) = Len(a) + Len(b)
      /\ \A i \in 1..(Len(a) + Len(b)) : (a \o b)[i] = IF i <= Len(a) THEN a[i] ELSE b[i - Len(a)]
  BY <1>1, <1>2, ConcatProperties
<1>5. /\ r \o s \in Seq(Bytes) /\ Len(r \o s) = Len(r) + Len(s)
      /\ \A i \in 1..(Len(r) + Len(s)) : (r \o s)[i] = IF i <= Len(r) THEN r[i] ELSE s[i - Len(r)]
  BY ConcatProperties
<1>6. Len(a \o b) = Len(r \o s)
  BY <1>1, <1>2, <1>3, <1>4, <1>5
<1>7. ASSUME NEW i \in 1..Len(a \o b) PROVE (a \o b)[i] = (r \o s)[i]
  <2>1. CASE i <= Len(r)
    BY <1>1, <1>3, <1>4, <1>5, <1>6, <2>1
  <2>2. CASE i = Len(r) + 1
    BY <1>1, <1>3, <1>4, <1>5, <1>6, <2>2
  <2>3. CASE i > Len(r) + 1
    <3>1. i - Len(a) \in 1..Len(b) /\ ~(i <= Len(a)) /\ i - Len(a) + 1 = i - Len(r) /\ ~(i <= Len(r))
      BY <1>1, <1>2, <1>3, <1>6, <1>5, <2>3
    <3>2. (a \o b)[i] = b[i - Len(a)] /\ (r \o s)[i] = s[i - Len(r)]
      BY <1>4, <1>5, <1>6, <3>1
    <3> QED
      BY <1>2, <3>1, <3>2
  <2>4. i <= Len(r) \/ i = Len(r) + 1 \/ i > Len(r) + 1
    BY <1>3, <1>5, <1>6
  <2> QED
    BY <2>1, <2>2, <2>3, <2>4
<1>8. a \o b = r \o s
  BY <1>4, <1>5, <1>6, <1>7, SeqEqual
<1> QED
  BY <1>8 DEF a, b

\* One read() splits what waits in two (pty_bridge.c:159, 167).
LEMMA ChunkWhole ==
  ASSUME NEW s \in Seq(Bytes)
  PROVE  Chunk(s) \o Beyond(s) = s
<1> DEFINE n == IF Len(s) < BufSize THEN Len(s) ELSE BufSize
<1>1. n \in Nat /\ n <= Len(s) /\ Len(s) \in Nat
  BY SizesAssumption
<1> HIDE DEF n
<1>2. Len(SubSeq(s, 1, n)) = n
  BY <1>1, SubSeqProperties
<1>3. Chunk(s) = SubSeq(s, 1, n) /\ Beyond(s) = SubSeq(s, n + 1, Len(s))
  BY <1>2 DEF Chunk, Beyond, n
<1>4. 1 \in 1..(Len(s) + 1) /\ n \in (1 - 1)..Len(s) /\ Len(s) \in n..Len(s)
  BY <1>1
<1>5. SubSeq(s, 1, n) \o SubSeq(s, n + 1, Len(s)) = SubSeq(s, 1, Len(s))
  BY <1>4, ConcatAdjacentSubSeq
<1> QED
  BY <1>3, <1>5, SubSeqFull

\* A read() into the empty buffer keeps the stream.
LEMMA ReadKeeps ==
  ASSUME NEW r \in Seq(Bytes), NEW s \in Seq(Bytes)
  PROVE  (r \o Chunk(s)) \o Beyond(s) = (r \o <<>>) \o s
<1>1. Chunk(s) \in Seq(Bytes) /\ Beyond(s) \in Seq(Bytes)
  BY ChunkFacts
<1>2. (r \o Chunk(s)) \o Beyond(s) = r \o (Chunk(s) \o Beyond(s))
  BY <1>1, ConcatAssociative
<1>3. Chunk(s) \o Beyond(s) = s
  BY ChunkWhole
<1>4. r \o <<>> = r
  BY ConcatEmptySeq
<1> QED
  BY <1>2, <1>3, <1>4

\* So does a byte that is moved to a queue behind others.
LEMMA ForwardKeeps ==
  ASSUME NEW q \in Seq(Bytes), NEW r \in Seq(Bytes), NEW s \in Seq(Bytes), s # <<>>
  PROVE  (q \o Append(r, Head(s))) \o Tail(s) = (q \o r) \o s
<1> DEFINE a == Append(r, Head(s))
           b == Tail(s)
<1>1. a \in Seq(Bytes) /\ b \in Seq(Bytes)
  BY MoveByte
<1>2. a \o b = r \o s
  BY MoveKeeps
<1> HIDE DEF a, b
<1>3. (q \o a) \o b = q \o (a \o b)
  BY <1>1, ConcatAssociative
<1>4. (q \o r) \o s = q \o (r \o s)
  BY ConcatAssociative
<1>5. (q \o a) \o b = (q \o r) \o s
  BY <1>2, <1>3, <1>4
<1> QED
  BY <1>5 DEF a, b

\* What is added at the end of the last part is added at the end of the whole.
LEMMA AddKeeps ==
  ASSUME NEW r \in Seq(Bytes), NEW s \in Seq(Bytes), NEW x \in Bytes
  PROVE  r \o Append(s, x) = Append(r \o s, x)
<1>1. Append(s, x) = s \o <<x>> /\ <<x>> \in Seq(Bytes)
  BY AppendIsConcat
<1>2. r \o s \in Seq(Bytes)
  BY ConcatProperties
<1>3. Append(r \o s, x) = (r \o s) \o <<x>>
  BY <1>2, AppendIsConcat
<1> QED
  BY <1>1, <1>3, ConcatAssociative

\* A stream that is numbered stays so when the next byte is added.
LEMMA ExtendsNumbered ==
  ASSUME NEW s \in Seq(Bytes), NEW t, NEW n \in Nat, NEW m,
         Numbered(s), Len(s) = n, Extends(s, n, t, m)
  PROVE  Numbered(t) /\ Len(t) = m
<1>1. CASE t = s /\ m = n
  BY <1>1
<1>2. CASE t = Append(s, n + 1) /\ m = n + 1
  <2>1. Len(t) = n + 1 /\ DOMAIN t = 1..(n + 1) /\ t[n + 1] = n + 1 /\ \A i \in 1..n : t[i] = s[i]
    BY <1>2
  <2>2. \A i \in 1..n : s[i] = i
    BY DEF Numbered
  <2> QED
    BY <1>2, <2>1, <2>2 DEF Numbered
<1> QED
  BY <1>1, <1>2 DEF Extends

\* Nor does it come out of order.
LEMMA ExtendsAscending ==
  ASSUME NEW s \in Seq(Bytes), NEW t, NEW n \in Nat, NEW m,
         Ascending(s), UpTo(s, n), Extends(s, n, t, m)
  PROVE  Ascending(t) /\ UpTo(t, m)
<1>1. CASE t = s /\ m = n
  BY <1>1
<1>2. CASE t = Append(s, n + 1) /\ m = n + 1
  <2> DEFINE k == Len(s)
  <2>1. /\ k \in Nat /\ DOMAIN s = 1..k /\ DOMAIN t = 1..(k + 1) /\ t[k + 1] = n + 1
        /\ \A i \in 1..k : t[i] = s[i]
    BY <1>2
  <2>2. \A i \in 1..k : s[i] \in Nat
    BY DEF Bytes
  <2> HIDE DEF k
  <2>3. \A i \in 1..k : t[i] <= n /\ t[i] \in Nat
    BY <2>1, <2>2 DEF UpTo
  <2>4. UpTo(t, m)
    BY <1>2, <2>1, <2>3 DEF UpTo
  <2>5. ASSUME NEW i \in 1..(k + 1), NEW j \in 1..(k + 1), i < j PROVE t[i] < t[j]
    <3>1. i \in 1..k
      BY <2>1, <2>5
    <3>2. CASE j \in 1..k
      BY <2>1, <2>5, <3>1, <3>2 DEF Ascending
    <3>3. CASE j = k + 1
      BY <2>1, <2>3, <3>1, <3>3
    <3> QED
      BY <2>1, <3>2, <3>3
  <2> QED
    BY <2>1, <2>4, <2>5 DEF Ascending
<1> QED
  BY <1>1, <1>2 DEF Extends

\* A stream that loses bytes in the middle stays in order.
LEMMA ThinnedAscending ==
  ASSUME NEW s, NEW t, NEW n \in Nat, Thinned(s, t), Ascending(s), UpTo(s, n)
  PROVE  Ascending(t) /\ UpTo(t, n)
<1>1. PICK r \in Seq(Bytes), b \in Seq(Bytes), q \in Seq(Bytes) : s = (r \o b) \o q /\ t = r \o q
  BY DEF Thinned
<1> DEFINE k == Len(r)
           l == Len(b)
           p == Len(q)
<1>2. k \in Nat /\ l \in Nat /\ p \in Nat
  OBVIOUS
<1>3. /\ r \o b \in Seq(Bytes) /\ Len(r \o b) = k + l
      /\ \A i \in 1..(k + l) : (r \o b)[i] = IF i <= k THEN r[i] ELSE b[i - k]
  BY ConcatProperties
<1>4. /\ s \in Seq(Bytes) /\ Len(s) = (k + l) + p
      /\ \A i \in 1..((k + l) + p) : s[i] = IF i <= k + l THEN (r \o b)[i] ELSE q[i - (k + l)]
  BY <1>1, <1>3, ConcatProperties
<1>5. /\ t \in Seq(Bytes) /\ Len(t) = k + p
      /\ \A i \in 1..(k + p) : t[i] = IF i <= k THEN r[i] ELSE q[i - k]
  BY <1>1, ConcatProperties
<1>6. DOMAIN s = 1..((k + l) + p) /\ DOMAIN t = 1..(k + p)
  BY <1>4, <1>5
<1> HIDE DEF k, l, p
<1> DEFINE f(i) == IF i <= k THEN i ELSE i + l
<1>7. ASSUME NEW i \in 1..(k + p) PROVE f(i) \in 1..((k + l) + p) /\ t[i] = s[f(i)]
  <2>1. CASE i <= k
    <3>1. i \in 1..((k + l) + p) /\ i \in 1..(k + l) /\ i <= k + l
      BY <1>2, <2>1
    <3>2. s[i] = (r \o b)[i] /\ (r \o b)[i] = r[i]
      BY <1>3, <1>4, <2>1, <3>1
    <3> QED
      BY <1>5, <2>1, <3>1, <3>2
  <2>2. CASE ~(i <= k)
    <3>1. /\ i + l \in 1..((k + l) + p) /\ ~(i + l <= k + l) /\ (i + l) - (k + l) = i - k
      BY <1>2, <2>2
    <3>2. s[i + l] = q[(i + l) - (k + l)] /\ t[i] = q[i - k]
      BY <1>4, <1>5, <2>2, <3>1
    <3> QED
      BY <2>2, <3>1, <3>2
  <2> QED
    BY <2>1, <2>2
<1>8. \A i, j \in 1..(k + p) : i < j => f(i) < f(j)
  BY <1>2
<1> HIDE DEF f
<1> QED
  BY <1>6, <1>7, <1>8 DEF Ascending, UpTo

LEMMA StreamTypes ==
  ASSUME TypeOK
  PROVE  OutStream \in Seq(Bytes) /\ InStream \in Seq(Bytes)
<1>1. (IF pc = "out" THEN buf ELSE <<>>) \in Seq(Bytes) /\ (IF pc = "fwd" THEN buf ELSE <<>>) \in Seq(Bytes)
  BY EmptyFits DEF TypeOK
<1>2. \A r, s \in Seq(Bytes) : r \o s \in Seq(Bytes)
  BY ConcatProperties
<1> QED
  BY <1>1, <1>2 DEF TypeOK, OutStream, InStream

\* Every step leaves each stream as it is, adds its next byte, or cuts bytes out.
LEMMA StreamStep ==
  ASSUME TypeOK, [Next]_vars
  PROVE  /\ cut => cut'
         /\ Extends(OutStream, wrote, OutStream', wrote')
              \/ (cut' /\ wrote' = wrote /\ Thinned(OutStream, OutStream'))
         /\ Extends(InStream, typed, InStream', typed')
              \/ (cut' /\ typed' = typed /\ Thinned(InStream, InStream'))
<1> USE DEF Extends, OutStream, InStream
<1>c. \A r, s \in Seq(Bytes) : r \o s \in Seq(Bytes)
  BY ConcatProperties
<1>t. /\ buf \in Seq(Bytes) /\ stdin \in Seq(Bytes) /\ inq \in Seq(Bytes) /\ outq \in Seq(Bytes)
      /\ got \in Seq(Bytes) /\ shown \in Seq(Bytes) /\ cut \in BOOLEAN
      /\ buf # <<>> => pc \in {"out", "fwd"}
  BY DEF TypeOK
<1>n. typed \in 0..MaxTyped /\ wrote \in 0..MaxWritten
  BY DEF TypeOK
\* What the loop holds is lost, or what waits.
<1>k. \A r, b, q \in Seq(Bytes) : Thinned((r \o b) \o q, (r \o <<>>) \o q)
  BY ConcatEmptySeq DEF Thinned
<1>w. \A r, q \in Seq(Bytes) : Thinned(r \o q, r \o <<>>)
  <2> SUFFICES ASSUME NEW r \in Seq(Bytes), NEW q \in Seq(Bytes) PROVE Thinned(r \o q, r \o <<>>)
    OBVIOUS
  <2>1. (r \o q) \o <<>> = r \o q
    BY <1>c, ConcatEmptySeq
  <2> QED
    BY <2>1, EmptyFits DEF Thinned
<1> USE DEF loopVars, masterVars, streamVars
<1>1. CASE Enter
  BY <1>1, <1>t DEF Enter
<1>2. CASE Select
  BY <1>2, <1>t DEF Select
<1>3. CASE SelectFails
  BY <1>3, <1>t DEF SelectFails
<1>4. CASE ReadMaster
  <2>1. CASE pc' # "out"
    BY <1>4, <1>t, <2>1 DEF ReadMaster
  <2>2. CASE pc' = "out"
    <3>1. /\ pc = "master" /\ buf' = Chunk(outq) /\ outq' = Beyond(outq)
          /\ UNCHANGED <<stdin, inq, typed, wrote, got, shown, cut>>
      BY <1>4, <2>2 DEF ReadMaster
    <3>2. (shown \o Chunk(outq)) \o Beyond(outq) = (shown \o <<>>) \o outq
      BY <1>t, ReadKeeps
    <3> QED
      BY <1>t, <2>2, <3>1, <3>2
  <2> QED
    BY <2>1, <2>2
<1>5. CASE ReadStdin
  <2>1. CASE pc' # "fwd"
    BY <1>5, <1>t, <2>1 DEF ReadStdin
  <2>2. CASE pc' = "fwd"
    <3>1. /\ pc = "in" /\ buf' = Chunk(stdin) /\ stdin' = Beyond(stdin)
          /\ UNCHANGED <<outq, inq, typed, wrote, got, shown, cut>>
      BY <1>5, <2>2 DEF ReadStdin
    <3>2. ((got \o inq) \o Chunk(stdin)) \o Beyond(stdin) = ((got \o inq) \o <<>>) \o stdin
      BY <1>c, <1>t, ReadKeeps
    <3> QED
      BY <1>t, <2>2, <3>1, <3>2
  <2> QED
    BY <2>1, <2>2
<1>6. CASE WriteOut
  <2>1. CASE buf = <<>>
    BY <1>6, <1>t, <2>1 DEF WriteOut
  <2>2. CASE buf # <<>> /\ terminal = "taking"
    <3>1. /\ pc = "out" /\ pc' = "out" /\ shown' = Append(shown, Head(buf)) /\ buf' = Tail(buf)
          /\ UNCHANGED <<outq, stdin, inq, typed, wrote, got, cut>>
      BY <1>6, <2>2 DEF WriteOut
    <3>2. Append(shown, Head(buf)) \o Tail(buf) = shown \o buf
      BY <1>t, <2>2, MoveKeeps
    <3> QED
      BY <3>1, <3>2
  <2>3. CASE buf # <<>> /\ terminal # "taking"
    <3>1. /\ pc = "out" /\ pc' \in {"in", "killed"} /\ buf' = <<>> /\ cut'
          /\ UNCHANGED <<shown, outq, stdin, inq, typed, wrote, got>>
      BY <1>6, <2>3 DEF WriteOut
    <3> QED
      BY <1>k, <1>t, <3>1
  <2> QED
    BY <2>1, <2>2, <2>3
<1>7. CASE WriteMaster
  <2>1. CASE buf = <<>>
    BY <1>7, <1>t, <2>1 DEF WriteMaster
  <2>2. CASE buf # <<>> /\ ~WriteFails
    <3>1. /\ pc = "fwd" /\ pc' = "fwd" /\ inq' = Append(inq, Head(buf)) /\ buf' = Tail(buf)
          /\ UNCHANGED <<outq, stdin, shown, typed, wrote, got, cut>>
      BY <1>7, <2>2 DEF WriteMaster
    <3>2. (got \o Append(inq, Head(buf))) \o Tail(buf) = (got \o inq) \o buf
      BY <1>t, <2>2, ForwardKeeps
    <3> QED
      BY <3>1, <3>2
  <2>3. CASE buf # <<>> /\ WriteFails
    <3>1. /\ pc = "fwd" /\ pc' = "select" /\ buf' = <<>> /\ cut'
          /\ UNCHANGED <<shown, outq, stdin, inq, typed, wrote, got>>
      BY <1>7, <2>3 DEF WriteMaster
    <3>2. Thinned(((got \o inq) \o buf) \o stdin, ((got \o inq) \o <<>>) \o stdin)
      BY <1>c, <1>k, <1>t
    <3> QED
      BY <1>t, <3>1, <3>2
  <2> QED
    BY <2>1, <2>2, <2>3
<1>8. CASE Restore
  BY <1>8, <1>t DEF Restore
<1>9. CASE Reaped \/ Return
  BY <1>9, <1>t DEF Reaped, Return
<1>10. ASSUME (\E b \in BOOLEAN : Interrupted(b)) \/ UNCHANGED <<pc, buf, cut>>, UNCHANGED streamVars
       PROVE  /\ cut => cut'
              /\ Extends(OutStream, wrote, OutStream', wrote')
                   \/ (cut' /\ wrote' = wrote /\ Thinned(OutStream, OutStream'))
              /\ Extends(InStream, typed, InStream', typed')
                   \/ (cut' /\ typed' = typed /\ Thinned(InStream, InStream'))
  <2>1. CASE buf' = buf /\ (pc' = pc \/ buf = <<>>) /\ cut' = cut
    BY <1>10, <1>t, <2>1
  <2>2. CASE pc = "out" /\ pc' = "in" /\ buf' = <<>> /\ cut' = (cut \/ buf # <<>>)
    <3>1. Thinned((shown \o buf) \o outq, (shown \o <<>>) \o outq)
      BY <1>k, <1>t
    <3> QED
      BY <1>10, <1>t, <2>2, <3>1
  <2>3. CASE pc = "fwd" /\ pc' = "select" /\ buf' = <<>> /\ cut' = (cut \/ buf # <<>>)
    <3>1. Thinned(((got \o inq) \o buf) \o stdin, ((got \o inq) \o <<>>) \o stdin)
      BY <1>c, <1>k, <1>t
    <3> QED
      BY <1>10, <1>t, <2>3, <3>1
  <2> QED
    BY <1>10, <1>t, <2>1, <2>2, <2>3 DEF Interrupted
<1>11. CASE on_term
  <2>1. UNCHANGED streamVars /\ ((\E b \in BOOLEAN : Interrupted(b)) \/ UNCHANGED <<pc, buf, cut>>)
    BY <1>11 DEF on_term
  <2> QED
    BY <1>10, <2>1
<1>12. CASE on_winch
  <2>1. g_terminate \in BOOLEAN
    BY DEF TypeOK
  <2>2. UNCHANGED streamVars /\ (\E b \in BOOLEAN : Interrupted(b))
    BY <1>12, <2>1 DEF on_winch
  <2> QED
    BY <1>10, <2>2
<1>13. CASE Type
  <2>1. typed + 1 \in Bytes
    BY <1>13, <1>n, SizesAssumption DEF Type, Bytes
  <2>2. (got \o inq) \o (IF pc = "fwd" THEN buf ELSE <<>>) \in Seq(Bytes)
    BY <1>c, <1>t, EmptyFits
  <2> QED
    BY <1>13, <1>t, <2>1, <2>2, AddKeeps DEF Type
<1>14. CASE EndOfInput
  BY <1>14, <1>t DEF EndOfInput
<1>15. CASE ContainerReads
  <2>1. Append(got, Head(inq)) \o Tail(inq) = got \o inq
    BY <1>15, <1>t, MoveKeeps DEF ContainerReads
  <2> QED
    BY <1>15, <2>1 DEF ContainerReads
<1>16. CASE ContainerWrites
  <2>1. wrote + 1 \in Bytes
    BY <1>16, <1>n, SizesAssumption DEF ContainerWrites, Bytes
  <2>2. shown \o (IF pc = "out" THEN buf ELSE <<>>) \in Seq(Bytes)
    BY <1>c, <1>t, EmptyFits
  <2> QED
    BY <1>16, <1>t, <2>1, <2>2, AddKeeps DEF ContainerWrites
<1>17. CASE ContainerExits
  BY <1>17, <1>t DEF ContainerExits
<1>18. CASE SetTerminate \/ CloseMaster \/ ForgetMaster
  <2>1. UNCHANGED <<pc, loopVars, streamVars, cut>>
    BY <1>18 DEF SetTerminate, CloseMaster, ForgetMaster
  <2> QED
    BY <1>t, <2>1
<1>19. CASE Stall \/ Resume
  BY <1>19, <1>t DEF Stall, Resume
<1>20. CASE HangUp
  <2>1. /\ stdin' \in {stdin, <<>>} /\ cut' = (cut \/ stdin' # stdin)
        /\ UNCHANGED <<pc, buf, shown, outq, inq, typed, wrote, got>>
    BY <1>20 DEF HangUp
  <2>2. CASE stdin' = stdin
    BY <1>t, <2>1, <2>2
  <2>3. CASE stdin' = <<>> /\ stdin # <<>>
    <3> DEFINE r == (got \o inq) \o (IF pc = "fwd" THEN buf ELSE <<>>)
    <3>1. r \in Seq(Bytes)
      BY <1>c, <1>t, EmptyFits
    <3>2. Thinned(r \o stdin, r \o <<>>)
      BY <1>t, <1>w, <3>1
    <3> QED
      BY <1>t, <2>1, <2>3, <3>2
  <2> QED
    BY <2>1, <2>2, <2>3
<1>21. CASE UNCHANGED vars
  BY <1>21, <1>t DEF vars
<1> HIDE DEF Extends, OutStream, InStream
<1> QED
  BY <1>1, <1>2, <1>3, <1>4, <1>5, <1>6, <1>7, <1>8, <1>9, <1>11, <1>12, <1>13, <1>14,
     <1>15, <1>16, <1>17, <1>18, <1>19, <1>20, <1>21 DEF Next, Bridge, Handler, Environment

(***************************************************************************)
(* For any size of the buffers and any amount of input and output, nothing *)
(* is carried twice or out of order, and nothing is lost as long as no     *)
(* write is cut short (CarriedInOrder; pty_bridge.c:139-172).  The         *)
(* invariant also says how long the streams are, since the next byte is    *)
(* known by its number.                                                    *)
(***************************************************************************)
THEOREM CarriesInOrder == Spec => []CarriedInOrder
<1>1. Init => StreamInv
  <2> SUFFICES ASSUME Init PROVE StreamInv
    OBVIOUS
  <2>1. OutStream = <<>> /\ InStream = <<>>
    BY ConcatEmptySeq, EmptyFits DEF Init, OutStream, InStream
  <2> QED
    BY <2>1 DEF Init, StreamInv, Numbered, Ascending, UpTo
<1>2. TypeOK /\ StreamInv /\ [Next]_vars => StreamInv'
  <2> SUFFICES ASSUME TypeOK, StreamInv, [Next]_vars PROVE StreamInv'
    OBVIOUS
  <2>1. /\ cut => cut'
        /\ Extends(OutStream, wrote, OutStream', wrote')
             \/ (cut' /\ wrote' = wrote /\ Thinned(OutStream, OutStream'))
        /\ Extends(InStream, typed, InStream', typed')
             \/ (cut' /\ typed' = typed /\ Thinned(InStream, InStream'))
    BY StreamStep
  <2>2. wrote \in Nat /\ typed \in Nat
    BY DEF TypeOK
  <2>3. Ascending(OutStream') /\ UpTo(OutStream', wrote')
    BY <2>1, <2>2, StreamTypes, ExtendsAscending, ThinnedAscending DEF StreamInv
  <2>4. Ascending(InStream') /\ UpTo(InStream', typed')
    BY <2>1, <2>2, StreamTypes, ExtendsAscending, ThinnedAscending DEF StreamInv
  <2>5. ~cut' => Numbered(OutStream') /\ Len(OutStream') = wrote'
    BY <2>1, <2>2, StreamTypes, ExtendsNumbered DEF StreamInv
  <2>6. ~cut' => Numbered(InStream') /\ Len(InStream') = typed'
    BY <2>1, <2>2, StreamTypes, ExtendsNumbered DEF StreamInv
  <2> QED
    BY <2>3, <2>4, <2>5, <2>6 DEF StreamInv, Numbered, Ascending, UpTo
<1>3. StreamInv => CarriedInOrder
  BY DEF StreamInv, CarriedInOrder
<1> QED
  BY <1>1, <1>2, <1>3, TypeCorrect, PTL DEF Spec

=============================================================================
