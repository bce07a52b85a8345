--------------------------- MODULE ConnectionProofs ---------------------------
(***************************************************************************)
(* Theorems about Connection under any owner, about TlsGate, the event     *)
(* loop as its owner, and about HappyEyeballs, which gives it its socket:  *)
(* for every set of lines, every number of lines the peer sends, of        *)
(* messages submitted and of addresses.                                    *)
(***************************************************************************)
EXTENDS TlsGate, HappyEyeballs, SequenceTheorems, TLAPS

(***************************************************************************)
(* Type correctness.                                                       *)
(***************************************************************************)
\* A line taken out of the buffer is the event that is queued.
LEMMA LineRead ==
  ASSUME TypeOK, ReceiveLine
  PROVE  /\ Len(buf) > 0 /\ buf[1] \in Line /\ buf' = Tail(buf) /\ buf' \in Seq(Line)
         /\ \E e \in Event : /\ events' = Append(events, e) /\ e.kind = "Line"
                            /\ e = [kind |-> "Line", line |-> buf[1].line,
                                    enc |-> buf[1].enc]
<1>1. /\ buf # << >> /\ buf \in Seq(Line) /\ buf' = Tail(buf)
      /\ events' = Append(events, [kind |-> "Line", line |-> Head(buf).line,
                                   enc |-> Head(buf).enc])
  BY DEF ReceiveLine, TypeOK
<1>2. /\ Len(buf) > 0 /\ Head(buf) = buf[1] /\ buf[1] \in Line
      /\ Tail(buf) \in Seq(Line)
  BY <1>1
<1>3. [kind |-> "Line", line |-> buf[1].line, enc |-> buf[1].enc] \in Event
  BY <1>2 DEF Line, Event
<1>4. QED
  BY <1>1, <1>2, <1>3

\* Every step keeps every variable's type.
LEMMA NextType == TypeOK /\ [Next]_vars => TypeOK'
<1> SUFFICES ASSUME TypeOK, [Next]_vars PROVE TypeOK'
  OBVIOUS
<1>1. CASE DelayExpires
  BY <1>1 DEF DelayExpires, Goto, settings, sendVars, ioVars, queueVars,
             TypeOK, SupStates
<1>2. CASE Connect
  BY <1>2 DEF Connect, Goto, End, settings, sendVars, queueVars, TypeOK,
             SupStates, Verdicts
<1>3. CASE ReportNetworkOpen
  BY <1>3 DEF ReportNetworkOpen, Goto, Write, settings, sendVars, ioVars,
             TypeOK, SupStates, Event
<1>4. CASE PresendNoTls
  BY <1>4 DEF PresendNoTls, Goto, settings, sendVars, ioVars, queueVars,
             TypeOK, SupStates
<1>5. CASE PresendTls
  BY <1>5 DEF PresendTls, Goto, settings, sendVars, ioVars, queueVars, TypeOK,
             SupStates
<1>6. CASE PresendStartTls
  <2>1. CASE Goto("fork") /\ wire' = Append(wire, [msg |-> 0, enc |-> handle = "tls"])
    BY <1>6, <2>1 DEF PresendStartTls, Goto, settings, ioVars, queueVars,
                     TypeOK, SupStates
  <2>2. CASE End("error") /\ UNCHANGED wire
    BY <1>6, <2>2 DEF PresendStartTls, End, settings, ioVars, queueVars,
                     TypeOK, SupStates, Verdicts
  <2>3. QED
    BY <1>6, <2>1, <2>2 DEF PresendStartTls
<1>7. CASE ForkPreReceiver
  BY <1>7 DEF ForkPreReceiver, Goto, settings, sendVars, ioVars, queueVars,
             TypeOK, SupStates
<1>8. CASE PutCancel
  BY <1>8 DEF PutCancel, Goto, settings, sendVars, ioVars, queueVars, TypeOK,
             SupStates
<1>9. CASE PreReceiverEnded
  BY <1>9 DEF PreReceiverEnded, Goto, End, settings, sendVars, ioVars,
             queueVars, TypeOK, SupStates, Verdicts
<1>10. CASE UpgradeTls
  <2>1. << >> \in Seq(Line)
    OBVIOUS
  <2>2. CASE Goto("announce") /\ handle' = "tls" /\ buf' = << >>
    BY <1>10, <2>1, <2>2 DEF UpgradeTls, Goto, settings, sendVars, queueVars,
                            TypeOK, SupStates
  <2>3. CASE End("error") /\ UNCHANGED <<handle, buf>>
    BY <1>10, <2>3 DEF UpgradeTls, End, settings, sendVars, queueVars,
                      TypeOK, SupStates, Verdicts
  <2>4. QED
    BY <1>10, <2>2, <2>3 DEF UpgradeTls
<1>11. CASE AnnounceTls
  BY <1>11 DEF AnnounceTls, Goto, Write, settings, sendVars, ioVars, TypeOK,
              SupStates, Event
<1>12. CASE CheckFingerprints
  BY <1>12 DEF CheckFingerprints, Goto, End, settings, sendVars, ioVars,
              queueVars, TypeOK, SupStates, Verdicts
<1>13. CASE StopChildren
  BY <1>13 DEF StopChildren, settings, ioVars, queueVars, TypeOK, SupStates
<1>14. CASE Close
  BY <1>14 DEF Close, settings, sendVars, queueVars, TypeOK, SupStates,
              Verdicts
<1>15. CASE Fill
  <2>1. PICK n \in 1 .. 2 :
          /\ received' = received + n
          /\ \E chunk \in [1 .. n -> Lines] :
               buf' = [i \in 1 .. n |-> [line |-> chunk[i], enc |-> handle = "tls"]]
    BY <1>15 DEF Fill
  <2>2. PICK chunk \in [1 .. n -> Lines] :
          buf' = [i \in 1 .. n |-> [line |-> chunk[i], enc |-> handle = "tls"]]
    BY <2>1
  <2>3. \A i \in 1 .. n : [line |-> chunk[i], enc |-> handle = "tls"] \in Line
    BY DEF Line
  <2>4. buf' \in Seq(Line)
    BY <2>2, <2>3
  <2>5. received' \in Nat
    BY <2>1 DEF TypeOK
  <2>6. QED
    BY <1>15, <2>4, <2>5 DEF Fill, settings, supVars, sendVars, queueVars, TypeOK
<1>16. CASE ReceiveLine
  <2>1. PICK e \in Event : events' = Append(events, e)
    BY <1>16, LineRead
  <2>2. events' \in Seq(Event)
    BY <2>1 DEF TypeOK
  <2>3. buf' \in Seq(Line)
    BY <1>16, LineRead
  <2>4. QED
    BY <1>16, <2>2, <2>3 DEF ReceiveLine, settings, supVars, sendVars, TypeOK
<1>17. CASE PreReceiverEnds
  BY <1>17 DEF PreReceiverEnds, PreReceiving, settings, supVars, sendVars,
              ioVars, queueVars, TypeOK
<1>18. CASE ReceiverEnds
  BY <1>18 DEF ReceiverEnds, End, Receiving, settings, sendVars, ioVars,
              queueVars, TypeOK, SupStates, Verdicts
<1>19. CASE SenderTakes
  BY <1>19 DEF SenderTakes, settings, supVars, ioVars, TypeOK
<1>20. CASE SenderWrites
  BY <1>20 DEF SenderWrites, settings, supVars, ioVars, queueVars, TypeOK
<1>21. CASE SenderFails
  BY <1>21 DEF SenderFails, End, settings, sendVars, ioVars, queueVars,
              TypeOK, SupStates, Verdicts
<1>22. CASE Report
  BY <1>22 DEF Report, Write, settings, supVars, sendVars, ioVars, TypeOK,
              Event
<1>23. CASE Send
  BY <1>23 DEF Send, settings, supVars, sendVars, ioVars, TypeOK
<1>24. CASE Recv
  BY <1>24 DEF Recv, settings, supVars, sendVars, ioVars, TypeOK
<1>25. CASE CallUpgrade
  BY <1>25 DEF CallUpgrade, settings, supVars, sendVars, ioVars, queueVars,
              TypeOK
<1>26. CASE SwapUpgrade
  BY <1>26 DEF SwapUpgrade, settings, supVars, sendVars, ioVars, queueVars,
              TypeOK
<1>27. CASE CancelPreReceiver
  BY <1>27 DEF CancelPreReceiver, settings, supVars, sendVars, ioVars,
              queueVars, TypeOK
<1>28. CASE CallAbort
  BY <1>28 DEF CallAbort, settings, supVars, sendVars, ioVars, queueVars,
              TypeOK
<1>29. CASE AbortDelivered
  BY <1>29 DEF AbortDelivered, End, settings, sendVars, ioVars, queueVars,
              TypeOK, SupStates, Verdicts
<1>30. CASE AbortReturns
  BY <1>30 DEF AbortReturns, settings, supVars, sendVars, ioVars, queueVars,
              TypeOK
<1>31. CASE UNCHANGED vars
  BY <1>31 DEF vars, settings, supVars, sendVars, ioVars, queueVars, TypeOK
<1>32. QED
  BY <1>1, <1>2, <1>3, <1>4, <1>5, <1>6, <1>7, <1>8, <1>9, <1>10, <1>11,
     <1>12, <1>13, <1>14, <1>15, <1>16, <1>17, <1>18, <1>19, <1>20, <1>21,
     <1>22, <1>23, <1>24, <1>25, <1>26, <1>27, <1>28, <1>29, <1>30, <1>31
     DEF Next, Supervisor, SupervisorAwaits, SupervisorRuns, Loops, Owner

(***************************************************************************)
(* The inductive invariant.                                                *)
(***************************************************************************)

\* The stream has announced the connection, or its encryption.
opened  == HasEvent("Open")
secured == HasEvent("TLS")

\* Where the supervisor can be while its children run.
ControlInv ==
  /\ sup \in {"fork", "put", "waitPre", "handshake"} => tls = "start"
  /\ sup = "announce" => tls # "no"
  /\ pre # "none" =>
       tls = "start" /\ sup \notin {"delay", "connect", "open", "presend", "fork"}
  /\ pre = "run" => sup \in {"put", "waitPre", "unwind"} /\ loops = "off"
  /\ loops = "on" => sup \in {"race", "unwind"}
  /\ reporter = "done" => sup = "done"

\* What the handle is wherever something is read from it or written to it.
Secure == IF tls = "no" THEN "plain" ELSE "tls"
HandleInv ==
  /\ sup \in {"delay", "connect"} => handle = "none"
  /\ sup \in {"open", "presend"} => handle = IF tls = "yes" THEN "tls" ELSE "plain"
  /\ sup \in {"fork", "put", "waitPre", "handshake"} => handle = "plain"
  /\ sup \in {"announce", "check", "race"} => handle = Secure
  /\ pre = "run" => handle = "plain"
  /\ loops = "on" => handle = Secure /\ (tls # "no" => fingerprint # "mismatch")
  /\ sup = "done" => handle \in {"none", "closed"}

\* What has been announced by then.
StageInv ==
  /\ secured => opened /\ tls # "no" /\ handle \in {"tls", "closed"}
  /\ sup \in {"delay", "connect", "open"} => ~opened
  /\ sup \in {"presend", "fork", "put", "waitPre", "handshake", "announce",
              "check", "race"} => opened
  /\ sup \in {"presend", "fork", "put", "waitPre", "handshake", "announce"} =>
       ~secured
  /\ sup \in {"check", "race"} /\ tls # "no" => secured
  /\ pre = "run" => opened /\ ~secured
  /\ loops = "on" => opened /\ (tls # "no" => secured)
  /\ verdict = "normal" \/ outcome = "normal" => opened

\* Lines in the buffer were read from the handle as it is now.
BufInv ==
  /\ sup \in {"delay", "connect"} => buf = << >>
  /\ handle \in {"plain", "tls"} =>
       \A i \in 1 .. Len(buf) : buf[i].enc = (handle = "tls")

Inv == TypeOK /\ ControlInv /\ HandleInv /\ StageInv /\ BufInv /\ SentSecurely

\* An event that is written is in the stream with those before it.
LEMMA EventWritten ==
  ASSUME TypeOK, NEW e \in Event, events' = Append(events, e)
  PROVE  /\ opened' <=> opened \/ e.kind = "Open"
         /\ secured' <=> secured \/ e.kind = "TLS"
<1>1. /\ Len(events') = Len(events) + 1 /\ Len(events) \in Nat
      /\ \A i \in 1 .. Len(events) : events'[i] = events[i]
      /\ events'[Len(events) + 1] = e
  BY DEF TypeOK
<1>2. \A i \in 1 .. Len(events) + 1 : i \in 1 .. Len(events) \/ i = Len(events) + 1
  BY <1>1
<1>3. Len(events) + 1 \in 1 .. Len(events')
  BY <1>1
<1>4. \A i \in 1 .. Len(events) : i \in 1 .. Len(events')
  BY <1>1
<1>5. QED
  BY <1>1, <1>2, <1>3, <1>4 DEF opened, secured, HasEvent

\* Nothing written, nothing announced.
LEMMA EventsKept ==
  ASSUME UNCHANGED events
  PROVE  opened' = opened /\ secured' = secured
BY DEF opened, secured, HasEvent

\* Every step keeps the control and the handle where they belong.
LEMMA NextControl ==
  Inv /\ [Next]_vars => ControlInv' /\ HandleInv'
<1> SUFFICES ASSUME Inv, [Next]_vars PROVE ControlInv' /\ HandleInv'
  OBVIOUS
<1>0. TypeOK /\ ControlInv /\ HandleInv
  BY DEF Inv
<1>1. CASE DelayExpires
  BY <1>0, <1>1 DEF DelayExpires, Goto, settings, sendVars, ioVars, queueVars,
         TypeOK, SupStates, ControlInv, HandleInv, Secure
<1>2. CASE Connect
  BY <1>0, <1>2 DEF Connect, Goto, End, settings, sendVars, queueVars, TypeOK,
         SupStates, ControlInv, HandleInv, Secure
<1>3. CASE ReportNetworkOpen
  BY <1>0, <1>3 DEF ReportNetworkOpen, Goto, Write, settings, sendVars,
         ioVars, TypeOK, SupStates, ControlInv, HandleInv, Secure
<1>4. CASE PresendNoTls
  BY <1>0, <1>4 DEF PresendNoTls, Goto, settings, sendVars, ioVars, queueVars,
         TypeOK, SupStates, ControlInv, HandleInv, Secure
<1>5. CASE PresendTls
  BY <1>0, <1>5 DEF PresendTls, Goto, settings, sendVars, ioVars, queueVars,
         TypeOK, SupStates, ControlInv, HandleInv, Secure
<1>6. CASE PresendStartTls
  BY <1>0, <1>6 DEF PresendStartTls, Goto, End, settings, ioVars, queueVars,
         TypeOK, SupStates, ControlInv, HandleInv, Secure
<1>7. CASE ForkPreReceiver
  BY <1>0, <1>7 DEF ForkPreReceiver, Goto, settings, sendVars, ioVars,
         queueVars, TypeOK, SupStates, ControlInv, HandleInv, Secure
<1>8. CASE PutCancel
  BY <1>0, <1>8 DEF PutCancel, Goto, settings, sendVars, ioVars, queueVars,
         TypeOK, SupStates, ControlInv, HandleInv, Secure
<1>9. CASE PreReceiverEnded
  BY <1>0, <1>9 DEF PreReceiverEnded, Goto, End, settings, sendVars, ioVars,
         queueVars, TypeOK, SupStates, ControlInv, HandleInv, Secure
<1>10. CASE UpgradeTls
  BY <1>0, <1>10 DEF UpgradeTls, Goto, End, settings, sendVars, queueVars,
         TypeOK, SupStates, ControlInv, HandleInv, Secure
<1>11. CASE AnnounceTls
  BY <1>0, <1>11 DEF AnnounceTls, Goto, Write, settings, sendVars, ioVars,
         TypeOK, SupStates, ControlInv, HandleInv, Secure
<1>12. CASE CheckFingerprints
  BY <1>0, <1>12 DEF CheckFingerprints, Goto, End, settings, sendVars, ioVars,
         queueVars, TypeOK, SupStates, ControlInv, HandleInv, Secure
<1>13. CASE StopChildren
  BY <1>0, <1>13 DEF StopChildren, settings, ioVars, queueVars, TypeOK,
         SupStates, ControlInv, HandleInv, Secure
<1>14. CASE Close
  BY <1>0, <1>14 DEF Close, settings, sendVars, queueVars, TypeOK, SupStates,
         ControlInv, HandleInv, Secure
<1>15. CASE Fill
  BY <1>0, <1>15 DEF Fill, PreReceiving, Receiving, settings, supVars,
         sendVars, queueVars, TypeOK, SupStates, ControlInv, HandleInv, Secure
<1>16. CASE ReceiveLine
  BY <1>0, <1>16 DEF ReceiveLine, PreReceiving, Receiving, settings, supVars,
         sendVars, TypeOK, SupStates, ControlInv, HandleInv, Secure
<1>17. CASE PreReceiverEnds
  BY <1>0, <1>17 DEF PreReceiverEnds, PreReceiving, settings, supVars,
         sendVars, ioVars, queueVars, TypeOK, SupStates, ControlInv,
         HandleInv, Secure
<1>18. CASE ReceiverEnds
  BY <1>0, <1>18 DEF ReceiverEnds, End, Receiving, settings, sendVars, ioVars,
         queueVars, TypeOK, SupStates, ControlInv, HandleInv, Secure
<1>19. CASE SenderTakes
  BY <1>0, <1>19 DEF SenderTakes, settings, supVars, ioVars, TypeOK,
         SupStates, ControlInv, HandleInv, Secure
<1>20. CASE SenderWrites
  BY <1>0, <1>20 DEF SenderWrites, settings, supVars, ioVars, queueVars,
         TypeOK, SupStates, ControlInv, HandleInv, Secure
<1>21. CASE SenderFails
  BY <1>0, <1>21 DEF SenderFails, End, settings, sendVars, ioVars, queueVars,
         TypeOK, SupStates, ControlInv, HandleInv, Secure
<1>22. CASE Report
  BY <1>0, <1>22 DEF Report, Write, settings, supVars, sendVars, ioVars,
         TypeOK, SupStates, ControlInv, HandleInv, Secure
<1>23. CASE Send
  BY <1>0, <1>23 DEF Send, settings, supVars, sendVars, ioVars, TypeOK,
         SupStates, ControlInv, HandleInv, Secure
<1>24. CASE Recv
  BY <1>0, <1>24 DEF Recv, settings, supVars, sendVars, ioVars, TypeOK,
         SupStates, ControlInv, HandleInv, Secure
<1>25. CASE CallUpgrade
  BY <1>0, <1>25 DEF CallUpgrade, settings, supVars, sendVars, ioVars,
         queueVars, TypeOK, SupStates, ControlInv, HandleInv, Secure
<1>26. CASE SwapUpgrade
  BY <1>0, <1>26 DEF SwapUpgrade, settings, supVars, sendVars, ioVars,
         queueVars, TypeOK, SupStates, ControlInv, HandleInv, Secure
<1>27. CASE CancelPreReceiver
  BY <1>0, <1>27 DEF CancelPreReceiver, settings, supVars, sendVars, ioVars,
         queueVars, TypeOK, SupStates, ControlInv, HandleInv, Secure
<1>28. CASE CallAbort
  BY <1>0, <1>28 DEF CallAbort, settings, supVars, sendVars, ioVars,
         queueVars, TypeOK, SupStates, ControlInv, HandleInv, Secure
<1>29. CASE AbortDelivered
  BY <1>0, <1>29 DEF AbortDelivered, End, settings, sendVars, ioVars,
         queueVars, TypeOK, SupStates, ControlInv, HandleInv, Secure
<1>30. CASE AbortReturns
  BY <1>0, <1>30 DEF AbortReturns, settings, supVars, sendVars, ioVars,
         queueVars, TypeOK, SupStates, ControlInv, HandleInv, Secure
<1>31. CASE UNCHANGED vars
  BY <1>0, <1>31 DEF vars, settings, supVars, sendVars, ioVars, queueVars,
         ControlInv, HandleInv, Secure
<1>32. QED
  BY <1>1, <1>2, <1>3, <1>4, <1>5, <1>6, <1>7, <1>8, <1>9, <1>10, <1>11,
     <1>12, <1>13, <1>14, <1>15, <1>16, <1>17, <1>18, <1>19, <1>20, <1>21,
     <1>22, <1>23, <1>24, <1>25, <1>26, <1>27, <1>28, <1>29, <1>30, <1>31
     DEF Next, Supervisor, SupervisorAwaits, SupervisorRuns, Loops, Owner

\* Every step announces what its place in the protocol calls for.
LEMMA NextStage == Inv /\ [Next]_vars => StageInv'
<1> SUFFICES ASSUME Inv, [Next]_vars PROVE StageInv'
  OBVIOUS
<1>0. TypeOK /\ ControlInv /\ HandleInv /\ StageInv
  BY DEF Inv
<1>1. CASE DelayExpires
  BY <1>0, EventsKept, <1>1 DEF DelayExpires, Goto, settings, sendVars,
         ioVars, queueVars, TypeOK, SupStates, ControlInv, HandleInv, Secure,
         StageInv
<1>2. CASE Connect
  BY <1>0, EventsKept, <1>2 DEF Connect, Goto, End, settings, sendVars,
         queueVars, TypeOK, SupStates, ControlInv, HandleInv, Secure, StageInv
<1>3. CASE ReportNetworkOpen
  BY <1>0, EventWritten, <1>3 DEF ReportNetworkOpen, Goto, Write, settings,
         sendVars, ioVars, TypeOK, Event, SupStates, ControlInv, HandleInv,
         Secure, StageInv
<1>4. CASE PresendNoTls
  BY <1>0, EventsKept, <1>4 DEF PresendNoTls, Goto, settings, sendVars,
         ioVars, queueVars, TypeOK, SupStates, ControlInv, HandleInv, Secure,
         StageInv
<1>5. CASE PresendTls
  BY <1>0, EventsKept, <1>5 DEF PresendTls, Goto, settings, sendVars, ioVars,
         queueVars, TypeOK, SupStates, ControlInv, HandleInv, Secure, StageInv
<1>6. CASE PresendStartTls
  BY <1>0, EventsKept, <1>6 DEF PresendStartTls, Goto, End, settings, ioVars,
         queueVars, TypeOK, SupStates, ControlInv, HandleInv, Secure, StageInv
<1>7. CASE ForkPreReceiver
  BY <1>0, EventsKept, <1>7 DEF ForkPreReceiver, Goto, settings, sendVars,
         ioVars, queueVars, TypeOK, SupStates, ControlInv, HandleInv, Secure,
         StageInv
<1>8. CASE PutCancel
  BY <1>0, EventsKept, <1>8 DEF PutCancel, Goto, settings, sendVars, ioVars,
         queueVars, TypeOK, SupStates, ControlInv, HandleInv, Secure, StageInv
<1>9. CASE PreReceiverEnded
  BY <1>0, EventsKept, <1>9 DEF PreReceiverEnded, Goto, End, settings,
         sendVars, ioVars, queueVars, TypeOK, SupStates, ControlInv,
         HandleInv, Secure, StageInv
<1>10. CASE UpgradeTls
  BY <1>0, EventsKept, <1>10 DEF UpgradeTls, Goto, End, settings, sendVars,
         queueVars, TypeOK, SupStates, ControlInv, HandleInv, Secure, StageInv
<1>11. CASE AnnounceTls
  <2>1. [kind |-> "TLS"] \in Event /\ events' = Append(events, [kind |-> "TLS"])
    BY <1>11 DEF AnnounceTls, Write, Event
  <2>2. secured' /\ (opened' <=> opened)
    BY <1>0, <2>1, EventWritten DEF StageInv
  <2>3. QED
    BY <1>0, <1>11, <2>2 DEF AnnounceTls, Goto, settings, sendVars, ioVars,
                           ControlInv, HandleInv, Secure,
                           StageInv
<1>12. CASE CheckFingerprints
  BY <1>0, EventsKept, <1>12 DEF CheckFingerprints, Goto, End, settings,
         sendVars, ioVars, queueVars, TypeOK, SupStates, ControlInv,
         HandleInv, Secure, StageInv
<1>13. CASE StopChildren
  BY <1>0, EventsKept, <1>13 DEF StopChildren, settings, ioVars, queueVars,
         TypeOK, SupStates, ControlInv, HandleInv, Secure, StageInv
<1>14. CASE Close
  BY <1>0, EventsKept, <1>14 DEF Close, settings, sendVars, queueVars, TypeOK,
         SupStates, ControlInv, HandleInv, Secure, StageInv
<1>15. CASE Fill
  BY <1>0, EventsKept, <1>15 DEF Fill, PreReceiving, Receiving, settings,
         supVars, sendVars, queueVars, TypeOK, SupStates, ControlInv,
         HandleInv, Secure, StageInv
<1>16. CASE ReceiveLine
  <2>1. PICK e \in Event : events' = Append(events, e) /\ e.kind = "Line"
    BY <1>0, <1>16, LineRead
  <2>2. (opened' <=> opened) /\ (secured' <=> secured)
    BY <1>0, <2>1, EventWritten
  <2>3. QED
    BY <1>0, <1>16, <2>2 DEF ReceiveLine, settings, supVars, sendVars, StageInv
<1>17. CASE PreReceiverEnds
  BY <1>0, EventsKept, <1>17 DEF PreReceiverEnds, PreReceiving, settings,
         supVars, sendVars, ioVars, queueVars, TypeOK, SupStates, ControlInv,
         HandleInv, Secure, StageInv
<1>18. CASE ReceiverEnds
  BY <1>0, EventsKept, <1>18 DEF ReceiverEnds, End, Receiving, settings,
         sendVars, ioVars, queueVars, TypeOK, SupStates, ControlInv,
         HandleInv, Secure, StageInv
<1>19. CASE SenderTakes
  BY <1>0, EventsKept, <1>19 DEF SenderTakes, settings, supVars, ioVars,
         TypeOK, SupStates, ControlInv, HandleInv, Secure, StageInv
<1>20. CASE SenderWrites
  BY <1>0, EventsKept, <1>20 DEF SenderWrites, settings, supVars, ioVars,
         queueVars, TypeOK, SupStates, ControlInv, HandleInv, Secure, StageInv
<1>21. CASE SenderFails
  BY <1>0, EventsKept, <1>21 DEF SenderFails, End, settings, sendVars, ioVars,
         queueVars, TypeOK, SupStates, ControlInv, HandleInv, Secure, StageInv
<1>22. CASE Report
  <2>1. /\ [kind |-> "Close"] \in Event /\ [kind |-> "Error"] \in Event
        /\ \/ events' = Append(events, [kind |-> "Close"])
           \/ events' = Append(events, [kind |-> "Error"])
    BY <1>22 DEF Report, Write, Event
  <2>2. (opened' <=> opened) /\ (secured' <=> secured)
    BY <1>0, <2>1, EventWritten DEF StageInv
  <2>3. QED
    BY <1>0, <1>22, <2>2 DEF Report, settings, supVars, sendVars, ioVars, StageInv
<1>23. CASE Send
  BY <1>0, EventsKept, <1>23 DEF Send, settings, supVars, sendVars, ioVars,
         TypeOK, SupStates, ControlInv, HandleInv, Secure, StageInv
<1>24. CASE Recv
  BY <1>0, EventsKept, <1>24 DEF Recv, settings, supVars, sendVars, ioVars,
         TypeOK, SupStates, ControlInv, HandleInv, Secure, StageInv
<1>25. CASE CallUpgrade
  BY <1>0, EventsKept, <1>25 DEF CallUpgrade, settings, supVars, sendVars,
         ioVars, queueVars, TypeOK, SupStates, ControlInv, HandleInv, Secure,
         StageInv
<1>26. CASE SwapUpgrade
  BY <1>0, EventsKept, <1>26 DEF SwapUpgrade, settings, supVars, sendVars,
         ioVars, queueVars, TypeOK, SupStates, ControlInv, HandleInv, Secure,
         StageInv
<1>27. CASE CancelPreReceiver
  BY <1>0, EventsKept, <1>27 DEF CancelPreReceiver, settings, supVars,
         sendVars, ioVars, queueVars, TypeOK, SupStates, ControlInv,
         HandleInv, Secure, StageInv
<1>28. CASE CallAbort
  BY <1>0, EventsKept, <1>28 DEF CallAbort, settings, supVars, sendVars,
         ioVars, queueVars, TypeOK, SupStates, ControlInv, HandleInv, Secure,
         StageInv
<1>29. CASE AbortDelivered
  BY <1>0, EventsKept, <1>29 DEF AbortDelivered, End, settings, sendVars,
         ioVars, queueVars, TypeOK, SupStates, ControlInv, HandleInv, Secure,
         StageInv
<1>30. CASE AbortReturns
  BY <1>0, EventsKept, <1>30 DEF AbortReturns, settings, supVars, sendVars,
         ioVars, queueVars, TypeOK, SupStates, ControlInv, HandleInv, Secure,
         StageInv
<1>31. CASE UNCHANGED vars
  BY <1>0, EventsKept, <1>31 DEF vars, settings, supVars, sendVars, ioVars, queueVars, StageInv
<1>32. QED
  BY <1>1, <1>2, <1>3, <1>4, <1>5, <1>6, <1>7, <1>8, <1>9, <1>10, <1>11,
     <1>12, <1>13, <1>14, <1>15, <1>16, <1>17, <1>18, <1>19, <1>20, <1>21,
     <1>22, <1>23, <1>24, <1>25, <1>26, <1>27, <1>28, <1>29, <1>30, <1>31
     DEF Next, Supervisor, SupervisorAwaits, SupervisorRuns, Loops, Owner

\* A message added to the wire that may be there.
LEMMA WireAppended ==
  ASSUME TypeOK, SentSecurely, UNCHANGED settings,
         NEW w \in [msg : Nat, enc : BOOLEAN], wire' = Append(wire, w),
         tls # "no" /\ w.msg # 0 => w.enc /\ fingerprint # "mismatch"
  PROVE  SentSecurely'
<1>1. /\ Len(wire') = Len(wire) + 1 /\ Len(wire) \in Nat
      /\ \A i \in 1 .. Len(wire) : wire'[i] = wire[i]
      /\ wire'[Len(wire) + 1] = w
  BY DEF TypeOK
<1>2. \A i \in 1 .. Len(wire') : i \in 1 .. Len(wire) \/ i = Len(wire) + 1
  BY <1>1
<1>3. QED
  BY <1>1, <1>2 DEF SentSecurely, settings

\* Every step reads and writes lines and messages on the handle that is due.
LEMMA NextSecure == Inv /\ [Next]_vars => BufInv' /\ SentSecurely'
<1> SUFFICES ASSUME Inv, [Next]_vars PROVE BufInv' /\ SentSecurely'
  OBVIOUS
<1>0. TypeOK /\ ControlInv /\ HandleInv /\ BufInv /\ SentSecurely
  BY DEF Inv
<1>1. CASE DelayExpires
  BY <1>0, <1>1 DEF DelayExpires, Goto, settings, sendVars, ioVars, BufInv,
         SentSecurely
<1>2. CASE Connect
  BY <1>0, <1>2 DEF Connect, Goto, End, settings, sendVars, BufInv,
         SentSecurely
<1>3. CASE ReportNetworkOpen
  BY <1>0, <1>3 DEF ReportNetworkOpen, Goto, settings, sendVars, ioVars,
         BufInv, SentSecurely
<1>4. CASE PresendNoTls
  BY <1>0, <1>4 DEF PresendNoTls, Goto, settings, sendVars, ioVars, BufInv,
         SentSecurely
<1>5. CASE PresendTls
  BY <1>0, <1>5 DEF PresendTls, Goto, settings, sendVars, ioVars, BufInv,
         SentSecurely
<1>6. CASE PresendStartTls
  <2>1. CASE Goto("fork") /\ wire' = Append(wire, [msg |-> 0, enc |-> handle = "tls"])
    <3>1. [msg |-> 0, enc |-> handle = "tls"] \in [msg : Nat, enc : BOOLEAN]
      OBVIOUS
    <3>2. UNCHANGED settings
      BY <1>6 DEF PresendStartTls
    <3>3. SentSecurely'
      BY <1>0, <2>1, <3>1, <3>2, WireAppended
    <3>4. QED
      BY <1>0, <1>6, <2>1, <3>3 DEF PresendStartTls, Goto, ioVars, BufInv
  <2>2. CASE End("error") /\ UNCHANGED wire
    BY <1>0, <1>6, <2>2
       DEF PresendStartTls, End, settings, ioVars, BufInv, SentSecurely
  <2>3. QED
    BY <1>6, <2>1, <2>2 DEF PresendStartTls
<1>7. CASE ForkPreReceiver
  BY <1>0, <1>7 DEF ForkPreReceiver, Goto, settings, sendVars, ioVars, BufInv,
         SentSecurely
<1>8. CASE PutCancel
  BY <1>0, <1>8 DEF PutCancel, Goto, settings, sendVars, ioVars, BufInv,
         SentSecurely
<1>9. CASE PreReceiverEnded
  BY <1>0, <1>9 DEF PreReceiverEnded, Goto, End, settings, sendVars, ioVars,
         BufInv, SentSecurely
<1>10. CASE UpgradeTls
  BY <1>0, <1>10 DEF UpgradeTls, Goto, End, settings, sendVars, BufInv,
         SentSecurely
<1>11. CASE AnnounceTls
  BY <1>0, <1>11 DEF AnnounceTls, Goto, settings, sendVars, ioVars, BufInv,
         SentSecurely
<1>12. CASE CheckFingerprints
  BY <1>0, <1>12 DEF CheckFingerprints, Goto, End, settings, sendVars, ioVars,
         BufInv, SentSecurely
<1>13. CASE StopChildren
  BY <1>0, <1>13 DEF StopChildren, settings, ioVars, BufInv, SentSecurely
<1>14. CASE Close
  BY <1>0, <1>14 DEF Close, settings, sendVars, BufInv, SentSecurely
<1>15. CASE Fill
  <2>1. PICK n \in 1 .. 2 : \E chunk \in [1 .. n -> Lines] :
          buf' = [i \in 1 .. n |-> [line |-> chunk[i], enc |-> handle = "tls"]]
    BY <1>15 DEF Fill
  <2>2. PICK chunk \in [1 .. n -> Lines] :
          buf' = [i \in 1 .. n |-> [line |-> chunk[i], enc |-> handle = "tls"]]
    BY <2>1
  <2>3. Len(buf') = n /\ \A i \in 1 .. n : buf'[i].enc = (handle = "tls")
    <3>1. n \in Nat
      OBVIOUS
    <3>2. Len(buf') = n
      BY <2>2, <3>1
    <3>3. \A i \in 1 .. n : buf'[i] = [line |-> chunk[i], enc |-> handle = "tls"]
      BY <2>2
    <3>4. QED
      BY <3>2, <3>3
  <2>4. sup \notin {"delay", "connect"}
    BY <1>0, <1>15 DEF Fill, HandleInv
  <2>5. QED
    BY <1>0, <1>15, <2>3, <2>4
       DEF Fill, settings, supVars, sendVars, BufInv, SentSecurely
<1>16. CASE ReceiveLine
  <2>1. /\ Len(buf') = Len(buf) - 1 /\ Len(buf) \in Nat /\ buf # << >>
        /\ \A i \in 1 .. Len(buf') : buf'[i] = buf[i + 1]
    BY <1>0, <1>16 DEF ReceiveLine, TypeOK
  <2>2. \A i \in 1 .. Len(buf') : i + 1 \in 1 .. Len(buf)
    BY <2>1
  <2>3. QED
    BY <1>0, <1>16, <2>1, <2>2
       DEF ReceiveLine, settings, supVars, sendVars, BufInv, SentSecurely
<1>17. CASE PreReceiverEnds
  BY <1>0, <1>17 DEF PreReceiverEnds, settings, supVars, sendVars, ioVars,
         BufInv, SentSecurely
<1>18. CASE ReceiverEnds
  BY <1>0, <1>18 DEF ReceiverEnds, End, settings, sendVars, ioVars, BufInv,
         SentSecurely
<1>19. CASE SenderTakes
  BY <1>0, <1>19 DEF SenderTakes, settings, supVars, ioVars, BufInv,
         SentSecurely
<1>20. CASE SenderWrites
  <2>1. [msg |-> holding, enc |-> handle = "tls"] \in [msg : Nat, enc : BOOLEAN]
    BY <1>0 DEF TypeOK
  <2>2. tls # "no" => handle = "tls" /\ fingerprint # "mismatch"
    BY <1>0, <1>20 DEF SenderWrites, HandleInv, Secure
  <2>3. SentSecurely'
    BY <1>0, <1>20, <2>1, <2>2, WireAppended DEF SenderWrites, settings
  <2>4. QED
    BY <1>0, <1>20, <2>3 DEF SenderWrites, supVars, ioVars, BufInv
<1>21. CASE SenderFails
  BY <1>0, <1>21 DEF SenderFails, End, settings, sendVars, ioVars, BufInv,
         SentSecurely
<1>22. CASE Report
  BY <1>0, <1>22 DEF Report, settings, supVars, sendVars, ioVars, BufInv,
         SentSecurely
<1>23. CASE Send
  BY <1>0, <1>23 DEF Send, settings, supVars, sendVars, ioVars, BufInv,
         SentSecurely
<1>24. CASE Recv
  BY <1>0, <1>24 DEF Recv, settings, supVars, sendVars, ioVars, BufInv,
         SentSecurely
<1>25. CASE CallUpgrade
  BY <1>0, <1>25 DEF CallUpgrade, settings, supVars, sendVars, ioVars, BufInv,
         SentSecurely
<1>26. CASE SwapUpgrade
  BY <1>0, <1>26 DEF SwapUpgrade, settings, supVars, sendVars, ioVars, BufInv,
         SentSecurely
<1>27. CASE CancelPreReceiver
  BY <1>0, <1>27 DEF CancelPreReceiver, settings, supVars, sendVars, ioVars,
         BufInv, SentSecurely
<1>28. CASE CallAbort
  BY <1>0, <1>28 DEF CallAbort, settings, supVars, sendVars, ioVars, BufInv,
         SentSecurely
<1>29. CASE AbortDelivered
  BY <1>0, <1>29 DEF AbortDelivered, End, settings, sendVars, ioVars, BufInv,
         SentSecurely
<1>30. CASE AbortReturns
  BY <1>0, <1>30 DEF AbortReturns, settings, supVars, sendVars, ioVars,
         BufInv, SentSecurely
<1>31. CASE UNCHANGED vars
  BY <1>0, <1>31 DEF vars, settings, supVars, sendVars, ioVars, queueVars, BufInv,
         SentSecurely
<1>32. QED
  BY <1>1, <1>2, <1>3, <1>4, <1>5, <1>6, <1>7, <1>8, <1>9, <1>10, <1>11,
     <1>12, <1>13, <1>14, <1>15, <1>16, <1>17, <1>18, <1>19, <1>20, <1>21,
     <1>22, <1>23, <1>24, <1>25, <1>26, <1>27, <1>28, <1>29, <1>30, <1>31
     DEF Next, Supervisor, SupervisorAwaits, SupervisorRuns, Loops, Owner

\* The invariant holds before the first step and in every state after it.
LEMMA Invariance == Spec => []Inv
<1>1. Init => Inv
  <2> SUFFICES ASSUME Init PROVE Inv
    OBVIOUS
  <2>1. TypeOK
    BY DEF Init, TypeOK, SupStates, Verdicts
  <2>2. ~opened /\ ~secured
    BY DEF Init, opened, secured, HasEvent
  <2>3. QED
    BY <2>1, <2>2 DEF Init, Inv, ControlInv, HandleInv, StageInv, BufInv, SentSecurely
<1>2. Inv /\ [Next]_vars => Inv'
  BY NextType, NextControl, NextStage, NextSecure DEF Inv
<1>3. QED
  BY <1>1, <1>2, PTL DEF Spec

(***************************************************************************)
(* The theorems.                                                           *)
(***************************************************************************)

\* The threads, queues and handle of a connection keep their types.
THEOREM TypeCorrect == Spec => []TypeOK
<1>1. Inv => TypeOK
  BY DEF Inv
<1>2. QED
  BY <1>1, Invariance, PTL

\* With TLS configured nothing but the STARTTLS command is written in the
\* clear and nothing at all to a peer with the wrong fingerprint, whatever the
\* owner calls and whenever the peer, the loops and the supervisor stop.
THEOREM NothingSecretInTheClear == Spec => []SentSecurely
<1>1. Inv => SentSecurely
  BY DEF Inv
<1>2. QED
  BY <1>1, Invariance, PTL

\* After the event that the reporter writes no thread of the connection writes
\* another or touches the socket, and the handle is closed.
THEOREM TheFinalEventIsLast == Spec => FinalEventLast
<1>1. ASSUME Inv, [Next]_vars, reporter = "done"
      PROVE  UNCHANGED <<events, wire, handle>> /\ handle \in {"none", "closed"}
  <2>1. sup = "done" /\ pre # "run" /\ loops # "on" /\ handle \in {"none", "closed"}
    BY <1>1 DEF Inv, ControlInv, HandleInv
  <2>2. CASE Supervisor
    BY <2>1, <2>2
       DEF Supervisor, SupervisorAwaits, SupervisorRuns, DelayExpires, Connect,
           ReportNetworkOpen, PresendNoTls, PresendTls, PresendStartTls,
           ForkPreReceiver, PutCancel, PreReceiverEnded, UpgradeTls,
           AnnounceTls, CheckFingerprints, StopChildren, Close
  <2>3. CASE Loops
    BY <2>1, <2>3
       DEF Loops, Fill, ReceiveLine, PreReceiverEnds, ReceiverEnds, SenderTakes,
           SenderWrites, SenderFails, PreReceiving, Receiving
  <2>4. CASE Report
    BY <1>1, <2>4 DEF Report
  <2>5. CASE Owner
    BY <2>1, <2>5
       DEF Owner, Send, Recv, CallUpgrade, SwapUpgrade, CancelPreReceiver,
           CallAbort, AbortDelivered, AbortReturns, sendVars, ioVars, queueVars
  <2>6. CASE UNCHANGED vars
    BY <2>1, <2>6 DEF vars, sendVars, ioVars, queueVars
  <2>7. QED
    BY <1>1, <2>2, <2>3, <2>4, <2>5, <2>6 DEF Next
<1>2. Inv /\ [Next]_vars =>
        [reporter = "done" => UNCHANGED <<events, wire, handle>>
                                /\ handle \in {"none", "closed"}]_vars
  BY <1>1
<1>3. QED
  BY <1>2, Invariance, PTL DEF Spec, FinalEventLast

(***************************************************************************)
(* Connection implements ConnectionEvents.                                 *)
(***************************************************************************)

\* The refinement mapping of the stage, by its three conditions.
LEMMA StageValue ==
  /\ reporter = "done" => Stage = "finished"
  /\ reporter # "done" /\ secured => Stage = "secured"
  /\ reporter # "done" /\ ~secured /\ opened => Stage = "open"
  /\ reporter # "done" /\ ~secured /\ ~opened => Stage = "connecting"
BY DEF Stage, opened, secured

\* The same of the next state.
LEMMA StageValueNext ==
  /\ reporter' = "done" => Stage' = "finished"
  /\ reporter' # "done" /\ secured' => Stage' = "secured"
  /\ reporter' # "done" /\ ~secured' /\ opened' => Stage' = "open"
  /\ reporter' # "done" /\ ~secured' /\ ~opened' => Stage' = "connecting"
BY DEF Stage, opened, secured

\* A step that writes no event leaves what the abstract specification sees.
LEMMA QuietStep ==
  ASSUME UNCHANGED <<tls, events, reporter>>
  PROVE  UNCHANGED Grammar!vars
BY DEF Stage, HasEvent, Grammar!vars

\* A line is queued while the abstract stage allows lines of its kind.
LEMMA LineStep ==
  ASSUME Inv, ReceiveLine
  PROVE  \E line \in Lines : Grammar!PlainLine(line) \/ Grammar!SecureLine(line)
<1>1. PICK e \in Event : /\ events' = Append(events, e) /\ e.kind = "Line"
                       /\ e = [kind |-> "Line", line |-> buf[1].line,
                               enc |-> buf[1].enc]
  BY LineRead DEF Inv
<1>2. (opened' <=> opened) /\ (secured' <=> secured)
  BY <1>1, EventWritten DEF Inv
<1>3. /\ reporter # "done" /\ reporter' = reporter /\ tls' = tls
      /\ pre = "run" \/ loops = "on"
  BY DEF ReceiveLine, PreReceiving, Receiving, settings, Inv, ControlInv
<1>4. UNCHANGED Stage
  BY <1>2, <1>3, StageValue, StageValueNext
<1>5. buf[1].line \in Lines /\ buf[1].enc \in BOOLEAN /\ 1 \in 1 .. Len(buf)
  <2>1. Len(buf) > 0 /\ buf[1] \in Line /\ Len(buf) \in Nat
    BY LineRead DEF Inv, TypeOK
  <2>2. QED
    BY <2>1 DEF Line
<1>6. CASE pre = "run" \/ tls = "no"
  <2>1. handle = "plain" /\ Stage = "open" /\ tls # "yes"
    BY <1>3, <1>6, StageValue
       DEF Inv, ControlInv, HandleInv, StageInv, Secure
  <2>2. buf[1].enc = FALSE
    BY <1>5, <2>1 DEF Inv, BufInv
  <2>3. Grammar!PlainLine(buf[1].line)
    BY <1>1, <1>3, <1>4, <2>1, <2>2 DEF Grammar!PlainLine, Grammar!Emit
  <2>4. QED
    BY <1>5, <2>3
<1>7. CASE pre # "run" /\ tls # "no"
  <2>1. handle = "tls" /\ Stage = "secured"
    BY <1>3, <1>7, StageValue DEF Inv, HandleInv, StageInv, Secure
  <2>2. buf[1].enc = TRUE
    BY <1>5, <2>1 DEF Inv, BufInv
  <2>3. Grammar!SecureLine(buf[1].line)
    BY <1>1, <1>3, <1>4, <2>1, <2>2 DEF Grammar!SecureLine, Grammar!Emit
  <2>4. QED
    BY <1>5, <2>3
<1>8. QED
  BY <1>6, <1>7

\* The last event is one the abstract stage allows.
LEMMA ReportStep ==
  ASSUME Inv, Report
  PROVE  Grammar!Close \/ Grammar!Error
<1>1. /\ reporter = "waiting" /\ reporter' = "done" /\ tls' = tls
      /\ IF outcome = "normal" THEN events' = Append(events, [kind |-> "Close"])
         ELSE events' = Append(events, [kind |-> "Error"])
  BY DEF Report, Write, settings
<1>2. Stage # "finished" /\ Stage' = "finished"
  BY <1>1, StageValue, StageValueNext
<1>3. outcome = "normal" => Stage \in {"open", "secured"}
  BY <1>1, StageValue DEF Inv, StageInv
<1>4. QED
  BY <1>1, <1>2, <1>3 DEF Grammar!Close, Grammar!Error, Grammar!Emit

\* Whatever its threads and its owner do, a connection's event queue is one
\* that ConnectionEvents allows: one NetworkOpen, NetworkTLS behind it, no
\* plaintext line behind that, and one last event.
THEOREM EventsFollowTheGrammar == Spec => EventGrammar
<1>1. Init => Grammar!Init
  <2> SUFFICES ASSUME Init PROVE Grammar!Init
    OBVIOUS
  <2>1. ~opened /\ ~secured /\ reporter # "done"
    BY DEF Init, opened, secured, HasEvent
  <2>2. QED
    BY <2>1, StageValue DEF Init, Grammar!Init
<1>2. ASSUME Inv, [Next]_vars PROVE [Grammar!Next]_(Grammar!vars)
  <2>1. CASE ReportNetworkOpen
    <3>1. /\ [kind |-> "Open"] \in Event
          /\ events' = Append(events, [kind |-> "Open"])
          /\ sup = "open" /\ UNCHANGED <<tls, reporter>>
      BY <2>1 DEF ReportNetworkOpen, Write, Event, settings
    <3>2. opened' /\ (secured' <=> secured)
      BY <1>2, <3>1, EventWritten DEF Inv
    <3>3. ~opened /\ ~secured /\ reporter # "done"
      BY <1>2, <3>1 DEF Inv, StageInv, ControlInv
    <3>4. Stage = "connecting" /\ Stage' = "open"
      BY <3>1, <3>2, <3>3, StageValue, StageValueNext
    <3>5. QED
      BY <3>1, <3>4 DEF Grammar!Next, Grammar!Open, Grammar!Emit
  <2>2. CASE AnnounceTls
    <3>1. /\ [kind |-> "TLS"] \in Event
          /\ events' = Append(events, [kind |-> "TLS"])
          /\ sup = "announce" /\ UNCHANGED <<tls, reporter>>
      BY <2>2 DEF AnnounceTls, Write, Event, settings
    <3>2. secured'
      BY <1>2, <3>1, EventWritten DEF Inv
    <3>3. opened /\ ~secured /\ reporter # "done" /\ tls # "no"
      BY <1>2, <3>1 DEF Inv, StageInv, ControlInv
    <3>4. Stage = "open" /\ Stage' = "secured"
      BY <3>1, <3>2, <3>3, StageValue, StageValueNext
    <3>5. QED
      BY <3>1, <3>3, <3>4 DEF Grammar!Next, Grammar!Secured, Grammar!Emit
  <2>3. CASE ReceiveLine
    BY <1>2, <2>3, LineStep DEF Grammar!Next
  <2>4. CASE Report
    BY <1>2, <2>4, ReportStep DEF Grammar!Next
  <2>5. CASE UNCHANGED <<tls, events, reporter>>
    BY <2>5, QuietStep
  <2>6. QED
    <3>1. CASE Supervisor /\ ~ReportNetworkOpen /\ ~AnnounceTls
      BY <2>5, <3>1
         DEF Supervisor, SupervisorAwaits, SupervisorRuns, DelayExpires, Connect,
             PresendNoTls, PresendTls, PresendStartTls, ForkPreReceiver,
             PutCancel, PreReceiverEnded, UpgradeTls, CheckFingerprints,
             StopChildren, Close, settings, queueVars
    <3>2. CASE Loops /\ ~ReceiveLine
      BY <2>5, <3>2
         DEF Loops, Fill, PreReceiverEnds, ReceiverEnds, SenderTakes,
             SenderWrites, SenderFails, settings, queueVars
    <3>3. CASE Owner
      BY <2>5, <3>3
         DEF Owner, Send, Recv, CallUpgrade, SwapUpgrade, CancelPreReceiver,
             CallAbort, AbortDelivered, AbortReturns, settings, queueVars
    <3>4. CASE UNCHANGED vars
      BY <2>5, <3>4 DEF vars, settings, queueVars
    <3>5. QED
      BY <1>2, <2>1, <2>2, <2>3, <2>4, <3>1, <3>2, <3>3, <3>4 DEF Next
<1>3. QED
  BY <1>1, <1>2, Invariance, PTL DEF Spec, EventGrammar, Grammar!Spec

(***************************************************************************)
(* The event loop as an owner.                                             *)
(***************************************************************************)

\* Every step of the event loop is a step of the owner or of nobody.
LEMMA GateStep == [GateNext]_allVars => [Next]_vars
<1> SUFFICES ASSUME [GateNext]_allVars PROVE Next \/ UNCHANGED vars
  OBVIOUS
<1>1. CASE Threads
  BY <1>1 DEF Threads, Next
<1>2. CASE EventLoop
  BY <1>2
     DEF EventLoop, GetEvent, DoNetworkOpen, DoNetworkTLS, LineWaitTLS,
         LineStartTLS, LineApplied, DoNetworkFinal, Disconnect, PingTimeout,
         SendMsg, CallContinues, Next, Owner
<1>3. CASE UNCHANGED allVars
  BY <1>3 DEF allVars
<1>4. QED
  BY <1>1, <1>2, <1>3 DEF GateNext

\* glirc's event loop uses a connection as the specification of the connection
\* allows: what holds of Connection under any owner holds of it in glirc.
THEOREM EventLoopIsAnOwner == GateSpec => Spec
<1>1. GateInit => Init
  BY DEF GateInit
<1>2. QED
  BY <1>1, GateStep, PTL DEF GateSpec, Spec

(***************************************************************************)
(* The inductive invariant.                                                *)
(***************************************************************************)

\* In the stream every line behind NetworkTLS was read from the TLS socket.
OrderInv ==
  \A i, j \in 1 .. Len(events) :
    i < j /\ events[i].kind = "TLS" /\ events[j].kind = "Line" => events[j].enc = TRUE

\* The batch is the end of what was flushed.
Handled == taken - Len(batch)
BatchInv ==
  /\ taken =< Len(events) /\ Len(batch) =< taken
  /\ \A i \in 1 .. Len(batch) : batch[i] = events[Handled + i]

\* The restriction is lifted when the connection's NetworkTLS has been handled.
LiftedInv ==
  restriction = "No" /\ tls # "no" =>
    \E i \in 1 .. Handled : events[i].kind = "TLS"

GateInv ==
  Inv /\ GateTypeOK /\ OrderInv /\ BatchInv /\ LiftedInv /\ OnlySecureApplied

\* The events that are there stay where they are, and a new line behind
\* NetworkTLS is an encrypted one.
LEMMA EventsGrow ==
  ASSUME Inv, OrderInv, Threads
  PROVE  /\ OrderInv' /\ Len(events) =< Len(events')
         /\ \A i \in 1 .. Len(events) : events'[i] = events[i]
<1>0. events \in Seq(Event) /\ Len(events) \in Nat
  BY DEF Inv, TypeOK
<1>1. ASSUME NEW e \in Event, events' = Append(events, e),
             e.kind = "Line" /\ secured => e.enc = TRUE
      PROVE  /\ OrderInv' /\ Len(events) =< Len(events')
             /\ \A i \in 1 .. Len(events) : events'[i] = events[i]
  <2>1. /\ Len(events') = Len(events) + 1 /\ events'[Len(events) + 1] = e
        /\ \A i \in 1 .. Len(events) : events'[i] = events[i]
    BY <1>0, <1>1
  <2>2. ASSUME NEW i \in 1 .. Len(events'), NEW j \in 1 .. Len(events'), i < j,
               events'[i].kind = "TLS", events'[j].kind = "Line"
        PROVE  events'[j].enc = TRUE
    <3>1. i \in 1 .. Len(events) /\ events[i].kind = "TLS"
      BY <1>0, <2>1, <2>2
    <3>2. CASE j \in 1 .. Len(events)
      BY <2>1, <2>2, <3>1, <3>2 DEF OrderInv
    <3>3. CASE j = Len(events) + 1
      <4>1. secured
        BY <3>1 DEF secured, HasEvent
      <4>2. events'[j] = e
        BY <2>1, <3>3
      <4>3. QED
        BY <1>1, <2>2, <4>1, <4>2
    <3>4. j \in 1 .. Len(events) \/ j = Len(events) + 1
      BY <1>0, <2>1
    <3>5. QED
      BY <3>2, <3>3, <3>4
  <2>3. OrderInv'
    BY <2>2 DEF OrderInv
  <2>4. QED
    BY <1>0, <2>1, <2>3
<1>2. CASE UNCHANGED events
  BY <1>0, <1>2 DEF OrderInv
<1>3. CASE ReportNetworkOpen \/ AnnounceTls \/ Report
  <2>1. \E k \in {"Open", "TLS", "Close", "Error"} :
          events' = Append(events, [kind |-> k])
    BY <1>3 DEF ReportNetworkOpen, AnnounceTls, Report, Write
  <2>2. \A k \in {"Open", "TLS", "Close", "Error"} :
          [kind |-> k] \in Event /\ [kind |-> k].kind # "Line"
    BY DEF Event
  <2>3. QED
    BY <1>1, <2>1, <2>2
<1>4. CASE ReceiveLine
  <2>1. PICK e \in Event : /\ events' = Append(events, e)
                         /\ e = [kind |-> "Line", line |-> buf[1].line,
                                 enc |-> buf[1].enc]
    BY <1>4, LineRead DEF Inv
  <2>2. secured => handle = "tls"
    BY <1>4 DEF ReceiveLine, PreReceiving, Receiving, Inv, HandleInv, StageInv, Secure
  <2>3. 1 \in 1 .. Len(buf)
    BY <1>4, LineRead DEF Inv, TypeOK
  <2>4. secured => e.enc = TRUE
    BY <2>1, <2>2, <2>3 DEF Inv, BufInv
  <2>5. QED
    BY <1>1, <2>1, <2>4
<1>5. QED
  <2>1. CASE Supervisor /\ ~ReportNetworkOpen /\ ~AnnounceTls
    BY <1>2, <2>1
       DEF Supervisor, SupervisorAwaits, SupervisorRuns, DelayExpires, Connect,
           PresendNoTls, PresendTls, PresendStartTls, ForkPreReceiver,
           PutCancel, PreReceiverEnded, UpgradeTls, CheckFingerprints,
           StopChildren, Close, queueVars
  <2>2. CASE Loops /\ ~ReceiveLine
    BY <1>2, <2>2
       DEF Loops, Fill, PreReceiverEnds, ReceiverEnds, SenderTakes,
           SenderWrites, SenderFails, queueVars
  <2>3. QED
    BY <1>3, <1>4, <2>1, <2>2 DEF Threads

\* The threads flush nothing and change no setting.
LEMMA ThreadsKeep ==
  ASSUME Threads
  PROVE  UNCHANGED <<taken, tls, batch, restriction, known, applied>>
BY DEF Threads, Supervisor, SupervisorAwaits, SupervisorRuns, Loops,
       DelayExpires, Connect, ReportNetworkOpen, PresendNoTls, PresendTls,
       PresendStartTls, ForkPreReceiver, PutCancel, PreReceiverEnded,
       UpgradeTls, AnnounceTls, CheckFingerprints, StopChildren, Close, Fill,
       ReceiveLine, PreReceiverEnds, ReceiverEnds, SenderTakes, SenderWrites,
       SenderFails, Report, settings, queueVars, gateVars

\* Handling one event leaves a batch that is still the end of what was flushed.
LEMMA HandleOne ==
  ASSUME GateInv, batch # << >>, batch' = Tail(batch), UNCHANGED <<events, taken>>
  PROVE  /\ BatchInv' /\ Handled' = Handled + 1 /\ Handled \in Nat
         /\ batch' \in Seq(Event) /\ batch[1] \in Event
         /\ batch[1] = events[Handled + 1]
         /\ Handled + 1 \in 1 .. Len(events)
<1>1. /\ batch \in Seq(Event) /\ Len(batch) \in Nat /\ Len(batch) > 0
      /\ taken \in Nat /\ Len(events) \in Nat
  BY DEF GateInv, GateTypeOK, Inv, TypeOK
<1>2. /\ Len(batch') = Len(batch) - 1 /\ batch' \in Seq(Event)
      /\ \A i \in 1 .. Len(batch') : batch'[i] = batch[i + 1]
  BY <1>1
<1>3. Handled' = Handled + 1 /\ Handled \in Nat /\ Handled + 1 \in 1 .. Len(events)
  BY <1>1, <1>2 DEF Handled, GateInv, BatchInv
<1>4. batch[1] = events[Handled + 1] /\ batch[1] \in Event
  BY <1>1 DEF GateInv, BatchInv
<1>5. \A i \in 1 .. Len(batch') : batch'[i] = events'[Handled' + i]
  <2> SUFFICES ASSUME NEW i \in 1 .. Len(batch') PROVE batch'[i] = events'[Handled' + i]
    OBVIOUS
  <2>1. i + 1 \in 1 .. Len(batch) /\ Handled + (i + 1) = Handled' + i
    BY <1>1, <1>2, <1>3
  <2>2. QED
    BY <1>2, <2>1 DEF GateInv, BatchInv
<1>6. QED
  BY <1>1, <1>2, <1>3, <1>4, <1>5 DEF BatchInv, GateInv

\* The restriction stays lifted for the same event.
LEMMA StaysLifted ==
  ASSUME GateInv, UNCHANGED tls, restriction' = "No" => restriction = "No",
         Handled \in Nat, Handled' \in Nat, Handled =< Handled',
         \A i \in 1 .. Handled : events'[i] = events[i]
  PROVE  LiftedInv'
<1> SUFFICES ASSUME restriction' = "No", tls' # "no"
             PROVE  \E i \in 1 .. Handled' : events'[i].kind = "TLS"
  BY DEF LiftedInv
<1>1. PICK i \in 1 .. Handled : events[i].kind = "TLS"
  BY DEF GateInv, LiftedInv
<1>2. i \in 1 .. Handled' /\ events'[i].kind = "TLS"
  BY <1>1
<1>3. QED
  BY <1>2

\* What was handled is a prefix of the events.
LEMMA HandledBound ==
  ASSUME GateInv
  PROVE  /\ Handled \in Nat /\ Handled =< Len(events) /\ Handled =< taken
         /\ taken \in Nat /\ Len(events) \in Nat /\ taken =< Len(events)
         /\ Len(batch) \in Nat /\ Handled + Len(batch) = taken
BY DEF GateInv, GateTypeOK, TypeOK, BatchInv, Handled

\* A step that handles nothing and flushes nothing.
LEMMA SameBatch ==
  ASSUME GateInv, UNCHANGED <<tls, events, taken, batch, restriction, applied>>
  PROVE  OrderInv' /\ BatchInv' /\ LiftedInv' /\ OnlySecureApplied'
BY DEF GateInv, OrderInv, BatchInv, Handled, LiftedInv, OnlySecureApplied

\* A line handled without a restriction was read behind NetworkTLS.
LEMMA AppliedLine ==
  ASSUME GateInv, tls # "no", restriction = "No", batch # << >>,
         batch[1].kind = "Line"
  PROVE  batch[1].enc = TRUE
<1>1. PICK i \in 1 .. Handled : events[i].kind = "TLS"
  BY DEF GateInv, LiftedInv
<1>2. batch[1] = events[Handled + 1] /\ Handled + 1 \in 1 .. Len(events)
  <2>1. batch \in Seq(Event)
    BY DEF GateInv, GateTypeOK
  <2>2. Len(batch) > 0
    BY <2>1
  <2>3. QED
    BY <2>2, HandledBound DEF GateInv, BatchInv
<1>3. i \in 1 .. Len(events) /\ i < Handled + 1
  BY <1>1, HandledBound
<1>4. QED
  BY <1>1, <1>2, <1>3 DEF GateInv, OrderInv

\* Every step keeps the invariant.
LEMMA GateKept == GateInv /\ [GateNext]_allVars => GateInv'
<1> SUFFICES ASSUME GateInv, [GateNext]_allVars PROVE GateInv'
  OBVIOUS
<1>0. Inv' /\ TypeOK'
  BY GateStep, NextType, NextControl, NextStage, NextSecure
     DEF GateInv, Inv
<1>1. CASE Threads
  <2>1. /\ OrderInv' /\ Len(events) =< Len(events')
        /\ \A i \in 1 .. Len(events) : events'[i] = events[i]
    BY <1>1, EventsGrow DEF GateInv
  <2>2. UNCHANGED <<taken, tls, batch, restriction, known, applied>>
    BY <1>1, ThreadsKeep
  <2>3. Handled' = Handled
    BY <2>2 DEF Handled
  <2>4. BatchInv'
    <3>1. taken' =< Len(events') /\ Len(batch') =< taken'
      BY <1>0, <2>1, <2>2, HandledBound DEF GateInv, BatchInv, TypeOK
    <3>2. ASSUME NEW i \in 1 .. Len(batch') PROVE batch'[i] = events'[Handled' + i]
      <4>1. Handled + i \in 1 .. Len(events) /\ i \in 1 .. Len(batch)
        BY <2>2, <3>2, HandledBound
      <4>2. QED
        BY <2>1, <2>2, <2>3, <4>1 DEF GateInv, BatchInv
    <3>3. QED
      BY <3>1, <3>2 DEF BatchInv
  <2>5. LiftedInv'
    <3>1. \A i \in 1 .. Handled : i \in 1 .. Len(events)
      BY HandledBound
    <3>2. QED
      BY <2>1, <2>2, <2>3, <3>1, HandledBound, StaysLifted
  <2>6. QED
    BY <1>0, <2>1, <2>2, <2>4, <2>5 DEF GateInv, GateTypeOK, OnlySecureApplied
<1>2. CASE GetEvent
  <2>1. /\ batch = << >> /\ batch' = SubSeq(events, taken + 1, Len(events))
        /\ taken < Len(events) /\ taken' = Len(events)
        /\ UNCHANGED <<tls, events, restriction, known, applied>>
    BY <1>2 DEF GetEvent, Waiting, Recv, settings
  <2>2. events \in Seq(Event) /\ taken \in Nat /\ Len(events) \in Nat
    BY DEF GateInv, Inv, TypeOK
  <2>3. /\ batch' \in Seq(Event) /\ Len(batch') = Len(events) - taken
        /\ \A i \in 1 .. Len(batch') : batch'[i] = events[taken + i]
    BY <2>1, <2>2
  <2>4. Handled' = taken /\ Handled = taken
    BY <2>1, <2>2, <2>3 DEF Handled
  <2>5. BatchInv'
    BY <2>1, <2>2, <2>3, <2>4 DEF BatchInv
  <2>6. LiftedInv'
    BY <2>1, <2>2, <2>4, StaysLifted
  <2>7. QED
    BY <1>0, <2>1, <2>3, <2>5, <2>6
       DEF GateInv, GateTypeOK, OrderInv, OnlySecureApplied
<1>3. ASSUME batch # << >>, batch' = Tail(batch),
             UNCHANGED <<tls, events, taken>>,
             restriction' \in {"StartTLS", "WaitTLS", "No"}, known' \in BOOLEAN,
             \/ restriction' = "No" => restriction = "No"
             \/ batch[1].kind = "TLS",
             \/ UNCHANGED applied
             \/ /\ restriction = "No" /\ batch[1].kind = "Line"
                /\ batch[1].line # "malformed"
                /\ applied' = Append(applied, [line |-> batch[1].line,
                                              enc |-> batch[1].enc])
      PROVE  GateInv'
  <2>1. /\ BatchInv' /\ Handled' = Handled + 1 /\ Handled \in Nat
        /\ batch' \in Seq(Event) /\ batch[1] \in Event
        /\ batch[1] = events[Handled + 1] /\ Handled + 1 \in 1 .. Len(events)
    BY <1>3, HandleOne
  <2>2. OrderInv'
    BY <1>3 DEF GateInv, OrderInv
  <2>3. LiftedInv'
    <3>1. CASE restriction' = "No" => restriction = "No"
      BY <1>3, <2>1, <3>1, StaysLifted
    <3>2. CASE batch[1].kind = "TLS"
      <4>1. Handled + 1 \in 1 .. Handled' /\ events'[Handled + 1].kind = "TLS"
        BY <1>3, <2>1, <3>2
      <4>2. QED
        BY <4>1 DEF LiftedInv
    <3>3. QED
      BY <1>3, <3>1, <3>2
  <2>4. applied' \in Seq([line : Lines \ {"malformed"}, enc : BOOLEAN])
        /\ OnlySecureApplied'
    <3>1. CASE UNCHANGED applied
      BY <1>3, <3>1 DEF GateInv, GateTypeOK, OnlySecureApplied
    <3>2. CASE /\ restriction = "No" /\ batch[1].kind = "Line"
               /\ batch[1].line # "malformed"
               /\ applied' = Append(applied, [line |-> batch[1].line,
                                              enc |-> batch[1].enc])
      <4> DEFINE a == [line |-> batch[1].line, enc |-> batch[1].enc]
      <4>1. a \in [line : Lines \ {"malformed"}, enc : BOOLEAN]
        BY <2>1, <3>2 DEF Event
      <4>2. applied \in Seq([line : Lines \ {"malformed"}, enc : BOOLEAN])
        BY DEF GateInv, GateTypeOK
      <4>3. applied' = Append(applied, a)
        BY <3>2
      <4>4. tls # "no" => a.enc = TRUE
        BY <1>3, <3>2, AppliedLine
      <4>5. /\ applied' \in Seq([line : Lines \ {"malformed"}, enc : BOOLEAN])
            /\ Len(applied') = Len(applied) + 1 /\ Len(applied) \in Nat
            /\ \A i \in 1 .. Len(applied) : applied'[i] = applied[i]
            /\ applied'[Len(applied) + 1] = a
        <5> HIDE DEF a
        <5>1. QED
          BY <4>1, <4>2, <4>3
      <4>6. OnlySecureApplied'
        <5> SUFFICES ASSUME tls' # "no", NEW i \in 1 .. Len(applied')
                     PROVE  applied'[i].enc
          BY DEF OnlySecureApplied
        <5>1. CASE i \in 1 .. Len(applied)
          BY <1>3, <4>5, <5>1 DEF GateInv, OnlySecureApplied
        <5>2. CASE i = Len(applied) + 1
          BY <1>3, <4>4, <4>5, <5>2
        <5>3. QED
          BY <4>5, <5>1, <5>2
      <4>7. QED
        BY <4>5, <4>6
    <3>3. QED
      BY <1>3, <3>1, <3>2
  <2>5. QED
    BY <1>0, <1>3, <2>1, <2>2, <2>3, <2>4 DEF GateInv, GateTypeOK
<1>4. known \in BOOLEAN /\ restriction \in {"StartTLS", "WaitTLS", "No"}
  BY DEF GateInv, GateTypeOK
<1>5. CASE DoNetworkOpen
  BY <1>3, <1>4, <1>5
     DEF DoNetworkOpen, HandlingNext, vars, settings, queueVars
<1>6. CASE DoNetworkTLS
  BY <1>3, <1>4, <1>6 DEF DoNetworkTLS, HandlingNext, vars, settings, queueVars
<1>7. CASE LineWaitTLS
  BY <1>3, <1>4, <1>7
     DEF LineWaitTLS, HandlingNext, CallAbort, settings, queueVars
<1>8. CASE LineStartTLS
  BY <1>3, <1>4, <1>8
     DEF LineStartTLS, HandlingNext, CallAbort, CallUpgrade, vars, settings,
         queueVars
<1>9. CASE LineApplied
  BY <1>3, <1>4, <1>9 DEF LineApplied, HandlingNext, vars, settings, queueVars
<1>10. CASE DoNetworkFinal
  BY <1>3, <1>4, <1>10
     DEF DoNetworkFinal, HandlingNext, vars, settings, queueVars
<1>11. ASSUME UNCHANGED <<tls, events, taken, batch, restriction, applied>>,
              known' \in BOOLEAN
       PROVE  GateInv'
  BY <1>0, <1>11, SameBatch DEF GateInv, GateTypeOK
<1>12. CASE Disconnect \/ PingTimeout \/ SendMsg \/ CallContinues
  BY <1>4, <1>11, <1>12
     DEF Disconnect, PingTimeout, SendMsg, CallContinues, CallAbort, Send,
         SwapUpgrade, CancelPreReceiver, AbortDelivered, AbortReturns, settings,
         queueVars, gateVars
<1>13. CASE UNCHANGED allVars
  BY <1>4, <1>11, <1>13 DEF allVars, vars, settings, queueVars, gateVars
<1>14. QED
  BY <1>1, <1>2, <1>5, <1>6, <1>7, <1>8, <1>9, <1>10, <1>12, <1>13
     DEF GateNext, EventLoop

LEMMA GateInvariance == GateSpec => []GateInv
<1>1. GateInit /\ Inv => GateInv
  <2> SUFFICES ASSUME GateInit, Inv PROVE GateInv
    OBVIOUS
  <2>1. GateTypeOK
    BY DEF GateInit, Init, GateTypeOK, Inv
  <2>2. OrderInv /\ BatchInv /\ LiftedInv /\ OnlySecureApplied
    BY DEF GateInit, Init, OrderInv, BatchInv, Handled, LiftedInv,
           OnlySecureApplied
  <2>3. QED
    BY <2>1, <2>2 DEF GateInv
<1>2. QED
  BY <1>1, GateKept, EventLoopIsAnOwner, Invariance, PTL DEF GateSpec

(***************************************************************************)
(* The theorems.                                                           *)
(***************************************************************************)

\* The batch, the restriction and what was applied keep their types.
THEOREM GateTypeCorrect == GateSpec => []GateTypeOK
<1>1. GateInv => GateTypeOK
  BY DEF GateInv
<1>2. QED
  BY <1>1, GateInvariance, PTL

\* With TLS configured no line read in the clear reaches the session, however
\* many lines were batched before, with or behind the 670.
THEOREM NothingPlainIsApplied == GateSpec => []OnlySecureApplied
<1>1. GateInv => OnlySecureApplied
  BY DEF GateInv
<1>2. QED
  BY <1>1, GateInvariance, PTL

\* While the event loop enforces no restriction on a connection with TLS, the
\* connection has announced NetworkTLS and its socket is not the plain one.
THEOREM TheRestrictionIsHonest == GateSpec => []RestrictionHonest
<1>1. GateInv => RestrictionHonest
  <2> SUFFICES ASSUME GateInv, restriction = "No", tls # "no"
               PROVE  HasEvent("TLS") /\ handle # "plain"
    BY DEF RestrictionHonest
  <2>1. PICK i \in 1 .. Handled : events[i].kind = "TLS"
    BY DEF GateInv, LiftedInv
  <2>2. i \in 1 .. Len(events)
    BY <2>1, HandledBound
  <2>3. HasEvent("TLS") /\ secured
    BY <2>1, <2>2 DEF HasEvent, secured
  <2>4. QED
    BY <2>3 DEF GateInv, Inv, StageInv
<1>2. QED
  BY <1>1, GateInvariance, PTL

\* The event loop's queued messages leave encrypted, as any owner's do.
THEOREM TheGateSendsSecurely == GateSpec => []SentSecurely
BY EventLoopIsAnOwner, NothingSecretInTheClear, PTL

(***************************************************************************)
(* The dialling of HappyEyeballs, which gives Connect its socket: theorems *)
(* for every number of addresses N.                                        *)
(***************************************************************************)
\* While the answer is pending no cleanup has begun, and an attempt that was
\* started is either awaited or has failed.
DialPendingInv ==
  answer = "pending" =>
    /\ chosen = 0 /\ cancelling = {} /\ releasing = {} /\ released = {}
    /\ \A k \in Attempts : k =< started => k \in threads \/ attempt[k] = "failed"

\* The winner connected, and the cleanup thread has nothing to do with it.
DialChosenInv ==
  answer = "socket" =>
    /\ chosen \in Attempts /\ attempt[chosen] = "succeeded"
    /\ chosen \notin releasing /\ chosen \notin released

\* It cancels and releases attempts that were started.
DialCleanupInv == releasing \subseteq 1 .. started

\* After the answer, an attempt that may hold a socket is the winner or one the
\* cleanup thread waits for.
DialReleaseInv ==
  answer # "pending" =>
    \A k \in Attempts : Open(k) => k = chosen \/ k \in releasing

DialInv ==
  /\ DialTypeOK /\ DialPendingInv /\ DialChosenInv /\ DialCleanupInv
  /\ ErrorsComplete /\ DialReleaseInv

\* The invariant holds before the first attempt.
LEMMA DialBegins == DialInit => DialInv
BY NAssumption DEF DialInit, DialInv, DialTypeOK, DialPendingInv, DialChosenInv,
       DialCleanupInv, ErrorsComplete, DialReleaseInv, Attempts

\* Starting the next attempt, which must exist, keeps the invariant.
LEMMA DialStart ==
  ASSUME DialInv, answer = "pending", started < N, Start
  PROVE  DialInv'
<1> USE NAssumption
<1>1. started' = started + 1 /\ started' \in Attempts
  BY DEF DialInv, DialTypeOK, Attempts, Start
<1>2. \A k \in Attempts : attempt'[k] = IF k = started + 1 THEN "connecting"
                                        ELSE attempt[k]
  BY <1>1 DEF DialInv, DialTypeOK, Start
<1>3. DialTypeOK'
  <2>1. started' \in 0 .. N /\ timer' \in {"retry", "running", "ready"}
        /\ threads' \subseteq 1 .. started'
    BY <1>1 DEF DialInv, DialTypeOK, Start, Attempts
  <2>2. attempt' \in [Attempts -> {"waiting", "connecting", "succeeded", "failed"}]
    BY <1>1 DEF DialInv, DialTypeOK, Start
  <2>3. \A k \in Attempts : attempt'[k] = "waiting" <=> k > started'
    BY <1>1, <1>2 DEF DialInv, DialTypeOK, Attempts
  <2>4. /\ answer' \in {"pending", "socket", "errors", "aborted"} /\ chosen' \in 0 .. N
        /\ cancelling' \subseteq releasing' /\ releasing' \subseteq Attempts
    BY DEF DialInv, DialTypeOK, Start, cleanupVars
  <2>5. released' = {}
    BY DEF DialInv, DialPendingInv, Start, cleanupVars
  <2>6. QED
    BY <2>1, <2>2, <2>3, <2>4, <2>5 DEF DialTypeOK
<1>4. DialPendingInv'
  BY <1>1, <1>2 DEF DialInv, DialTypeOK, DialPendingInv, Start,
                    cleanupVars, Attempts
<1>5. DialChosenInv' /\ DialCleanupInv' /\ ErrorsComplete' /\ DialReleaseInv'
  BY DEF DialInv, DialPendingInv, Start, DialChosenInv, DialCleanupInv,
         ErrorsComplete, DialReleaseInv, cleanupVars
<1>6. QED
  BY <1>3, <1>4, <1>5 DEF DialInv

\* An attempt that ends changes nothing the loop or the cleanup relies on.
LEMMA DialEnds ==
  ASSUME DialInv, NEW k \in Attempts, attempt[k] = "connecting",
         NEW how \in {"succeeded", "failed"},
         attempt' = [attempt EXCEPT ![k] = how],
         UNCHANGED <<loopVars, releasing, released>>,
         cancelling' \subseteq cancelling
  PROVE  DialInv'
<1> USE NAssumption
<1>1. \A j \in Attempts : attempt'[j] = IF j = k THEN how ELSE attempt[j]
  BY DEF DialInv, DialTypeOK
<1>2. DialTypeOK'
  BY <1>1 DEF DialInv, DialTypeOK, loopVars
<1>3. DialPendingInv'
  BY <1>1 DEF DialInv, DialPendingInv, loopVars
<1>4. DialChosenInv' /\ DialCleanupInv' /\ ErrorsComplete'
  BY <1>1 DEF DialInv, DialChosenInv, DialCleanupInv, ErrorsComplete,
              loopVars
<1>5. DialReleaseInv'
  BY <1>1 DEF DialInv, DialReleaseInv, Open, loopVars
<1>6. QED
  BY <1>2, <1>3, <1>4, <1>5 DEF DialInv

\* Every step keeps the invariant.
LEMMA DialStepKeeps == DialInv /\ [DialNext]_dialVars => DialInv'
<1> USE NAssumption
<1> SUFFICES ASSUME DialInv, [DialNext]_dialVars PROVE DialInv'
  OBVIOUS
<1>1. CASE NothingRunning
  <2>1. CASE started < N /\ Start
    BY <1>1, <2>1, DialStart DEF NothingRunning
  <2>2. CASE /\ started = N /\ answer' = "errors"
             /\ UNCHANGED <<started, threads, timer, chosen, attempt, cleanupVars>>
    <3>1. \A k \in Attempts : attempt[k] = "failed"
      BY <1>1, <2>2 DEF NothingRunning, DialInv, DialPendingInv,
                        Attempts
    <3>2. QED
      BY <2>2, <3>1 DEF DialInv, DialTypeOK, DialPendingInv, DialChosenInv,
                        DialCleanupInv, ErrorsComplete, cleanupVars,
                        DialReleaseInv, Open
  <2>3. QED
    BY <1>1, <2>1, <2>2 DEF NothingRunning
<1>2. CASE Fresh
  BY <1>2, DialStart DEF Fresh, WaitingForEvent
<1>3. ASSUME NEW k \in Attempts, Finish1(k) PROVE DialInv'
  <2> USE <1>3
  <2>1. CASE attempt[k] = "succeeded"
    <3>1. /\ answer' = "socket" /\ chosen' = k /\ threads' = threads \ {k}
          /\ cancelling' = threads' /\ releasing' = threads' /\ released' = {}
          /\ UNCHANGED <<started, timer, attempt>>
      BY <2>1 DEF Finish1, Cleanup, DialInv, DialPendingInv
    <3>2. threads' \subseteq Attempts /\ DialCleanupInv'
      BY <3>1 DEF DialInv, DialTypeOK, Attempts, DialCleanupInv
    <3>3. DialTypeOK'
      BY <3>1, <3>2 DEF DialInv, DialTypeOK, Attempts
    <3>4. DialReleaseInv'
      <4>1. \A j \in Attempts : attempt[j] = "waiting" \/ attempt[j] = "failed"
                                \/ j \in threads
        BY DEF Finish1, DialInv, DialTypeOK, DialPendingInv, Attempts
      <4>2. QED
        BY <3>1, <4>1 DEF DialReleaseInv, Open
    <3>5. QED
      BY <2>1, <3>1, <3>2, <3>3, <3>4 DEF DialInv, DialPendingInv, DialChosenInv,
                                    ErrorsComplete
  <2>2. CASE attempt[k] = "failed"
    <3>1. /\ threads' = threads \ {k} /\ answer = "pending"
          /\ UNCHANGED <<answer, chosen, cleanupVars, started, timer, attempt>>
      BY <2>2 DEF Finish1
    <3>2. DialTypeOK'
      BY <3>1 DEF DialInv, DialTypeOK, cleanupVars
    <3>3. DialPendingInv'
      BY <2>2, <3>1 DEF DialInv, DialPendingInv, cleanupVars
    <3>4. QED
      BY <3>1, <3>2, <3>3 DEF DialInv, DialChosenInv, DialCleanupInv,
                              ErrorsComplete, DialReleaseInv, cleanupVars
  <2>3. QED
    BY <2>1, <2>2 DEF Finish1
<1>4. CASE TimerFires
  BY <1>4 DEF TimerFires, DialInv, DialTypeOK, DialPendingInv,
              DialChosenInv, DialCleanupInv, ErrorsComplete,
              DialReleaseInv, Open, cleanupVars
<1>5. CASE Interrupted
  <2>1. /\ answer' = "aborted" /\ cancelling' = threads /\ releasing' = threads
        /\ released' = {} /\ UNCHANGED <<started, threads, timer, chosen, attempt>>
    BY <1>5 DEF Interrupted, WaitingForEvent, Cleanup, DialInv,
                DialPendingInv
  <2>2. DialTypeOK' /\ DialCleanupInv'
    BY <2>1 DEF DialInv, DialTypeOK, Attempts, DialCleanupInv
  <2>3. DialReleaseInv'
    <3>1. \A j \in Attempts : attempt[j] = "waiting" \/ attempt[j] = "failed"
                              \/ j \in threads
      BY <1>5 DEF Interrupted, WaitingForEvent, DialInv, DialTypeOK,
                  DialPendingInv, Attempts
    <3>2. QED
      BY <2>1, <3>1 DEF DialReleaseInv, Open
  <2>4. QED
    BY <2>1, <2>2, <2>3 DEF DialInv, DialPendingInv, DialChosenInv,
                            ErrorsComplete
<1>6. ASSUME NEW k \in Attempts, Cancel(k) PROVE DialInv'
  <2>1. CASE Ended(k)
    BY <1>6, <2>1 DEF Cancel, DialInv, DialTypeOK, DialPendingInv,
                      DialChosenInv, DialCleanupInv, ErrorsComplete,
                      DialReleaseInv, Open, loopVars
  <2>2. CASE ~Ended(k)
    <3>1. answer # "pending" /\ k \in releasing
      BY <1>6 DEF Cancel, DialInv, DialTypeOK, DialPendingInv
    <3>2. CASE attempt[k] = "connecting"
      BY <1>6, <2>2, <3>2, DialEnds DEF Cancel
    <3>3. CASE attempt[k] = "waiting"
      BY <1>6, <2>2, <3>1, <3>3 DEF Cancel, DialInv, DialTypeOK,
                                    DialCleanupInv
    <3>4. QED
      BY <2>2, <3>2, <3>3 DEF Ended, DialInv, DialTypeOK
  <2>3. QED
    BY <2>1, <2>2
<1>7. ASSUME NEW k \in Attempts, Release(k) PROVE DialInv'
  BY <1>7 DEF Release, DialInv, DialTypeOK, DialPendingInv,
              DialChosenInv, DialCleanupInv, ErrorsComplete,
              DialReleaseInv, Open, loopVars, Ended
<1>8. ASSUME NEW k \in Attempts, Connects(k) \/ Fails(k) PROVE DialInv'
  BY <1>8, DialEnds DEF Connects, Fails, cleanupVars
<1>9. CASE UNCHANGED dialVars
  BY <1>9 DEF dialVars, loopVars, cleanupVars, DialInv, DialTypeOK,
              DialPendingInv, DialChosenInv, DialCleanupInv,
              ErrorsComplete, DialReleaseInv, Open
<1>10. QED
  BY <1>1, <1>2, <1>3, <1>4, <1>5, <1>6, <1>7, <1>8, <1>9
     DEF DialNext, Loop, CleanupThread

\* The invariant holds in every state of every behaviour.
LEMMA DialInvariance == DialSpec => []DialInv
<1>1. DialInit => DialInv
  BY DialBegins
<1>2. DialInv /\ [DialNext]_dialVars => DialInv'
  BY DialStepKeeps
<1> QED
  BY <1>1, <1>2, PTL DEF DialSpec

\* concurrentAttempts, its attempts and its cleanup thread keep their types,
\* and the cleanup thread cancels and releases attempts of this call only.
THEOREM DialTypeCorrect == DialSpec => []DialTypeOK
<1>1. DialInv => DialTypeOK
  BY DEF DialInv
<1>2. QED
  BY <1>1, DialInvariance, PTL

\* The socket concurrentAttempts returns is one that connected, and the cleanup
\* thread never closes it, for every number of addresses.
THEOREM SocketStaysOpen == DialSpec => []AnswerIsOpen
<1>1. DialInv => AnswerIsOpen
  BY DEF DialInv, DialChosenInv, AnswerIsOpen, Open
<1>2. QED
  BY <1>1, DialInvariance, PTL

\* Whatever ended concurrentAttempts, when its cleanup thread is done every socket
\* but the one returned is closed and none is being opened.
THEOREM UnneededSuccessReleased == DialSpec => []NothingLeaks
<1>1. DialInv => NothingLeaks
  BY DEF DialInv, DialReleaseInv, NothingLeaks
<1>2. QED
  BY <1>1, DialInvariance, PTL

\* concurrentAttempts fails only when every address was tried and has failed.
THEOREM ErrorsAreComplete == DialSpec => []ErrorsComplete
<1>1. DialInv => ErrorsComplete
  BY DEF DialInv
<1>2. QED
  BY <1>1, DialInvariance, PTL
=============================================================================
