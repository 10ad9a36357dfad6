----------------------------- MODULE Page_proofs -----------------------------
(***************************************************************************)
(* Proofs about Page, for every set of pages, length of a second, demo and *)
(* bound on what pages do.                                                 *)
(***************************************************************************)
EXTENDS Page, SequenceLemmas

-----------------------------------------------------------------------------
(* What stays true as the journal grows.                                   *)

\* The journal is appended to, or the engine is reset.
Grown(times, e, later, f) ==
  \/ f = e + 1
  \/ /\ f = e /\ Len(times) <= Len(later)
     /\ \A i \in 1 .. Len(times) : later[i] = times[i]

\* A span that held of a journal holds of it later, and so does the result of a replay.
LEMMA SoundStays ==
  ASSUME NEW times \in Seq(Nat), NEW later \in Seq(Nat), NEW e \in Nat, NEW f \in Nat,
         Grown(times, e, later, f)
  PROVE  /\ \A span \in Span \cup Info : SpanSound(span, times, e) => SpanSound(span, later, f)
         /\ \A res \in Result : ResultSound(res, times, e) => ResultSound(res, later, f)
         /\ \A msg \in Reply : ReplySound(msg, times, e) => ReplySound(msg, later, f)
<1>1. Len(times) \in Nat /\ Len(later) \in Nat
  BY LenProperties
<1>2. ASSUME NEW span \in Span \cup Info, SpanSound(span, times, e)
      PROVE  SpanSound(span, later, f)
  <2>1. span.era \in Int /\ span.count \in Nat /\ span.era <= e
    BY <1>2 DEF Span, Info, SpanSound
  <2>2. CASE f = e + 1
    BY <1>2, <2>1, <2>2 DEF SpanSound
  <2>3. CASE f = e /\ Len(times) <= Len(later) /\ \A i \in 1 .. Len(times) : later[i] = times[i]
    <3>1. span.era = e => span.count <= Len(times)
      BY <1>2 DEF SpanSound
    <3>2. span.era = e => \A i \in 1 .. span.count : later[i] = times[i]
      BY <1>1, <2>1, <2>3, <3>1
    <3> QED
      BY <1>1, <1>2, <2>1, <2>3, <3>1, <3>2 DEF SpanSound
  <2> QED
    BY <2>2, <2>3 DEF Grown
<1>3. ASSUME NEW res \in Result, ResultSound(res, times, e)
      PROVE  ResultSound(res, later, f)
  <2>1. res.era \in Nat /\ res.count \in Nat /\ res.era <= e
    BY <1>3 DEF Result, ResultSound
  <2>2. CASE f = e + 1
    BY <1>3, <2>1, <2>2 DEF ResultSound
  <2>3. CASE f = e /\ Len(times) <= Len(later) /\ \A i \in 1 .. Len(times) : later[i] = times[i]
    <3>1. res.era = e => res.count <= Len(times)
      BY <1>3 DEF ResultSound
    <3>2. res.era = e => \A i \in 1 .. res.count : later[i] = times[i]
      BY <1>1, <2>1, <2>3, <3>1
    <3> QED
      BY <1>1, <1>3, <2>1, <2>3, <3>1, <3>2 DEF ResultSound
  <2> QED
    BY <2>2, <2>3 DEF Grown
<1>4. ASSUME NEW msg \in Reply, ReplySound(msg, times, e)
      PROVE  ReplySound(msg, later, f)
  <2>1. msg.type = "journal_info" /\ msg.count > 0 => msg \in Info
    BY DEF Reply, NoSpan, Info, Result
  <2>2. msg.type = "replay_result" => msg \in Result
    BY DEF Reply, NoSpan, Info, Result
  <2> QED
    BY <1>2, <1>3, <1>4, <2>1, <2>2 DEF ReplySound
<1> QED
  BY <1>2, <1>3, <1>4

-----------------------------------------------------------------------------
(* The parts of the invariant an action leaves alone.                      *)

\* Controls nobody moved, over a journal that grew.
LEMMA ControlsKept ==
  ASSUME TypeOK, TypeOK', ControlsSound, Grown(journal, era, journal', era'),
         UNCHANGED <<range, slider, picker>>
  PROVE  ControlsSound'
<1>1. ASSUME NEW p \in Pages PROVE SpanSound(range[p], journal', era')
  BY SoundStays DEF TypeOK, ControlsSound
<1> QED
  BY <1>1 DEF ControlsSound

\* Requests that are under way already, or that their page sends now.
LEMMA RequestsKept ==
  ASSUME TypeOK, TypeOK', RequestsSound, Grown(journal, era, journal', era'),
         \A p \in Pages : \A req \in ToSet(sent'[p]) : req.type = "replay" =>
           \/ req \in ToSet(sent[p])
           \/ RequestSound(req) /\ SpanSound(req.range, journal', era')
  PROVE  RequestsSound'
<1> SUFFICES ASSUME NEW p \in Pages, NEW req \in ToSet(sent'[p]), req.type = "replay"
             PROVE  RequestSound(req) /\ SpanSound(req.range, journal', era')
  <2>1. \A p \in Pages : sent'[p] \in Seq(Request)
    BY DEF TypeOK
  <2> QED
    BY <2>1, InQueue DEF RequestsSound
<1> SUFFICES ASSUME req \in ToSet(sent[p])
             PROVE  RequestSound(req) /\ SpanSound(req.range, journal', era')
  OBVIOUS
<1>1. sent[p] \in Seq(Request)
  BY DEF TypeOK
<1>2. PICK i \in 1 .. Len(sent[p]) : req = sent[p][i]
  BY <1>1, InQueue
<1>3. RequestSound(req) /\ SpanSound(req.range, journal, era) /\ req \in Request
  BY <1>1, <1>2, InQueue DEF RequestsSound
<1>4. req.range \in Span
  BY <1>3, CommandsAssumption DEF Request, ReplayReq, EventCommands
<1> QED
  BY <1>3, <1>4, SoundStays DEF TypeOK

\* Replies that are under way already, or that are made now.
LEMMA RepliesKept ==
  ASSUME TypeOK, TypeOK', RepliesSound, Grown(journal, era, journal', era'),
         \A p \in Pages : \A msg \in ToSet(pending'[p]) \cup ToSet(inbox'[p]) :
           \/ \E q \in Pages : msg \in ToSet(pending[q]) \cup ToSet(inbox[q])
           \/ ReplySound(msg, journal', era'),
         \A p \in Pages :
           \/ result'[p] = result[p]
           \/ result'[p] \in ToSet(inbox[p]) /\ result'[p].type = "replay_result"
  PROVE  RepliesSound'
<1>1. ASSUME NEW q \in Pages, NEW msg \in ToSet(pending[q]) \cup ToSet(inbox[q])
      PROVE  ReplySound(msg, journal', era')
  <2>1. pending[q] \in Seq(Reply) /\ inbox[q] \in Seq(Reply)
    BY DEF TypeOK
  <2>2. msg \in Reply /\ ReplySound(msg, journal, era)
    BY <2>1, InQueue DEF RepliesSound
  <2> QED
    BY <2>2, SoundStays DEF TypeOK
<1>2. ASSUME NEW p \in Pages, NEW msg \in ToSet(pending'[p]) \cup ToSet(inbox'[p])
      PROVE  ReplySound(msg, journal', era')
  BY <1>1
<1>3. \A p \in Pages : pending'[p] \in Seq(Reply) /\ inbox'[p] \in Seq(Reply)
  BY DEF TypeOK
<1>4. ASSUME NEW p \in Pages, result'[p] # NoResult
      PROVE  ResultSound(result'[p], journal', era')
  <2>1. CASE result'[p] = result[p]
    <3>1. result[p] \in Result
      BY <1>4, <2>1 DEF TypeOK
    <3> QED
      BY <1>4, <2>1, <3>1, SoundStays DEF TypeOK, RepliesSound
  <2>2. CASE result'[p] \in ToSet(inbox[p]) /\ result'[p].type = "replay_result"
    BY <1>1, <2>2 DEF ReplySound
  <2> QED
    BY <2>1, <2>2
<1> QED
  BY <1>2, <1>3, <1>4, InQueue DEF RepliesSound

-----------------------------------------------------------------------------
(* The page's controls.                                                    *)

\* A second is counted in whole instants, and local clocks change at a whole second.
LEMMA WholeSeconds ==
  ASSUME NEW t \in Nat, NEW at \in {DstBegins + DstShift, DstEnds + DstShift}
  PROVE  /\ (t \div Second) * Second \in Nat
         /\ (t \div Second) * Second <= t /\ t < (t \div Second) * Second + Second
         /\ at <= t => at <= (t \div Second) * Second
<1> DEFINE n == t \div Second
<1>1. Second \in Nat /\ Second > 0
  BY TimeAssumption
<1>2. ASSUME NEW u \in Nat
      PROVE  /\ u \div Second \in Nat /\ u % Second \in Nat /\ u % Second < Second
             /\ u = Second * (u \div Second) + (u % Second)
  BY <1>1
<1>3. /\ DstBegins \in Nat /\ DstBegins % Second = 0 /\ DstEnds \in Nat /\ DstEnds % Second = 0
      /\ DstShift \in Nat /\ DstShift % Second = 0
  BY DstAssumption
<1>4. /\ DstBegins = Second * (DstBegins \div Second) /\ DstBegins \div Second \in Nat
      /\ DstEnds = Second * (DstEnds \div Second) /\ DstEnds \div Second \in Nat
      /\ DstShift = Second * (DstShift \div Second) /\ DstShift \div Second \in Nat
  <2>1. ASSUME NEW u \in Nat, u % Second = 0
        PROVE  u = Second * (u \div Second) /\ u \div Second \in Nat
    <3> DEFINE q == u \div Second
               r == u % Second
    <3>1. q \in Nat /\ u = Second * q + r /\ r = 0
      BY <1>2, <2>1
    <3>2. Second * q \in Nat
      BY <1>1, <3>1
    <3> HIDE DEF q, r
    <3>3. u = Second * q
      BY <3>1, <3>2
    <3> QED
      BY <3>1, <3>3 DEF q
  <2> QED
    BY <1>3, <2>1
<1>5. PICK w \in Nat : at = Second * w
  <2>1. PICK b, e, h \in Nat : DstBegins = Second * b /\ DstEnds = Second * e /\ DstShift = Second * h
    BY <1>4
  <2>2. /\ Second * b + Second * h = Second * (b + h) /\ b + h \in Nat
        /\ Second * e + Second * h = Second * (e + h) /\ e + h \in Nat
    BY <1>1, <2>1
  <2>3. at = Second * (b + h) \/ at = Second * (e + h)
    BY <2>1, <2>2
  <2> QED
    BY <2>2, <2>3
<1>6. n \in Nat /\ t = Second * n + (t % Second) /\ t % Second \in Nat /\ t % Second < Second
  BY <1>2
<1> HIDE DEF n
<1>7. Second * n \in Nat /\ n * Second = Second * n
  BY <1>1, <1>6
<1>8. at <= t => at <= Second * n
  <2>1. SUFFICES ASSUME Second * w <= t PROVE w <= n
    <3>1. \A x, y \in Nat : x <= y => Second * x <= Second * y
      BY <1>1
    <3> QED
      BY <1>5, <1>6, <2>1, <3>1
  <2>2. Second * (n + 1) = Second * n + Second
    BY <1>1, <1>6
  <2>3. n + 1 <= w => Second * (n + 1) <= Second * w
    BY <1>1, <1>6
  <2>4. t < Second * (n + 1)
    BY <1>1, <1>6, <1>7, <2>2
  <2>5. Second * (n + 1) \in Nat /\ Second * w \in Nat
    BY <1>1, <1>6
  <2> QED
    BY <1>6, <2>1, <2>3, <2>4, <2>5
<1> QED
  BY <1>1, <1>6, <1>7, <1>8 DEF n

\* A local time is taken for an instant, which is not before the clock's zero.
LEMMA TimeOfValue ==
  ASSUME NEW value \in Nat
  PROVE  GetTime(value) \in Nat
BY DstAssumption DEF GetTime

\* What the picker shows of an instant is taken for one before it, by less than its lag.
LEMMA PickerShows ==
  ASSUME NEW t \in Nat
  PROVE  /\ ToLocalInputValue(t) \in Nat
         /\ LagBounded(GetTime(ToLocalInputValue(t)), t)
<1> DEFINE local == LocalTime(t)
           value == (local \div Second) * Second
<1>1. DstBegins \in Nat /\ DstEnds \in Nat /\ DstShift \in Nat /\ DstBegins + DstShift <= DstEnds
  BY DstAssumption
<1>2. local \in Nat /\ local = IF DstBegins <= t /\ t < DstEnds THEN t + DstShift ELSE t
  BY <1>1 DEF LocalTime
<1> HIDE DEF local
<1>3. /\ value \in Nat /\ value <= local /\ local < value + Second
      /\ DstBegins + DstShift <= local => DstBegins + DstShift <= value
      /\ DstEnds + DstShift <= local => DstEnds + DstShift <= value
  BY <1>2, WholeSeconds
<1> HIDE DEF value
<1>4. Second \in Nat /\ Second > 0
  BY TimeAssumption
<1>5. GetTime(value) =
        IF DstBegins + DstShift <= value /\ value < DstEnds + DstShift THEN value - DstShift ELSE value
  BY DEF GetTime
<1>6. PickerLag(t) = IF DstEnds <= t /\ t < DstEnds + DstShift THEN Second + DstShift ELSE Second
  BY DEF PickerLag, ShownTwice
<1>7. GetTime(value) <= t /\ t < GetTime(value) + PickerLag(t)
  <2>1. CASE DstBegins <= t /\ t < DstEnds
    BY <1>1, <1>2, <1>3, <1>4, <1>5, <1>6, <2>1
  <2>2. CASE t < DstBegins
    BY <1>1, <1>2, <1>3, <1>4, <1>5, <1>6, <2>2
  <2>3. CASE DstEnds <= t
    BY <1>1, <1>2, <1>3, <1>4, <1>5, <1>6, <2>3
  <2> QED
    BY <1>1, <2>1, <2>2, <2>3
<1>8. ToLocalInputValue(t) = value
  BY DEF ToLocalInputValue, local, value
<1> QED
  BY <1>3, <1>7, <1>8 DEF LagBounded

\* What a page sends is one more request, of which its controls stood for what they said.
LEMMA SendStep ==
  ASSUME PageInv, NEW p \in Pages, NEW msg \in Request, Send(p, msg),
         dragged' \in [Pages -> BOOLEAN],
         msg.type = "replay" => RequestSound(msg) /\ SpanSound(msg.range, journal, era)
  PROVE  PageInv'
<1> USE DEF PageInv
<1>1. /\ UNCHANGED <<now, journal, era, open, pending, inbox, range, slider, picker, result>>
      /\ UNCHANGED <<moves, losses>> /\ commands' = commands + 1
      /\ sent' = IF open[p] THEN [sent EXCEPT ![p] = Append(@, msg)] ELSE sent
  BY DEF Send, engineVars
<1>2. sent \in [Pages -> Seq(Request)] /\ Append(sent[p], msg) \in Seq(Request)
  BY AppendToQueue DEF TypeOK
<1>3. sent' \in [Pages -> Seq(Request)]
  BY <1>1, <1>2
<1>4. TypeOK'
  BY <1>1, <1>3 DEF TypeOK
<1>5. Grown(journal, era, journal', era')
  BY <1>1, LenProperties DEF Grown, TypeOK
<1>6. ControlsSound'
  BY <1>1, <1>4, <1>5, ControlsKept
<1>7. ASSUME NEW q \in Pages, NEW req \in ToSet(sent'[q])
      PROVE  req \in ToSet(sent[q]) \/ req = msg
  <2>1. ToSet(Append(sent[p], msg)) = ToSet(sent[p]) \cup {msg}
    BY <1>2, AppendToQueue
  <2>2. CASE q = p /\ open[p]
    <3>1. sent'[q] = Append(sent[p], msg)
      BY <1>1, <1>2, <2>2
    <3>2. req \in ToSet(Append(sent[p], msg))
      BY <1>7, <3>1
    <3> QED
      BY <2>1, <2>2, <3>2
  <2>3. CASE ~(q = p /\ open[p])
    <3>1. sent'[q] = sent[q]
      BY <1>1, <1>2, <2>3
    <3> QED
      BY <1>7, <3>1
  <2> QED
    BY <2>2, <2>3
<1>8. RequestsSound'
  BY <1>1, <1>4, <1>5, <1>7, RequestsKept
<1>9. RepliesSound'
  BY <1>1, <1>4, <1>5, RepliesKept
<1> QED
  BY <1>4, <1>6, <1>8, <1>9

\* A request to replay has the controls' values in it.
LEMMA ReplayType ==
  ASSUME NEW target \in Nat, NEW from \in {"slider", "picker", "now"}, NEW at \in Nat,
         NEW span \in Span
  PROVE  /\ Replay(target, from, at, span) \in Request
         /\ Replay(target, from, at, span).range = span
         /\ RequestSound(Replay(target, from, at, span)) <=>
              /\ from = "slider" => target = at /\ span.earliest <= at
              /\ from = "picker" => LagBounded(target, at)
BY DEF Replay, Request, ReplayReq, RequestSound

\* The forms' commands carry no time.
LEMMA CommandStep ==
  ASSUME PageInv, NEW p \in Pages, Command(p)
  PROVE  PageInv'
<1>1. PICK type \in Commands : Send(p, [type |-> type]) /\ UNCHANGED dragged
  BY DEF Command
<1>2. [type |-> type] \in Request /\ [type |-> type].type # "replay"
  BY CommandsAssumption DEF Request, EventCommands
<1>3. dragged' \in [Pages -> BOOLEAN]
  BY <1>1 DEF PageInv, TypeOK
<1> QED
  BY <1>1, <1>2, <1>3, SendStep

\* The slider stands within the span the page was told.
LEMMA ReleaseSliderStep ==
  ASSUME PageInv, NEW p \in Pages, ReleaseSlider(p)
  PROVE  PageInv'
<1> DEFINE req == Replay(slider[p], "slider", slider[p], range[p])
<1>1. slider[p] \in Nat /\ range[p] \in Span /\ dragged' \in [Pages -> BOOLEAN]
  BY DEF PageInv, TypeOK, ReleaseSlider
<1>2. range[p].earliest <= slider[p] /\ SpanSound(range[p], journal, era)
  BY DEF PageInv, ControlsSound
<1>3. req \in Request /\ req.range = range[p] /\ RequestSound(req)
  BY <1>1, <1>2, ReplayType
<1>4. Send(p, req)
  BY DEF ReleaseSlider
<1> HIDE DEF req
<1> QED
  BY <1>1, <1>2, <1>3, <1>4, SendStep

\* The picker is taken for an instant not long before the one it was set to.
LEMMA ReplayPickedStep ==
  ASSUME PageInv, NEW p \in Pages, ReplayPicked(p)
  PROVE  PageInv'
<1> DEFINE req == Replay(GetTime(picker[p].value), "picker", picker[p].of, range[p])
<1>1. /\ picker[p].value \in Nat /\ picker[p].of \in Nat /\ range[p] \in Span
      /\ dragged' \in [Pages -> BOOLEAN]
  BY DEF PageInv, TypeOK, ReplayPicked
<1>2. /\ GetTime(picker[p].value) \in Nat /\ LagBounded(GetTime(picker[p].value), picker[p].of)
      /\ SpanSound(range[p], journal, era)
  BY <1>1, TimeOfValue DEF PageInv, ControlsSound, ReplayPicked
<1>3. req \in Request /\ req.range = range[p] /\ RequestSound(req)
  BY <1>1, <1>2, ReplayType
<1>4. Send(p, req)
  BY DEF ReplayPicked
<1> HIDE DEF req
<1> QED
  BY <1>1, <1>2, <1>3, <1>4, SendStep

\* A replay to the present concerns neither control.
LEMMA ReplayNowStep ==
  ASSUME PageInv, NEW p \in Pages, ReplayNow(p)
  PROVE  PageInv'
<1> DEFINE req == Replay(now, "now", now, range[p])
<1>1. now \in Nat /\ range[p] \in Span /\ dragged' \in [Pages -> BOOLEAN]
  BY DEF PageInv, TypeOK, ReplayNow
<1>2. SpanSound(range[p], journal, era)
  BY DEF PageInv, ControlsSound
<1>3. req \in Request /\ req.range = range[p] /\ RequestSound(req)
  BY <1>1, ReplayType
<1>4. Send(p, req)
  BY DEF ReplayNow
<1> HIDE DEF req
<1> QED
  BY <1>1, <1>2, <1>3, <1>4, SendStep

\* Moving the slider sets the picker, and neither leaves the span.
LEMMA MoveSliderStep ==
  ASSUME PageInv, NEW p \in Pages, MoveSlider(p)
  PROVE  PageInv'
<1> USE DEF PageInv
<1>1. PICK t \in range[p].earliest .. range[p].latest :
        /\ slider' = [slider EXCEPT ![p] = t] /\ dragged' = [dragged EXCEPT ![p] = TRUE]
        /\ picker' = [picker EXCEPT ![p] = [value |-> ToLocalInputValue(t), of |-> t]]
  BY DEF MoveSlider
<1>2. /\ UNCHANGED <<now, journal, era, open, sent, pending, inbox, range, result>>
      /\ UNCHANGED <<commands, losses>> /\ moves' = moves + 1
  BY DEF MoveSlider, engineVars, netVars
<1>3. range[p].earliest \in Nat /\ range[p].latest \in Nat
  BY DEF TypeOK, Span
<1>4. t \in Nat /\ range[p].earliest <= t /\ t <= range[p].latest
  BY <1>3
<1>5. ToLocalInputValue(t) \in Nat /\ LagBounded(GetTime(ToLocalInputValue(t)), t)
  BY <1>4, PickerShows
<1>6. TypeOK'
  BY <1>1, <1>2, <1>4, <1>5 DEF TypeOK
<1>7. ControlsSound'
  <2> SUFFICES ASSUME NEW q \in Pages
               PROVE  /\ SpanSound(range[q], journal, era)
                      /\ range[q].earliest <= slider'[q] /\ slider'[q] <= range[q].latest
                      /\ picker'[q] # NoPicker => LagBounded(GetTime(picker'[q].value), picker'[q].of)
    BY <1>2 DEF ControlsSound
  <2>1. CASE q = p
    <3>1. slider'[q] = t /\ picker'[q] = [value |-> ToLocalInputValue(t), of |-> t]
      BY <1>1, <2>1 DEF TypeOK
    <3> QED
      BY <1>4, <1>5, <2>1, <3>1 DEF ControlsSound
  <2>2. CASE q # p
    <3>1. slider'[q] = slider[q] /\ picker'[q] = picker[q]
      BY <1>1, <2>2 DEF TypeOK
    <3> QED
      BY <3>1 DEF ControlsSound
  <2> QED
    BY <2>1, <2>2
<1>8. Grown(journal, era, journal', era')
  BY <1>2, LenProperties DEF Grown, TypeOK
<1> QED
  BY <1>2, <1>6, <1>7, <1>8, RequestsKept, RepliesKept

\* The picker stands for the very instant that its value is taken for.
LEMMA PickTimeStep ==
  ASSUME PageInv, NEW p \in Pages, PickTime(p)
  PROVE  PageInv'
<1> USE DEF PageInv
<1>1. PICK second \in 0 .. (MaxTime + DstShift) \div Second :
        picker' = [picker EXCEPT ![p] = [value |-> second * Second, of |-> GetTime(second * Second)]]
  BY DEF PickTime
<1> DEFINE value == second * Second
           t     == GetTime(value)
<1>2. /\ UNCHANGED <<now, journal, era, open, sent, pending, inbox, range, slider, dragged, result>>
      /\ UNCHANGED <<commands, losses>> /\ moves' = moves + 1
  BY DEF PickTime, engineVars, netVars
<1>3. value \in Nat /\ t \in Nat /\ LagBounded(t, t)
  <2>1. second \in Nat /\ Second \in Nat /\ Second > 0 /\ DstShift \in Nat
    BY TimeAssumption, DstAssumption
  <2>2. value \in Nat
    BY <2>1
  <2>3. t \in Nat
    BY <2>2, TimeOfValue
  <2> HIDE DEF t
  <2>4. PickerLag(t) \in Nat /\ PickerLag(t) > 0
    BY <2>1 DEF PickerLag
  <2> QED
    BY <2>2, <2>3, <2>4 DEF LagBounded
<1>4. picker' = [picker EXCEPT ![p] = [value |-> value, of |-> t]] /\ t = GetTime(value)
  BY <1>1
<1> HIDE DEF t, value
<1>5. TypeOK'
  BY <1>2, <1>3, <1>4 DEF TypeOK
<1>6. ControlsSound'
  <2> SUFFICES ASSUME NEW q \in Pages
               PROVE  picker'[q] # NoPicker => LagBounded(GetTime(picker'[q].value), picker'[q].of)
    BY <1>2 DEF ControlsSound
  <2>1. CASE q = p
    <3>1. picker'[q] = [value |-> value, of |-> t]
      BY <1>4, <2>1 DEF TypeOK
    <3> QED
      BY <1>3, <1>4, <3>1
  <2>2. CASE q # p
    <3>1. picker'[q] = picker[q]
      BY <1>4, <2>2 DEF TypeOK
    <3> QED
      BY <3>1 DEF ControlsSound
  <2> QED
    BY <2>1, <2>2
<1>7. Grown(journal, era, journal', era')
  BY <1>2, LenProperties DEF Grown, TypeOK
<1> QED
  BY <1>2, <1>5, <1>6, <1>7, RequestsKept, RepliesKept

-----------------------------------------------------------------------------
(* The server.                                                             *)

\* One queue after another.
LEMMA JoinedQueues ==
  ASSUME NEW T, NEW s \in Seq(T), NEW t \in Seq(T)
  PROVE  s \o t \in Seq(T) /\ ToSet(s \o t) = ToSet(s) \cup ToSet(t)
<1>1. /\ s \o t \in Seq(T) /\ Len(s \o t) = Len(s) + Len(t)
      /\ \A i \in 1 .. Len(s) + Len(t) : (s \o t)[i] = IF i <= Len(s) THEN s[i] ELSE t[i - Len(s)]
  BY ConcatProperties
<1>2. /\ ToSet(s) = {s[i] : i \in 1 .. Len(s)} /\ ToSet(t) = {t[i] : i \in 1 .. Len(t)}
      /\ Len(s) \in Nat /\ Len(t) \in Nat
  BY InQueue
<1>3. ToSet(s \o t) = {(s \o t)[i] : i \in 1 .. Len(s) + Len(t)}
  BY <1>1, InQueue
<1>4. ASSUME NEW i \in 1 .. Len(s) PROVE s[i] \in ToSet(s \o t)
  <2>1. i \in 1 .. Len(s) + Len(t) /\ (s \o t)[i] = s[i]
    BY <1>1, <1>2
  <2> QED
    BY <1>3, <2>1
<1>5. ASSUME NEW i \in 1 .. Len(t) PROVE t[i] \in ToSet(s \o t)
  <2>1. /\ Len(s) + i \in 1 .. Len(s) + Len(t) /\ ~(Len(s) + i <= Len(s))
        /\ (Len(s) + i) - Len(s) = i
    BY <1>2
  <2>2. (s \o t)[Len(s) + i] = t[i]
    BY <1>1, <2>1
  <2> QED
    BY <1>3, <2>1, <2>2
<1>6. ASSUME NEW i \in 1 .. Len(s) + Len(t) PROVE (s \o t)[i] \in ToSet(s) \cup ToSet(t)
  <2>1. CASE i <= Len(s)
    BY <1>1, <1>2, <2>1
  <2>2. CASE ~(i <= Len(s))
    <3>1. i - Len(s) \in 1 .. Len(t)
      BY <1>2, <2>2
    <3> QED
      BY <1>1, <1>2, <2>2, <3>1
  <2> QED
    BY <2>1, <2>2
<1> QED
  BY <1>1, <1>2, <1>3, <1>4, <1>5, <1>6

\* A queue of one.
LEMMA OneInQueue ==
  ASSUME NEW T, NEW x \in T
  PROVE  <<x>> \in Seq(T) /\ ToSet(<<x>>) = {x}
<1>1. <<x>> \in Seq(T) /\ Len(<<x>>) = 1 /\ <<x>>[1] = x
  OBVIOUS
<1>2. ToSet(<<x>>) = {<<x>>[i] : i \in 1 .. 1}
  BY <1>1, InQueue
<1> QED
  BY <1>1, <1>2

\* There is a last of finitely many times.
LEMMA BoundedTimes ==
  ASSUME NEW times \in Seq(Nat)
  PROVE  \E b \in Nat : \A i \in 1 .. Len(times) : times[i] <= b
<1> DEFINE Bounded(k) == \E b \in Nat : \A i \in 1 .. k : times[i] <= b
           rest == {k \in 0 .. Len(times) : ~Bounded(k)}
<1>1. Len(times) \in Nat /\ \A i \in 1 .. Len(times) : times[i] \in Nat
  BY InQueue
<1>2. Bounded(0)
  OBVIOUS
<1>3. ASSUME NEW k \in 0 .. Len(times), k # 0, Bounded(k - 1)
      PROVE  Bounded(k)
  <2>1. PICK b \in Nat : \A i \in 1 .. k - 1 : times[i] <= b
    BY <1>3
  <2>2. k \in 1 .. Len(times) /\ \A i \in 1 .. k : i = k \/ i \in 1 .. k - 1
    BY <1>1, <1>3
  <2>3. /\ b + times[k] \in Nat
        /\ \A i \in 1 .. k : times[i] <= b + times[k]
    BY <1>1, <2>1, <2>2
  <2> QED
    BY <2>3
<1>4. rest = {}
  <2> SUFFICES ASSUME rest # {} PROVE FALSE
    OBVIOUS
  <2>1. rest \in SUBSET Nat
    BY <1>1
  <2>2. PICK k \in rest : \A l \in rest : k <= l
    <3> HIDE DEF rest
    <3> QED
      BY <2>1, LeastNat
  <2>3. k \in 0 .. Len(times) /\ ~Bounded(k)
    BY <2>2
  <2>4. k # 0
    BY <1>2, <2>3
  <2>5. k - 1 \in 0 .. Len(times) /\ ~(k <= k - 1)
    BY <1>1, <2>3, <2>4
  <2>6. Bounded(k - 1)
    BY <2>2, <2>5
  <2> QED
    BY <1>3, <2>3, <2>4, <2>6
<1> QED
  <2>1. Len(times) \in 0 .. Len(times)
    BY <1>1
  <2> QED
    BY <1>4, <2>1

\* What journal_info says of a journal is a span that holds of it.
LEMMA SpanTold ==
  ASSUME NEW times \in Seq(Nat), NEW e \in Nat, NEW info,
         info = IF times = << >> THEN [type |-> "journal_info", count |-> 0]
                ELSE [type |-> "journal_info", earliest |-> Min(ToSet(times)),
                      latest |-> Max(ToSet(times)), era |-> e, count |-> Len(times)]
  PROVE  info \in Reply /\ ReplySound(info, times, e)
<1>1. CASE times = << >>
  BY <1>1 DEF Reply, NoSpan, ReplySound
<1>2. CASE times # << >>
  <2> DEFINE S  == ToSet(times)
             lo == Min(S)
             hi == Max(S)
  <2>1. /\ S = {times[i] : i \in 1 .. Len(times)} /\ Len(times) \in Nat /\ Len(times) # 0
        /\ \A i \in 1 .. Len(times) : times[i] \in Nat
    BY <1>2, InQueue
  <2>2. S \in SUBSET Nat /\ S # {} /\ times[1] \in S
    BY <2>1
  <2>3. lo \in S /\ \A y \in S : lo <= y
    <3> HIDE DEF S
    <3>1. S \in SUBSET Int /\ 0 \in Int /\ \A y \in S : 0 <= y
      BY <2>2
    <3> QED
      BY <2>2, <3>1, MinOfSet
  <2>4. hi \in S /\ \A y \in S : y <= hi
    <3>1. \E b \in Nat : \A i \in 1 .. Len(times) : times[i] <= b
      BY <2>1, BoundedTimes
    <3>2. PICK b \in Nat : \A y \in S : y <= b
      BY <2>1, <3>1
    <3> HIDE DEF S
    <3>3. S \in SUBSET Int /\ b \in Int
      BY <2>2
    <3> QED
      BY <2>2, <3>2, <3>3, MaxOfSet
  <2> HIDE DEF S, lo, hi
  <2>5. lo \in Nat /\ hi \in Nat /\ lo <= hi
    BY <2>2, <2>3, <2>4
  <2>6. /\ info = [type |-> "journal_info", earliest |-> lo, latest |-> hi, era |-> e, count |-> Len(times)]
    BY <1>2 DEF lo, hi, S
  <2>7. info \in Info
    BY <2>1, <2>5, <2>6 DEF Info
  <2>8. \A i \in 1 .. Len(times) : times[i] <= hi
    BY <2>1, <2>4
  <2>9. \E i \in 1 .. Len(times) : times[i] <= lo
    <3>1. PICK i \in 1 .. Len(times) : times[i] = lo
      BY <2>1, <2>3
    <3> QED
      BY <2>5, <3>1
  <2>10. SpanSound(info, times, e)
    BY <2>1, <2>5, <2>6, <2>8, <2>9 DEF SpanSound
  <2> QED
    BY <2>6, <2>7, <2>10 DEF Reply, ReplySound
<1> QED
  BY <1>1, <1>2

\* A replay shows what its request can expect: events of its span, and all of them if its
\* time is the span's end.
LEMMA ReplayShows ==
  ASSUME TypeOK, NEW req \in ReplayReq, RequestSound(req), SpanSound(req.range, journal, era)
  PROVE  ReplayResult(req) \in Reply /\ ReplySound(ReplayResult(req), journal, era)
<1> DEFINE res == ReplayResult(req)
<1>1. /\ res.type = "replay_result" /\ res.request = req /\ res.era = era
      /\ res.count = Len(journal) /\ res.shown = UpTo(req.target)
  BY DEF ReplayResult
<1>2. /\ Len(journal) \in Nat /\ DOMAIN journal = 1 .. Len(journal) /\ era \in Nat
      /\ \A i \in 1 .. Len(journal) : journal[i] \in Nat
  BY InQueue DEF TypeOK
<1>3. /\ req.target \in Nat /\ req.at \in Nat /\ req.range \in Span
      /\ req.range.count \in Nat /\ req.range.earliest \in Nat /\ req.range.latest \in Nat
  BY DEF ReplayReq, Span
<1>4. \A i \in 1 .. Len(journal) : i \in UpTo(req.target) <=> journal[i] <= req.target
  BY <1>2 DEF UpTo
<1>5. UpTo(req.target) \in SUBSET Nat
  BY <1>2 DEF UpTo
<1>6. res \in Result
  BY <1>2, <1>5 DEF ReplayResult, Result
<1>7. ASSUME era = req.range.era, req.from = "slider"
      PROVE  /\ UpTo(req.target) # {}
             /\ req.at = req.range.latest => 1 .. req.range.count \subseteq UpTo(req.target)
  <2>1. req.target = req.at /\ req.range.earliest <= req.at
    BY <1>7 DEF RequestSound
  <2>2. /\ req.range.count <= Len(journal)
        /\ \A i \in 1 .. req.range.count : journal[i] <= req.range.latest
        /\ \E i \in 1 .. req.range.count : journal[i] <= req.range.earliest
    BY <1>7 DEF SpanSound
  <2>3. \A i \in 1 .. req.range.count : i \in 1 .. Len(journal)
    BY <1>2, <1>3, <2>2
  <2>4. PICK i \in 1 .. req.range.count : journal[i] <= req.range.earliest
    BY <2>2
  <2>5. journal[i] <= req.target
    BY <1>2, <1>3, <2>1, <2>3, <2>4
  <2>6. i \in UpTo(req.target)
    BY <1>4, <2>3, <2>5
  <2> QED
    BY <1>4, <2>1, <2>2, <2>3, <2>6
<1> HIDE DEF res
<1>8. ResultSound(res, journal, era)
  BY <1>1, <1>2, <1>4, <1>7 DEF ResultSound
<1> QED
  BY <1>1, <1>6, <1>8 DEF Reply, ReplySound, res

\* The demo's orders are stamped in the past, but not before the clock's zero.
LEMMA DemoTimes ==
  ASSUME NEW t \in Nat, StartTime <= t
  PROVE  [i \in DOMAIN DemoAges |-> t - DemoAges[i]] \in Seq(Nat)
<1>1. DemoAges \in Seq(0 .. StartTime - 2) /\ StartTime \in Nat
  BY TimeAssumption
<1>2. /\ Len(DemoAges) \in Nat /\ DOMAIN DemoAges = 1 .. Len(DemoAges)
      /\ \A i \in 1 .. Len(DemoAges) : DemoAges[i] \in 0 .. StartTime - 2
  BY <1>1, InQueue
<1>3. \A i \in 1 .. Len(DemoAges) : t - DemoAges[i] \in Nat
  BY <1>1, <1>2
<1>4. [i \in 1 .. Len(DemoAges) |-> t - DemoAges[i]] \in [1 .. Len(DemoAges) -> Nat]
  BY <1>3
<1> QED
  BY <1>2, <1>4, SeqDef

\* What the handler under the lock does to the journal, and what it has to broadcast then.
LEMMA HandleEffect ==
  ASSUME PageInv, NEW p \in Pages, Handle(p)
  PROVE  /\ journal' \in Seq(Nat) /\ era' \in Nat /\ Grown(journal, era, journal', era')
         /\ \/ pending' = pending
            \/ \E reply \in Reply : /\ pending' = [pending EXCEPT ![p] = <<reply>>]
                                    /\ ReplySound(reply, journal', era')
<1> USE DEF PageInv
<1> DEFINE msg == Head(sent[p])
<1>1. /\ journal' = CASE msg.type \in EventCommands -> Append(journal, now)
                      [] msg.type = "seed_demo" ->
                           journal \o [i \in DOMAIN DemoAges |-> now - DemoAges[i]]
                      [] msg.type = "reset" -> << >>
                      [] OTHER -> journal
      /\ era' = IF msg.type = "reset" THEN era + 1 ELSE era
      /\ pending' = CASE msg.type = "seed_demo" -> [pending EXCEPT ![p] = <<JournalInfo'>>]
                      [] msg.type = "get_state" -> [pending EXCEPT ![p] = <<JournalInfo>>]
                      [] msg.type = "replay" -> [pending EXCEPT ![p] = <<ReplayResult(msg)>>]
                      [] OTHER -> pending
  BY DEF Handle
<1>2. /\ journal \in Seq(Nat) /\ era \in Nat /\ now \in Nat /\ StartTime <= now
      /\ sent[p] \in Seq(Request) /\ sent[p] # << >>
  BY DEF TypeOK, Handle
<1>3. /\ msg \in Request
      /\ msg.type = "replay" => RequestSound(msg) /\ SpanSound(msg.range, journal, era)
  <2>1. msg \in Request /\ msg = sent[p][1] /\ 1 \in 1 .. Len(sent[p])
    BY <1>2, TailOfQueue, InQueue
  <2> QED
    BY <2>1 DEF RequestsSound
<1> HIDE DEF msg
<1>4. /\ msg.type = "replay" => msg \in ReplayReq
      /\ msg.type \in EventCommands => msg.type \notin {"seed_demo", "get_state", "replay", "reset"}
  BY <1>3, CommandsAssumption DEF Request, ReplayReq, EventCommands
<1>5. Len(journal) \in Nat /\ \A i \in 1 .. Len(journal) : journal[i] \in Nat
  BY <1>2, InQueue
<1>6. /\ journal' \in Seq(Nat) /\ era' \in Nat /\ Grown(journal, era, journal', era')
  <2>1. CASE msg.type \in EventCommands
    <3>1. journal' = Append(journal, now) /\ era' = era
      BY <1>1, <1>4, <2>1
    <3>2. /\ journal' \in Seq(Nat) /\ Len(journal') = Len(journal) + 1
          /\ \A i \in 1 .. Len(journal) + 1 :
               journal'[i] = IF i <= Len(journal) THEN journal[i] ELSE now
      BY <1>2, <3>1, AppendToQueue
    <3> QED
      BY <1>2, <1>5, <3>1, <3>2 DEF Grown
  <2>2. CASE msg.type = "seed_demo"
    <3> DEFINE demo == [i \in DOMAIN DemoAges |-> now - DemoAges[i]]
    <3>1. journal' = journal \o demo /\ era' = era
      BY <1>1, <1>4, <2>2
    <3>2. demo \in Seq(Nat)
      BY <1>2, DemoTimes
    <3> HIDE DEF demo
    <3>3. /\ journal' \in Seq(Nat) /\ Len(journal') = Len(journal) + Len(demo) /\ Len(demo) \in Nat
          /\ \A i \in 1 .. Len(journal) + Len(demo) :
               journal'[i] = IF i <= Len(journal) THEN journal[i] ELSE demo[i - Len(journal)]
      BY <1>2, <3>1, <3>2, ConcatProperties, LenProperties
    <3> QED
      BY <1>2, <1>5, <3>1, <3>3 DEF Grown
  <2>3. CASE msg.type = "reset"
    <3>1. journal' = << >> /\ era' = era + 1
      BY <1>1, <1>4, <2>3
    <3> QED
      BY <1>2, <3>1, EmptySeq DEF Grown
  <2>4. CASE msg.type \notin EventCommands \cup {"seed_demo", "reset"}
    <3>1. journal' = journal /\ era' = era
      BY <1>1, <2>4
    <3> QED
      BY <1>2, <1>5, <3>1 DEF Grown
  <2> QED
    BY <2>1, <2>2, <2>3, <2>4
<1>7. JournalInfo' \in Reply /\ ReplySound(JournalInfo', journal', era')
  <2>1. JournalInfo' = IF journal' = << >> THEN [type |-> "journal_info", count |-> 0]
                       ELSE [type |-> "journal_info", earliest |-> Min(ToSet(journal')),
                             latest |-> Max(ToSet(journal')), era |-> era', count |-> Len(journal')]
    BY DEF JournalInfo, Earliest, Latest
  <2> HIDE DEF PageInv
  <2> QED
    BY <1>6, <2>1, SpanTold
<1>8. CASE msg.type = "seed_demo"
  <2>1. pending' = [pending EXCEPT ![p] = <<JournalInfo'>>]
    BY <1>1, <1>4, <1>8
  <2> QED
    BY <1>6, <1>7, <2>1
<1>9. CASE msg.type = "get_state"
  <2>1. /\ pending' = [pending EXCEPT ![p] = <<JournalInfo>>]
        /\ journal' = journal /\ era' = era
    BY <1>1, <1>4, <1>9
  <2>2. JournalInfo' = JournalInfo
    BY <2>1 DEF JournalInfo, Earliest, Latest
  <2> QED
    BY <1>6, <1>7, <2>1, <2>2
<1>10. CASE msg.type = "replay"
  <2>1. /\ pending' = [pending EXCEPT ![p] = <<ReplayResult(msg)>>]
        /\ journal' = journal /\ era' = era
    BY <1>1, <1>4, <1>10
  <2>2. ReplayResult(msg) \in Reply /\ ReplySound(ReplayResult(msg), journal, era)
    BY <1>3, <1>4, <1>10, ReplayShows
  <2> QED
    BY <1>6, <2>1, <2>2
<1>11. CASE msg.type \notin {"seed_demo", "get_state", "replay"}
  <2>1. pending' = pending
    BY <1>1, <1>11
  <2> QED
    BY <1>6, <2>1
<1> QED
  BY <1>8, <1>9, <1>10, <1>11

\* The server handles the next request of a page.
LEMMA HandleStep ==
  ASSUME PageInv, NEW p \in Pages, Handle(p)
  PROVE  PageInv'
<1> USE DEF PageInv
<1>1. /\ UNCHANGED <<now, open, inbox, range, slider, dragged, picker, result>>
      /\ UNCHANGED <<moves, commands, losses>>
      /\ sent' = [sent EXCEPT ![p] = Tail(@)] /\ sent[p] # << >>
  BY DEF Handle, panelVars, boundVars
<1>2. sent[p] \in Seq(Request) /\ sent \in [Pages -> Seq(Request)] /\ pending \in [Pages -> Seq(Reply)]
  BY DEF TypeOK
<1>3. Tail(sent[p]) \in Seq(Request) /\ ToSet(Tail(sent[p])) \subseteq ToSet(sent[p])
  BY <1>1, <1>2, TailOfQueue
<1>4. /\ journal' \in Seq(Nat) /\ era' \in Nat /\ Grown(journal, era, journal', era')
      /\ \/ pending' = pending
         \/ \E reply \in Reply : /\ pending' = [pending EXCEPT ![p] = <<reply>>]
                                 /\ ReplySound(reply, journal', era')
  BY HandleEffect
<1>5. /\ pending' \in [Pages -> Seq(Reply)]
      /\ \A q \in Pages : \A msg \in ToSet(pending'[q]) :
           msg \in ToSet(pending[q]) \/ ReplySound(msg, journal', era')
  <2>1. CASE pending' = pending
    BY <1>2, <2>1
  <2>2. ASSUME NEW reply \in Reply, pending' = [pending EXCEPT ![p] = <<reply>>],
               ReplySound(reply, journal', era')
        PROVE  /\ pending' \in [Pages -> Seq(Reply)]
               /\ \A q \in Pages : \A msg \in ToSet(pending'[q]) :
                    msg \in ToSet(pending[q]) \/ ReplySound(msg, journal', era')
    <3>1. <<reply>> \in Seq(Reply) /\ ToSet(<<reply>>) = {reply}
      BY OneInQueue
    <3>2. pending' \in [Pages -> Seq(Reply)]
      BY <1>2, <2>2, <3>1
    <3>3. ASSUME NEW q \in Pages, NEW msg \in ToSet(pending'[q])
          PROVE  msg \in ToSet(pending[q]) \/ ReplySound(msg, journal', era')
      <4>1. CASE q = p
        <5>1. pending'[q] = <<reply>>
          BY <1>2, <2>2, <4>1
        <5> QED
          BY <2>2, <3>1, <3>3, <5>1
      <4>2. CASE q # p
        <5>1. pending'[q] = pending[q]
          BY <1>2, <2>2, <4>2
        <5> QED
          BY <3>3, <5>1
      <4> QED
        BY <4>1, <4>2
    <3> QED
      BY <3>2, <3>3
  <2> QED
    BY <1>4, <2>1, <2>2
<1>6. sent' \in [Pages -> Seq(Request)]
  BY <1>1, <1>2, <1>3
<1>7. TypeOK'
  BY <1>1, <1>4, <1>5, <1>6 DEF TypeOK
<1>8. ASSUME NEW q \in Pages, NEW req \in ToSet(sent'[q])
      PROVE  req \in ToSet(sent[q])
  <2>1. CASE q = p
    <3>1. sent'[q] = Tail(sent[p])
      BY <1>1, <1>2, <2>1
    <3> QED
      BY <1>3, <1>8, <2>1, <3>1
  <2>2. CASE q # p
    <3>1. sent'[q] = sent[q]
      BY <1>1, <1>2, <2>2
    <3> QED
      BY <1>8, <3>1
  <2> QED
    BY <2>1, <2>2
<1>9. ControlsSound'
  BY <1>1, <1>4, <1>7, ControlsKept
<1>10. RequestsSound'
  BY <1>4, <1>7, <1>8, RequestsKept
<1>11. RepliesSound'
  BY <1>1, <1>4, <1>5, <1>7, RepliesKept
<1> QED
  BY <1>7, <1>9, <1>10, <1>11

\* The reply reaches every page whose socket is open.
LEMMA BroadcastStep ==
  ASSUME PageInv, NEW p \in Pages, Broadcast(p)
  PROVE  PageInv'
<1> USE DEF PageInv
<1>1. /\ UNCHANGED <<now, journal, era, open, sent, range, slider, dragged, picker, result>>
      /\ UNCHANGED <<moves, commands, losses>>
      /\ inbox' = [q \in Pages |-> IF open[q] THEN inbox[q] \o pending[p] ELSE inbox[q]]
      /\ pending' = [pending EXCEPT ![p] = << >>]
  BY DEF Broadcast, engineVars, panelVars, boundVars
<1>2. /\ pending \in [Pages -> Seq(Reply)] /\ inbox \in [Pages -> Seq(Reply)]
      /\ << >> \in Seq(Reply) /\ ToSet(<< >>) = {}
  BY EmptySeq DEF TypeOK, ToSet
<1>3. ASSUME NEW q \in Pages
      PROVE  /\ inbox'[q] \in Seq(Reply)
             /\ ToSet(inbox'[q]) \subseteq ToSet(inbox[q]) \cup ToSet(pending[p])
             /\ ToSet(pending'[q]) \subseteq ToSet(pending[q])
  <2>1. inbox[q] \in Seq(Reply) /\ pending[p] \in Seq(Reply)
    BY <1>2
  <2>2. /\ inbox[q] \o pending[p] \in Seq(Reply)
        /\ ToSet(inbox[q] \o pending[p]) = ToSet(inbox[q]) \cup ToSet(pending[p])
    BY <2>1, JoinedQueues
  <2>3. inbox'[q] = inbox[q] \o pending[p] \/ inbox'[q] = inbox[q]
    BY <1>1
  <2>4. pending'[q] = << >> \/ pending'[q] = pending[q]
    BY <1>1, <1>2
  <2>5. inbox'[q] \in Seq(Reply) /\ ToSet(inbox'[q]) \subseteq ToSet(inbox[q]) \cup ToSet(pending[p])
    <3>1. CASE inbox'[q] = inbox[q] \o pending[p]
      BY <2>2, <3>1
    <3>2. CASE inbox'[q] = inbox[q]
      BY <2>1, <3>2
    <3> QED
      BY <2>3, <3>1, <3>2
  <2>6. ToSet(pending'[q]) \subseteq ToSet(pending[q])
    BY <1>2, <2>4
  <2> QED
    BY <2>5, <2>6
<1>4. inbox' \in [Pages -> Seq(Reply)] /\ pending' \in [Pages -> Seq(Reply)]
  BY <1>1, <1>2, <1>3
<1>5. TypeOK'
  BY <1>1, <1>4 DEF TypeOK
<1>6. Grown(journal, era, journal', era')
  BY <1>1, LenProperties DEF Grown, TypeOK
<1>7. ControlsSound' /\ RequestsSound'
  BY <1>1, <1>5, <1>6, ControlsKept, RequestsKept
<1>8. RepliesSound'
  BY <1>1, <1>3, <1>5, <1>6, RepliesKept
<1> QED
  BY <1>5, <1>7, <1>8

-----------------------------------------------------------------------------
(* Connections, and the page's handler of messages.                        *)

\* What was under way is gone; the panel stays as it is.
LEMMA LoseStep ==
  ASSUME PageInv, NEW p \in Pages, Lose(p)
  PROVE  PageInv'
<1> USE DEF PageInv
<1>1. /\ UNCHANGED <<now, journal, era, pending, range, slider, dragged, picker, result>>
      /\ UNCHANGED <<moves, commands>> /\ losses' = losses + 1
      /\ open' = [open EXCEPT ![p] = FALSE]
      /\ sent' = [sent EXCEPT ![p] = << >>] /\ inbox' = [inbox EXCEPT ![p] = << >>]
  BY DEF Lose, engineVars, panelVars
<1>2. /\ sent \in [Pages -> Seq(Request)] /\ inbox \in [Pages -> Seq(Reply)]
      /\ << >> \in Seq(Request) /\ << >> \in Seq(Reply) /\ ToSet(<< >>) = {}
  BY EmptySeq DEF TypeOK, ToSet
<1>3. TypeOK'
  BY <1>1, <1>2 DEF TypeOK
<1>4. \A q \in Pages : /\ sent'[q] = sent[q] \/ sent'[q] = << >>
                       /\ inbox'[q] = inbox[q] \/ inbox'[q] = << >>
  BY <1>1, <1>2
<1>5. \A q \in Pages : /\ ToSet(sent'[q]) \subseteq ToSet(sent[q])
                       /\ ToSet(inbox'[q]) \subseteq ToSet(inbox[q])
  BY <1>2, <1>4
<1>6. Grown(journal, era, journal', era')
  BY <1>1, LenProperties DEF Grown, TypeOK
<1>7. ControlsSound' /\ RequestsSound'
  BY <1>1, <1>3, <1>5, <1>6, ControlsKept, RequestsKept
<1>8. RepliesSound'
  BY <1>1, <1>3, <1>5, <1>6, RepliesKept
<1> QED
  BY <1>3, <1>7, <1>8

\* A page that is back asks for the state, and for no replay.
LEMMA ReopenStep ==
  ASSUME PageInv, NEW p \in Pages, Reopen(p)
  PROVE  PageInv'
<1> USE DEF PageInv
<1> DEFINE ask == [type |-> "get_state"]
<1>1. /\ UNCHANGED <<now, journal, era, pending, inbox, range, slider, dragged, picker, result>>
      /\ UNCHANGED <<moves, commands, losses>>
      /\ open' = [open EXCEPT ![p] = TRUE] /\ sent' = [sent EXCEPT ![p] = <<ask>>]
  BY DEF Reopen, engineVars, panelVars, boundVars
<1>2. ask \in Request /\ ask.type # "replay"
  BY DEF Request
<1> HIDE DEF ask
<1>3. sent \in [Pages -> Seq(Request)] /\ <<ask>> \in Seq(Request) /\ ToSet(<<ask>>) = {ask}
  BY <1>2, OneInQueue DEF TypeOK
<1>4. TypeOK'
  BY <1>1, <1>3 DEF TypeOK
<1>5. ASSUME NEW q \in Pages, NEW req \in ToSet(sent'[q])
      PROVE  req \in ToSet(sent[q]) \/ req = ask
  <2>1. CASE q = p
    <3>1. sent'[q] = <<ask>>
      BY <1>1, <1>3, <2>1
    <3> QED
      BY <1>3, <1>5, <3>1
  <2>2. CASE q # p
    <3>1. sent'[q] = sent[q]
      BY <1>1, <1>3, <2>2
    <3> QED
      BY <1>5, <3>1
  <2> QED
    BY <2>1, <2>2
<1>6. Grown(journal, era, journal', era')
  BY <1>1, LenProperties DEF Grown, TypeOK
<1>7. ControlsSound' /\ RepliesSound'
  BY <1>1, <1>4, <1>6, ControlsKept, RepliesKept
<1>8. RequestsSound'
  BY <1>2, <1>4, <1>5, <1>6, RequestsKept
<1> QED
  BY <1>4, <1>7, <1>8

\* A span puts slider and picker to its end; a result is shown.
LEMMA OnMessageStep ==
  ASSUME PageInv, NEW p \in Pages, OnMessage(p)
  PROVE  PageInv'
<1> USE DEF PageInv
<1> DEFINE msg == Head(inbox[p])
<1>1. /\ UNCHANGED <<now, journal, era, open, sent, pending, moves, commands, losses>>
      /\ inbox[p] # << >> /\ inbox' = [inbox EXCEPT ![p] = Tail(@)]
      /\ \/ msg.type = "journal_info" /\ msg.count > 0 /\ SetRange(p, msg) /\ UNCHANGED result
         \/ UNCHANGED <<range, slider, dragged, picker, result>>
         \/ /\ msg.type = "replay_result"
            /\ result' = [result EXCEPT ![p] = msg] /\ UNCHANGED <<range, slider, dragged, picker>>
  BY DEF OnMessage, engineVars, boundVars, panelVars
<1>2. /\ inbox \in [Pages -> Seq(Reply)] /\ inbox[p] \in Seq(Reply)
      /\ result \in [Pages -> Result \cup {NoResult}]
  BY DEF TypeOK
<1>3. /\ Tail(inbox[p]) \in Seq(Reply) /\ msg \in Reply /\ msg \in ToSet(inbox[p])
      /\ ToSet(Tail(inbox[p])) \subseteq ToSet(inbox[p])
      /\ msg = inbox[p][1] /\ 1 \in 1 .. Len(inbox[p])
  BY <1>1, <1>2, TailOfQueue, InQueue
<1>4. ReplySound(msg, journal, era)
  BY <1>3 DEF RepliesSound
<1> HIDE DEF msg
<1>5. \A q \in Pages : inbox'[q] = inbox[q] \/ (inbox'[q] = Tail(inbox[p]) /\ q = p)
  BY <1>1, <1>2
<1>6. /\ inbox' \in [Pages -> Seq(Reply)]
      /\ \A q \in Pages : ToSet(inbox'[q]) \subseteq ToSet(inbox[q])
  BY <1>1, <1>2, <1>3, <1>5
<1>7. Grown(journal, era, journal', era')
  BY <1>1, LenProperties DEF Grown, TypeOK
<1>8. CASE msg.type = "journal_info" /\ msg.count > 0 /\ SetRange(p, msg) /\ UNCHANGED result
  <2> DEFINE span == [earliest |-> msg.earliest, latest |-> msg.latest, era |-> msg.era,
                      count |-> msg.count]
             shown == [value |-> ToLocalInputValue(msg.latest), of |-> msg.latest]
  <2>1. /\ UNCHANGED <<dragged, result>> /\ range' = [range EXCEPT ![p] = span]
        /\ slider' = [slider EXCEPT ![p] = msg.latest] /\ picker' = [picker EXCEPT ![p] = shown]
    BY <1>8 DEF SetRange
  <2>2. msg \in Info /\ SpanSound(msg, journal, era)
    BY <1>3, <1>4, <1>8 DEF Reply, NoSpan, Info, Result, ReplySound
  <2>3. /\ msg.earliest \in Nat /\ msg.latest \in Nat /\ msg.earliest <= msg.latest
        /\ span \in Span /\ SpanSound(span, journal, era)
    BY <2>2 DEF Info, Span, SpanSound
  <2>4. shown \in [value : Nat, of : Nat] /\ LagBounded(GetTime(shown.value), shown.of)
    BY <2>3, PickerShows
  <2>5. span.earliest = msg.earliest /\ span.latest = msg.latest
    OBVIOUS
  <2> HIDE DEF span, shown
  <2>6. TypeOK'
    BY <1>1, <1>6, <2>1, <2>3, <2>4 DEF TypeOK
  <2>7. ControlsSound'
    <3> SUFFICES ASSUME NEW q \in Pages
                 PROVE  /\ SpanSound(range'[q], journal, era)
                        /\ range'[q].earliest <= slider'[q] /\ slider'[q] <= range'[q].latest
                        /\ picker'[q] # NoPicker => LagBounded(GetTime(picker'[q].value), picker'[q].of)
      BY <1>1 DEF ControlsSound
    <3>1. CASE q = p
      <4>1. range'[q] = span /\ slider'[q] = msg.latest /\ picker'[q] = shown
        BY <2>1, <3>1 DEF TypeOK
      <4> QED
        BY <2>3, <2>4, <2>5, <4>1
    <3>2. CASE q # p
      <4>1. range'[q] = range[q] /\ slider'[q] = slider[q] /\ picker'[q] = picker[q]
        BY <2>1, <3>2 DEF TypeOK
      <4> QED
        BY <4>1 DEF ControlsSound
    <3> QED
      BY <3>1, <3>2
  <2>8. RequestsSound'
    BY <1>1, <1>7, <2>6, RequestsKept
  <2>9. RepliesSound'
    BY <1>1, <1>6, <1>7, <2>1, <2>6, RepliesKept
  <2> QED
    BY <2>6, <2>7, <2>8, <2>9
<1>9. CASE UNCHANGED <<range, slider, dragged, picker, result>>
  <2>1. TypeOK'
    BY <1>1, <1>6, <1>9 DEF TypeOK
  <2>2. ControlsSound' /\ RequestsSound'
    BY <1>1, <1>7, <1>9, <2>1, ControlsKept, RequestsKept
  <2>3. RepliesSound'
    BY <1>1, <1>6, <1>7, <1>9, <2>1, RepliesKept
  <2> QED
    BY <2>1, <2>2, <2>3
<1>10. CASE /\ msg.type = "replay_result"
            /\ result' = [result EXCEPT ![p] = msg] /\ UNCHANGED <<range, slider, dragged, picker>>
  <2>1. msg \in Result
    BY <1>3, <1>10 DEF Reply, NoSpan, Info, Result
  <2>2. result' \in [Pages -> Result \cup {NoResult}]
    BY <1>2, <1>10, <2>1
  <2>3. TypeOK'
    BY <1>1, <1>6, <1>10, <2>2 DEF TypeOK
  <2>4. ControlsSound' /\ RequestsSound'
    BY <1>1, <1>7, <1>10, <2>3, ControlsKept, RequestsKept
  <2>5. ASSUME NEW q \in Pages
        PROVE  \/ result'[q] = result[q]
               \/ result'[q] \in ToSet(inbox[q]) /\ result'[q].type = "replay_result"
    <3>1. CASE q = p
      <4>1. result'[q] = msg
        BY <1>2, <1>10, <3>1
      <4> QED
        BY <1>3, <1>10, <3>1, <4>1
    <3>2. CASE q # p
      BY <1>2, <1>10, <3>2
    <3> QED
      BY <3>1, <3>2
  <2>6. RepliesSound'
    BY <1>1, <1>6, <1>7, <2>3, <2>5, RepliesKept
  <2> QED
    BY <2>3, <2>4, <2>6
<1> QED
  BY <1>1, <1>8, <1>9, <1>10

\* Time passes.
LEMMA TickStep ==
  ASSUME PageInv, Tick
  PROVE  PageInv'
<1> USE DEF PageInv
<1>1. /\ UNCHANGED <<journal, era, open, sent, pending, inbox, range, slider, dragged, picker, result>>
      /\ UNCHANGED <<moves, commands, losses>> /\ now' = now + 1
  BY DEF Tick, engineVars, netVars, panelVars, boundVars
<1>2. TypeOK'
  BY <1>1, TimeAssumption DEF TypeOK
<1>3. Grown(journal, era, journal', era')
  BY <1>1, LenProperties DEF Grown, TypeOK
<1> QED
  BY <1>1, <1>2, <1>3, ControlsKept, RequestsKept, RepliesKept

-----------------------------------------------------------------------------
(* The theorems.                                                           *)

\* Every page starts by asking for the state, over the slider of index.html.
LEMMA InitStep ==
  ASSUME Init
  PROVE  PageInv
<1> DEFINE ask == [type |-> "get_state"]
<1>1. ask \in Request /\ ask.type # "replay"
  BY DEF Request
<1> HIDE DEF ask
<1>2. /\ <<ask>> \in Seq(Request) /\ Len(<<ask>>) = 1 /\ <<ask>>[1] = ask
      /\ << >> \in Seq(Reply) /\ << >> \in Seq(Nat) /\ Len(<< >>) = 0
  BY <1>1, OneInQueue, EmptySeq
<1>3. sent = [p \in Pages |-> <<ask>>]
  BY DEF Init, ask
<1>4. NoRange \in Span
  BY DEF NoRange, Span
<1>5. TypeOK
  BY <1>2, <1>3, <1>4, TimeAssumption DEF Init, TypeOK
<1>6. SpanSound(NoRange, << >>, 0)
  BY <1>2 DEF NoRange, SpanSound
<1>7. ControlsSound
  BY <1>6 DEF Init, ControlsSound, NoRange
<1>8. RequestsSound
  BY <1>1, <1>2, <1>3 DEF RequestsSound
<1>9. RepliesSound
  BY <1>2 DEF Init, RepliesSound
<1> QED
  BY <1>5, <1>7, <1>8, <1>9 DEF PageInv

\* What a step of anyone's leaves true.
LEMMA NextStep ==
  ASSUME PageInv, [Next]_vars
  PROVE  PageInv'
<1>1. CASE UNCHANGED vars
  <2> USE DEF PageInv
  <2>1. UNCHANGED <<now, journal, era, open, sent, pending, inbox, range, slider, dragged, picker,
                    result, moves, commands, losses>>
    BY <1>1 DEF vars, engineVars, netVars, panelVars, boundVars
  <2>2. TypeOK'
    BY <2>1 DEF TypeOK
  <2>3. Grown(journal, era, journal', era')
    BY <2>1, LenProperties DEF Grown, TypeOK
  <2> QED
    BY <2>1, <2>2, <2>3, ControlsKept, RequestsKept, RepliesKept
<1>2. CASE Tick
  BY <1>2, TickStep
<1>3. ASSUME NEW p \in Pages, \/ Command(p) \/ MoveSlider(p) \/ PickTime(p)
                              \/ ReleaseSlider(p) \/ ReplayPicked(p) \/ ReplayNow(p)
      PROVE  PageInv'
  BY <1>3, CommandStep, MoveSliderStep, PickTimeStep, ReleaseSliderStep, ReplayPickedStep, ReplayNowStep
<1>4. ASSUME NEW p \in Pages,
             Handle(p) \/ Broadcast(p) \/ Lose(p) \/ Reopen(p) \/ OnMessage(p)
      PROVE  PageInv'
  BY <1>4, HandleStep, BroadcastStep, LoseStep, ReopenStep, OnMessageStep
<1> QED
  BY <1>1, <1>2, <1>3, <1>4 DEF Next

\* The panel's inductive invariant: spans, requests and results hold of the journal they
\* were made of, as long as it is not reset.
THEOREM PageInvariant == Spec => []PageInv
<1>1. Init => PageInv
  BY InitStep
<1>2. PageInv /\ [Next]_vars => PageInv'
  BY NextStep
<1> QED
  BY <1>1, <1>2, PTL DEF Spec

\* A replay at the end of the slider shows all events of its span, and one anywhere on the
\* slider shows some, however late the request is handled and whatever was journaled,
\* stamped in the past, or broadcast meanwhile.
THEOREM SliderReachesTheSpan == Spec => []SliderCoversSpan
<1>1. PageInv => SliderCoversSpan
  <2> SUFFICES ASSUME PageInv, NEW p \in Pages, Current(result[p]),
                      result[p].request.from = "slider"
               PROVE  /\ result[p].shown # {}
                      /\ result[p].request.at = result[p].request.range.latest =>
                           1 .. result[p].request.range.count \subseteq result[p].shown
    BY DEF SliderCoversSpan, SliderEndShowsAll, SliderShowsSome
  <2>1. ResultSound(result[p], journal, era)
    BY DEF PageInv, RepliesSound, Current
  <2> QED
    BY <2>1 DEF ResultSound, Current
<1> QED
  BY <1>1, PageInvariant, PTL

\* A replay to the picker's time shows no event after the instant the picker was set to, and
\* leaves out only events of its last second or, when local clocks show that instant's time for
\* the second time, of its last second and hour, wherever in local time the picker is put.
THEOREM PickerLagIsBounded == Spec => []PickerLagBounded
<1>1. PageInv => PickerLagBounded
  <2> SUFFICES ASSUME PageInv, NEW p \in Pages, result[p] # NoResult,
                      result[p].request.from = "picker", result[p].era = era,
                      NEW i \in 1 .. result[p].count
               PROVE  IF i \in result[p].shown
                        THEN journal[i] <= result[p].request.at
                        ELSE journal[i] > result[p].request.at - PickerLag(result[p].request.at)
    BY DEF PickerLagBounded
  <2> DEFINE at  == result[p].request.at
             lag == PickerLag(at)
  <2>1. ResultSound(result[p], journal, era) /\ result[p] \in Result /\ journal \in Seq(Nat)
    BY DEF PageInv, RepliesSound, TypeOK
  <2>2. result[p].request.target \in Nat /\ at \in Nat /\ result[p].count \in Nat
    BY <2>1 DEF Result, ReplayReq
  <2>3. /\ i \in result[p].shown <=> journal[i] <= result[p].request.target
        /\ LagBounded(result[p].request.target, at)
        /\ result[p].count <= Len(journal)
    BY <2>1 DEF ResultSound, RequestSound
  <2>4. journal[i] \in Nat
    BY <2>1, <2>2, <2>3, InQueue
  <2>5. result[p].request.target <= at /\ at < result[p].request.target + lag
    BY <2>3 DEF LagBounded
  <2>6. lag \in Nat
    BY TimeAssumption, DstAssumption DEF PickerLag
  <2> HIDE DEF at, lag
  <2>7. IF i \in result[p].shown THEN journal[i] <= at ELSE journal[i] > at - lag
    BY <2>2, <2>3, <2>4, <2>5, <2>6
  <2> QED
    BY <2>7 DEF at, lag
<1> QED
  BY <1>1, PageInvariant, PTL

=============================================================================
