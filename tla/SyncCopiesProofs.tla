-------------------------- MODULE SyncCopiesProofs --------------------------
(***************************************************************************)
(* The two copies of every variable agree at rest: the invariant about the *)
(* frames on the wire that this rests on, and its proof.                   *)
(***************************************************************************)
EXTENDS SyncProofs

\* No frame after the one at i is about n, on its way to the server or to the device.
LastReport(n, i) ==
    up[i].vars[n] # NoValue /\ \A j \in (i + 1)..Len(up) : up[j].vars[n] = NoValue
LastPayload(n, i) ==
    down[i][n] # NoValue /\ \A j \in (i + 1)..Len(down) : down[j][n] = NoValue

\* What crossed the wire last and what the cloud has are the same, up to conversion.
Agrees(n) ==
    \A f \in Field : agreed[n][f] # NoValue =>
        \/ agreed[n][f] = cloud[n][f]
        \/ /\ cloud[n][f] # NoValue
           /\ agreed[n][f] = Cast[<<decl[n].leaf[f].type, cloud[n][f]>>]

\* The exchange about n that is under way leaves both copies alike once it is over: it
\* goes in one direction, and its last frame has what its sender has.
ExchangeInv(n) ==
    /\ ~(ReportInFlight(n) /\ PayloadInFlight(n))
    /\ \A i \in 1..Len(up) : LastReport(n, i) => up[i].vars[n] = agreed[n]
    /\ \A i \in 1..Len(down) : LastPayload(n, i) /\ down[i][n].kind # "object" =>
          cloud[n][Self] = down[i][n].data
    /\ ~ReportInFlight(n) /\ ~PayloadInFlight(n) => Agrees(n)

\* It is true of every variable that is not recorded as diverged, until the connection
\* is lost; a handshake is no report, and nothing is on a wire that is not there.
Lost == {"dropped", "closed"}
CopiesInv ==
    /\ link \notin Lost => \A n \in Name \ diverged : ExchangeInv(n)
    /\ \A n \in Name, f \in Field : agreed[n][f] # NoValue => value[n][f] # NoValue
    /\ \A i \in 1..Len(up) : up[i].kind = "handshake" =>
          \A n \in Name : up[i].vars[n] = NoValue
    /\ link \in {"none", "connecting"} => down = <<>>

-----------------------------------------------------------------------------
(* Frames that come and go *)

\* A new report is the last one, and a frame without n changes nothing for n.
LEMMA ReportAppended ==
    ASSUME WebSocketTypeOK, NEW n \in Name, NEW frame \in Frame, up' = Append(up, frame)
    PROVE  /\ frame.vars[n] # NoValue =>
                 \A i \in 1..Len(up') : LastReport(n, i)' => up'[i] = frame
           /\ frame.vars[n] # NoValue => ReportInFlight(n)'
           /\ frame.vars[n] = NoValue =>
                 /\ ReportInFlight(n)' <=> ReportInFlight(n)
                 /\ \A i \in 1..Len(up') : LastReport(n, i)' =>
                       i \in 1..Len(up) /\ LastReport(n, i) /\ up'[i] = up[i]
<1>1. /\ Len(up) \in Nat /\ Len(up') = Len(up) + 1 /\ up'[Len(up) + 1] = frame
      /\ \A i \in 1..Len(up) : up'[i] = up[i]
  BY AppendProperties, LenProperties DEF WebSocketTypeOK
<1>2. ASSUME frame.vars[n] # NoValue, NEW i \in 1..Len(up'), LastReport(n, i)'
      PROVE  up'[i] = frame
  <2>1. ~(Len(up) + 1 \in (i + 1)..Len(up'))
    BY <1>1, <1>2 DEF LastReport
  <2> QED
    BY <1>1, <2>1
<1>r. ASSUME frame.vars[n] # NoValue PROVE ReportInFlight(n)'
  <2>1. Len(up) + 1 \in 1..Len(up') /\ up'[Len(up) + 1].vars[n] # NoValue
    BY <1>1, <1>r
  <2> QED
    BY <2>1 DEF ReportInFlight
<1>3. ASSUME frame.vars[n] = NoValue
      PROVE  ReportInFlight(n)' <=> ReportInFlight(n)
  <2>1. ASSUME ReportInFlight(n)' PROVE ReportInFlight(n)
    <3>1. PICK i \in 1..Len(up') : up'[i].vars[n] # NoValue
      BY <2>1 DEF ReportInFlight
    <3> QED
      BY <1>1, <1>3, <3>1 DEF ReportInFlight
  <2>2. ASSUME ReportInFlight(n) PROVE ReportInFlight(n)'
    <3>1. PICK i \in 1..Len(up) : up[i].vars[n] # NoValue
      BY <2>2 DEF ReportInFlight
    <3>2. i \in 1..Len(up') /\ up'[i].vars[n] # NoValue
      BY <1>1, <3>1
    <3> QED
      BY <3>2 DEF ReportInFlight
  <2> QED
    BY <2>1, <2>2
<1>4. ASSUME frame.vars[n] = NoValue, NEW i \in 1..Len(up'), LastReport(n, i)'
      PROVE  i \in 1..Len(up) /\ LastReport(n, i) /\ up'[i] = up[i]
  <2>1. i \in 1..Len(up) /\ up'[i] = up[i]
    BY <1>1, <1>4 DEF LastReport
  <2>2. \A j \in (i + 1)..Len(up) :
           j \in (i + 1)..Len(up') /\ up'[j] = up[j]
    BY <1>1, <2>1
  <2> QED
    BY <1>4, <2>1, <2>2 DEF LastReport
<1> QED
  BY <1>2, <1>r, <1>3, <1>4

\* The same of payloads.
LEMMA PayloadAppended ==
    ASSUME WebSocketTypeOK, NEW n \in Name, NEW p \in Inbound, down' = Append(down, p)
    PROVE  /\ p[n] # NoValue =>
                 \A i \in 1..Len(down') : LastPayload(n, i)' => down'[i] = p
           /\ p[n] # NoValue => PayloadInFlight(n)'
           /\ p[n] = NoValue =>
                 /\ PayloadInFlight(n)' <=> PayloadInFlight(n)
                 /\ \A i \in 1..Len(down') : LastPayload(n, i)' =>
                       i \in 1..Len(down) /\ LastPayload(n, i) /\ down'[i] = down[i]
<1>1. /\ Len(down) \in Nat /\ Len(down') = Len(down) + 1 /\ down'[Len(down) + 1] = p
      /\ \A i \in 1..Len(down) : down'[i] = down[i]
  BY AppendProperties, LenProperties DEF WebSocketTypeOK
<1>2. ASSUME p[n] # NoValue, NEW i \in 1..Len(down'), LastPayload(n, i)'
      PROVE  down'[i] = p
  <2>1. ~(Len(down) + 1 \in (i + 1)..Len(down'))
    BY <1>1, <1>2 DEF LastPayload
  <2> QED
    BY <1>1, <2>1
<1>3. ASSUME p[n] # NoValue PROVE PayloadInFlight(n)'
  <2>1. Len(down) + 1 \in 1..Len(down') /\ down'[Len(down) + 1][n] # NoValue
    BY <1>1, <1>3
  <2> QED
    BY <2>1 DEF PayloadInFlight
<1>4. ASSUME p[n] = NoValue
      PROVE  PayloadInFlight(n)' <=> PayloadInFlight(n)
  <2>1. ASSUME PayloadInFlight(n)' PROVE PayloadInFlight(n)
    <3>1. PICK i \in 1..Len(down') : down'[i][n] # NoValue
      BY <2>1 DEF PayloadInFlight
    <3> QED
      BY <1>1, <1>4, <3>1 DEF PayloadInFlight
  <2>2. ASSUME PayloadInFlight(n) PROVE PayloadInFlight(n)'
    <3>1. PICK i \in 1..Len(down) : down[i][n] # NoValue
      BY <2>2 DEF PayloadInFlight
    <3>2. i \in 1..Len(down') /\ down'[i][n] # NoValue
      BY <1>1, <3>1
    <3> QED
      BY <3>2 DEF PayloadInFlight
  <2> QED
    BY <2>1, <2>2
<1>5. ASSUME p[n] = NoValue, NEW i \in 1..Len(down'), LastPayload(n, i)'
      PROVE  i \in 1..Len(down) /\ LastPayload(n, i) /\ down'[i] = down[i]
  <2>1. i \in 1..Len(down) /\ down'[i] = down[i]
    BY <1>1, <1>5 DEF LastPayload
  <2>2. \A j \in (i + 1)..Len(down) :
           j \in (i + 1)..Len(down') /\ down'[j] = down[j]
    BY <1>1, <2>1
  <2> QED
    BY <1>5, <2>1, <2>2 DEF LastPayload
<1> QED
  BY <1>2, <1>3, <1>4, <1>5

\* The first report is taken off the wire: it was the last one, or another one is.
LEMMA ReportTaken ==
    ASSUME WebSocketTypeOK, NEW n \in Name, up # <<>>, up' = Tail(up)
    PROVE  /\ ReportInFlight(n)' => ReportInFlight(n)
           /\ \A i \in 1..Len(up') : LastReport(n, i)' =>
                 i + 1 \in 1..Len(up) /\ LastReport(n, i + 1) /\ up'[i] = up[i + 1]
           /\ ReportInFlight(n) /\ ~ReportInFlight(n)' =>
                 1 \in 1..Len(up) /\ LastReport(n, 1) /\ Head(up) = up[1]
<1>1. /\ Len(up) \in Nat /\ Len(up) > 0 /\ Len(up') = Len(up) - 1 /\ Head(up) = up[1]
      /\ \A i \in 1..Len(up') : up'[i] = up[i + 1]
  BY HeadTailProperties, LenProperties, EmptySeq DEF WebSocketTypeOK
<1>2. ASSUME ReportInFlight(n)' PROVE ReportInFlight(n)
  <2>1. PICK i \in 1..Len(up') : up'[i].vars[n] # NoValue
    BY <1>2 DEF ReportInFlight
  <2>2. i + 1 \in 1..Len(up) /\ up[i + 1].vars[n] # NoValue
    BY <1>1, <2>1
  <2> QED
    BY <2>2 DEF ReportInFlight
<1>3. ASSUME NEW i \in 1..Len(up'), LastReport(n, i)'
      PROVE  i + 1 \in 1..Len(up) /\ LastReport(n, i + 1) /\ up'[i] = up[i + 1]
  <2>1. i + 1 \in 1..Len(up) /\ up'[i] = up[i + 1]
    BY <1>1
  <2>2. ASSUME NEW j \in (i + 1 + 1)..Len(up) PROVE up[j].vars[n] = NoValue
    <3>1. j - 1 \in (i + 1)..Len(up') /\ j - 1 \in 1..Len(up') /\ (j - 1) + 1 = j
      BY <1>1
    <3>2. up'[j - 1] = up[j]
      BY <1>1, <3>1
    <3> QED
      BY <1>3, <3>1, <3>2 DEF LastReport
  <2> QED
    BY <1>3, <2>1, <2>2 DEF LastReport
<1>4. ASSUME ReportInFlight(n), ~ReportInFlight(n)'
      PROVE  1 \in 1..Len(up) /\ LastReport(n, 1) /\ Head(up) = up[1]
  <2>1. ASSUME NEW j \in 2..Len(up) PROVE up[j].vars[n] = NoValue
    <3>1. j - 1 \in 1..Len(up') /\ (j - 1) + 1 = j
      BY <1>1
    <3>2. up'[j - 1] = up[j]
      BY <1>1, <3>1
    <3> QED
      BY <1>4, <3>1, <3>2 DEF ReportInFlight
  <2>2. PICK i \in 1..Len(up) : up[i].vars[n] # NoValue
    BY <1>4 DEF ReportInFlight
  <2>3. i = 1
    BY <1>1, <2>1, <2>2
  <2> QED
    BY <1>1, <2>1, <2>2, <2>3 DEF LastReport
<1> QED
  BY <1>2, <1>3, <1>4

\* The same of payloads.
LEMMA PayloadTaken ==
    ASSUME WebSocketTypeOK, NEW n \in Name, down # <<>>, down' = Tail(down)
    PROVE  /\ PayloadInFlight(n)' => PayloadInFlight(n)
           /\ \A i \in 1..Len(down') : LastPayload(n, i)' =>
                 i + 1 \in 1..Len(down) /\ LastPayload(n, i + 1) /\ down'[i] = down[i + 1]
           /\ PayloadInFlight(n) /\ ~PayloadInFlight(n)' =>
                 1 \in 1..Len(down) /\ LastPayload(n, 1)
           /\ 1 \in 1..Len(down) /\ Head(down) = down[1]
<1>1. /\ Len(down) \in Nat /\ Len(down) > 0 /\ Len(down') = Len(down) - 1
      /\ Head(down) = down[1]
      /\ \A i \in 1..Len(down') : down'[i] = down[i + 1]
  BY HeadTailProperties, LenProperties, EmptySeq DEF WebSocketTypeOK
<1>2. ASSUME PayloadInFlight(n)' PROVE PayloadInFlight(n)
  <2>1. PICK i \in 1..Len(down') : down'[i][n] # NoValue
    BY <1>2 DEF PayloadInFlight
  <2>2. i + 1 \in 1..Len(down) /\ down[i + 1][n] # NoValue
    BY <1>1, <2>1
  <2> QED
    BY <2>2 DEF PayloadInFlight
<1>3. ASSUME NEW i \in 1..Len(down'), LastPayload(n, i)'
      PROVE  i + 1 \in 1..Len(down) /\ LastPayload(n, i + 1) /\ down'[i] = down[i + 1]
  <2>1. i + 1 \in 1..Len(down) /\ down'[i] = down[i + 1]
    BY <1>1
  <2>2. ASSUME NEW j \in (i + 1 + 1)..Len(down) PROVE down[j][n] = NoValue
    <3>1. j - 1 \in (i + 1)..Len(down') /\ j - 1 \in 1..Len(down') /\ (j - 1) + 1 = j
      BY <1>1
    <3>2. down'[j - 1] = down[j]
      BY <1>1, <3>1
    <3> QED
      BY <1>3, <3>1, <3>2 DEF LastPayload
  <2> QED
    BY <1>3, <2>1, <2>2 DEF LastPayload
<1>4. ASSUME PayloadInFlight(n), ~PayloadInFlight(n)'
      PROVE  1 \in 1..Len(down) /\ LastPayload(n, 1)
  <2>1. ASSUME NEW j \in 2..Len(down) PROVE down[j][n] = NoValue
    <3>1. j - 1 \in 1..Len(down') /\ (j - 1) + 1 = j
      BY <1>1
    <3>2. down'[j - 1] = down[j]
      BY <1>1, <3>1
    <3> QED
      BY <1>4, <3>1, <3>2 DEF PayloadInFlight
  <2>2. PICK i \in 1..Len(down) : down[i][n] # NoValue
    BY <1>4 DEF PayloadInFlight
  <2>3. i = 1
    BY <1>1, <2>1, <2>2
  <2> QED
    BY <1>1, <2>1, <2>2, <2>3 DEF LastPayload
<1> QED
  BY <1>1, <1>2, <1>3, <1>4

-----------------------------------------------------------------------------
(* What the steps do to values, frames and the connection *)

\* A leaf that has a value keeps one.
LEMMA ValuesStay ==
    ASSUME TypeOK, [Next]_vars, NEW n \in Name, NEW f \in Field, value[n][f] # NoValue
    PROVE  value'[n][f] # NoValue
<1>0. StoreTypeOK
  BY DEF TypeOK
<1>1. ASSUME NEW m \in Name, NEW h \in Handle, SetVar(m, h)
      PROVE  value'[n][f] # NoValue
  <2> DEFINE d == decl[m]
             c == Content[h]
  <2>1. d \in Decl /\ c \in ContentType
    BY <1>0, <1>1, StoreAssumption DEF SetVar, StoreTypeOK
  <2>2. PICK out \in SetOutcomes(d, c) :
            value' = [value EXCEPT ![m] = Assign(value[m], c, out.assigned)]
    BY <1>1 DEF SetVar
  <2>3. \A g \in out.assigned : c.leaf[g].data \in Datum
    BY <2>1, SetOutcomesType DEF Given, ContentType
  <2>4. \A g \in out.assigned : c.leaf[g].data # NoValue
    BY <2>3, StoreAssumption
  <2> HIDE DEF d, c
  <2>5. CASE m = n
    <3>1. value'[n] = Assign(value[n], c, out.assigned)
      BY <1>0, <2>2, <2>5 DEF StoreTypeOK
    <3> QED
      BY <2>4, <3>1 DEF Assign
  <2>6. CASE m # n
    BY <1>0, <2>2, <2>6 DEF StoreTypeOK
  <2> QED
    BY <2>5, <2>6
<1>2. ASSUME NEW p \in Inbound, NEW applied \in Applicable(p), ProcessPayload(p, applied)
      PROVE  value'[n][f] # NoValue
  <2>1. CASE value'[n][f] # value[n][f]
    <3>1. value' \in [Name -> VarValue]
      BY StepType DEF TypeOK, StoreTypeOK
    <3>2. n \in applied
      BY <1>2, <2>1 DEF ProcessPayload
    <3>3. n \in Initialized /\ p[n] # NoValue /\ Accepts(n, p[n])
      BY <1>2, <3>2 DEF Applicable
    <3>4. p[n] \in JsonItem
      BY <3>3, CloudServerAssumption DEF InVars
    <3>5. Converted(n, p[n]) \in Datum
      BY <1>0, <3>3, <3>4, ConvertedType DEF StoreTypeOK
    <3>6. value'[n] = [value[n] EXCEPT ![Self] = Converted(n, p[n])]
      BY <1>2, <3>2 DEF ProcessPayload
    <3>7. f = Self /\ value'[n][f] = Converted(n, p[n])
      BY <1>0, <2>1, <3>6 DEF StoreTypeOK, VarValue
    <3> QED
      BY <3>5, <3>7, StoreAssumption
  <2>2. CASE value'[n][f] = value[n][f]
    BY <2>2
  <2> QED
    BY <2>1, <2>2
<1> QED
  BY <1>1, <1>2, ValueSteps

\* What has crossed the wire is stored in a declared leaf.
LEMMA AgreedKnown ==
    ASSUME LeafInv, CopiesInv, NEW n \in Name, NEW f \in Field, agreed[n][f] # NoValue
    PROVE  n \in Initialized /\ decl[n].leaf[f] # NoLeaf
BY DEF LeafInv, CopiesInv

\* A step that touches neither the wire nor what crossed it leaves the exchange alone.
LEMMA ExchangeStays ==
    ASSUME NEW n \in Name, ExchangeInv(n), UNCHANGED <<up, down, cloud>>,
           agreed'[n] = agreed[n],
           \A f \in Field : agreed[n][f] # NoValue => decl'[n] = decl[n]
    PROVE  ExchangeInv(n)'
BY DEF ExchangeInv, LastReport, LastPayload, ReportInFlight, PayloadInFlight, Agrees

\* A connection that is not lost now was not lost before.
LEMMA LinkLives ==
    ASSUME FlowInv, [Next]_vars, link' \notin Lost
    PROVE  link \notin Lost
<1>1. CASE SyncConnects
  BY <1>1 DEF SyncConnects, SyncNeedsConnection, IsConnected, FlowInv, Lost
<1>2. CASE ~SyncConnects
  BY <1>2 DEF Next, App, SetOpt, SyncConnected, SyncConnectFails, ConnectNoContext,
              ConnectRefused, ServiceReturn, ConnectionCallback, Established,
              ConnectionError, Closed, WriteableCallback, Writeable, ReceiveCallback,
              ReceiveFrame, HandshakeSend, HandshakeWait, PushNothing, PushFails, Push,
              Write, Network, NetDrop, Server, ServerReceive, ServerSend, vars, wsVars, Lost
<1> QED
  BY <1>1, <1>2

\* A frame without n that is appended leaves the exchange about n alone.
LEMMA ExchangePassed ==
    ASSUME TypeOK, LeafInv, CopiesInv, NEW n \in Name, ExchangeInv(n), [Next]_vars,
           NEW frame \in Frame, frame.vars[n] = NoValue,
           up' = up \/ up' = Append(up, frame),
           UNCHANGED <<down, cloud>>, agreed'[n] = agreed[n]
    PROVE  ExchangeInv(n)'
<1>1. \A f \in Field : agreed[n][f] # NoValue => decl'[n] = decl[n]
  BY AgreedKnown, DeclSteps
<1>2. CASE up' = up
  BY <1>1, <1>2, ExchangeStays
<1>3. CASE up' = Append(up, frame)
  <2>1. /\ ReportInFlight(n)' <=> ReportInFlight(n)
        /\ \A i \in 1..Len(up') : LastReport(n, i)' =>
              i \in 1..Len(up) /\ LastReport(n, i) /\ up'[i] = up[i]
    BY <1>3, ReportAppended DEF TypeOK
  <2>2. /\ PayloadInFlight(n)' <=> PayloadInFlight(n)
        /\ \A i : LastPayload(n, i)' <=> LastPayload(n, i)
    BY DEF PayloadInFlight, LastPayload
  <2>3. Agrees(n) => Agrees(n)'
    BY <1>1 DEF Agrees
  <2> QED
    BY <2>1, <2>2, <2>3 DEF ExchangeInv
<1> QED
  BY <1>2, <1>3

-----------------------------------------------------------------------------
(* What the steps do to the exchange about one variable *)

\* A push puts the value it takes as agreed on the wire, to an open connection, or has
\* nothing to say about the variable.
LEMMA PushExchange ==
    ASSUME TypeOK, QueueInv, LeafInv, FlowInv, CopiesInv, [Next]_vars, Push,
           link \notin Lost, NEW n \in Name \ diverged'
    PROVE  ExchangeInv(n)'
<1>0. /\ SendResult = "SUCCESS" /\ UNCHANGED <<cloud, decl, value, down>>
      /\ agreed' = [m \in Name |-> IF m \in dirtyVars THEN value[m] ELSE agreed[m]]
      /\ diverged' = {m \in Name : IF OutboundVars[m] # NoValue
                                   THEN ~IsWs(opts.send) \/ PayloadInFlight(m)
                                   ELSE m \in diverged}
      /\ IF IsWs(opts.send) THEN Write(Outbound) ELSE UNCHANGED wsVars
  BY DEF Push, Write, wsVars
<1>1. Outbound \in Frame /\ Outbound.vars[n] = OutboundVars[n]
  BY OutboundType DEF TypeOK, Outbound
<1>2. up' = up \/ up' = Append(up, Outbound)
  BY <1>0 DEF Write, Transmit, wsVars
<1>3. CASE OutboundVars[n] # NoValue
  <2>1. IsWs(opts.send) /\ ~PayloadInFlight(n)
    BY <1>0, <1>3
  <2>2. CanWrite
    <3>1. ASSUME ~CanWrite PROVE FALSE
      BY <1>0, <2>1, <3>1 DEF SendResult, IsWs, IsHttp
    <3> QED
      BY <3>1
  <2>3. link = "open"
    BY <2>2 DEF CanWrite, FlowInv, TypeOK, WebSocketTypeOK, Link, Lost
  <2>4. up' = Append(up, Outbound)
    BY <1>0, <2>1, <2>2, <2>3 DEF Write, Transmit, CanWrite
  <2>5. agreed'[n] = value[n] /\ OutboundVars[n] = value[n]
    BY <1>0, <1>3 DEF OutboundVars
  <2>6. /\ ReportInFlight(n)'
        /\ \A i \in 1..Len(up') : LastReport(n, i)' => up'[i].vars[n] = agreed'[n]
    BY <1>1, <1>3, <2>4, <2>5, ReportAppended DEF TypeOK
  <2>7. ~PayloadInFlight(n)'
    BY <1>0, <2>1 DEF PayloadInFlight
  <2>8. \A i \in 1..Len(down') : ~LastPayload(n, i)'
    BY <2>7 DEF PayloadInFlight, LastPayload
  <2> QED
    BY <2>6, <2>7, <2>8 DEF ExchangeInv
<1>4. CASE OutboundVars[n] = NoValue
  <2>1. n \notin diverged
    BY <1>0, <1>4
  <2>2. ExchangeInv(n)
    BY <2>1 DEF CopiesInv
  <2>3. agreed'[n] = agreed[n]
    <3>1. CASE n \in dirtyVars
      <4>1. n \in Initialized /\ decl[n] \in Decl /\ ~HasValue(n)
        <5>1. value[n] \in VarValue
          BY DEF TypeOK, StoreTypeOK
        <5> QED
          BY <1>4, <3>1, <5>1, StoreAssumption
             DEF QueueInv, DirtyNamesDeclared, Initialized, TypeOK, StoreTypeOK, OutboundVars
      <4>2. \A f \in Field : value[n][f] = NoValue
        BY <4>1, StoreAssumption DEF HasValue, LeafInv
      <4>3. \A f \in Field : agreed[n][f] = NoValue
        BY <4>2 DEF CopiesInv
      <4>4. value[n] = agreed[n]
        BY <4>2, <4>3 DEF TypeOK, StoreTypeOK, VarValue
      <4> QED
        BY <1>0, <3>1, <4>4
    <3>2. CASE n \notin dirtyVars
      BY <1>0, <3>2
    <3> QED
      BY <3>1, <3>2
  <2> QED
    BY <1>0, <1>1, <1>2, <1>4, <2>2, <2>3, ExchangePassed
<1> QED
  BY <1>3, <1>4

\* A payload that is applied leaves both copies alike, unless another one follows it.
LEMMA ReceiveExchange ==
    ASSUME TypeOK, LeafInv, CopiesInv, [Next]_vars, ReceiveCallback,
           link \notin Lost, NEW n \in Name \ diverged'
    PROVE  ExchangeInv(n)'
<1> DEFINE p == Head(down)
<1>0. /\ down # <<>> /\ down' = Tail(down) /\ UNCHANGED <<up, cloud>>
      /\ WebSocketTypeOK /\ StoreTypeOK
  BY DEF ReceiveCallback, ReceiveFrame, TypeOK
<1>1. PICK applied \in Applicable(p) :
         /\ ProcessPayload(p, applied)
         /\ diverged' = diverged \cup {m \in Name \ applied : p[m] # NoValue}
  BY DEF ReceiveCallback
<1>2. n \notin diverged /\ (p[n] # NoValue => n \in applied)
  BY <1>1
<1>3. ExchangeInv(n)
  BY <1>2 DEF CopiesInv
<1>4. decl' = decl
  BY <1>1 DEF ProcessPayload
<1>5. /\ PayloadInFlight(n)' => PayloadInFlight(n)
      /\ \A i \in 1..Len(down') : LastPayload(n, i)' =>
            i + 1 \in 1..Len(down) /\ LastPayload(n, i + 1) /\ down'[i] = down[i + 1]
      /\ PayloadInFlight(n) /\ ~PayloadInFlight(n)' =>
            1 \in 1..Len(down) /\ LastPayload(n, 1)
      /\ 1 \in 1..Len(down) /\ p = down[1]
  BY <1>0, PayloadTaken
<1>6. /\ ReportInFlight(n)' <=> ReportInFlight(n)
      /\ \A i : LastReport(n, i)' <=> LastReport(n, i)
  BY <1>0 DEF ReportInFlight, LastReport
<1>7. \A i \in 1..Len(down') : LastPayload(n, i)' /\ down'[i][n].kind # "object" =>
          cloud'[n][Self] = down'[i][n].data
  BY <1>0, <1>3, <1>5 DEF ExchangeInv
<1>8. CASE p[n] = NoValue
  <2>1. n \notin applied
    BY <1>1, <1>8 DEF Applicable
  <2>2. agreed'[n] = agreed[n]
    BY <1>1, <2>1 DEF ProcessPayload
  <2>3. PayloadInFlight(n) => PayloadInFlight(n)'
    BY <1>5, <1>8 DEF LastPayload
  <2>4. Agrees(n) => Agrees(n)'
    BY <1>0, <1>4, <2>2 DEF Agrees
  <2> QED
    BY <1>0, <1>3, <1>5, <1>6, <1>7, <2>2, <2>3, <2>4 DEF ExchangeInv
<1>9. CASE p[n] # NoValue
  <2>1. PayloadInFlight(n)
    BY <1>5, <1>9 DEF PayloadInFlight
  <2>2. ~ReportInFlight(n)
    BY <1>3, <2>1 DEF ExchangeInv
  <2>3. n \in Initialized /\ Accepts(n, p[n])
    BY <1>1, <1>2, <1>9 DEF Applicable
  <2>4. decl[n] \in Decl /\ decl[n].kind = "basic" /\ p[n].kind # "object"
    BY <1>0, <2>3 DEF Initialized, StoreTypeOK, Accepts, JsonKindOf
  <2>5. \A i \in 1..Len(up') : ~LastReport(n, i)'
    BY <1>0, <1>6, <2>2 DEF ReportInFlight, LastReport
  <2>6. ASSUME ~PayloadInFlight(n)' PROVE Agrees(n)'
    <3>1. cloud[n][Self] = p[n].data
      BY <1>3, <1>5, <2>1, <2>4, <2>6 DEF ExchangeInv
    <3>2. p \in Inbound
      BY <1>0, HeadTailProperties DEF WebSocketTypeOK
    <3>3. p[n] \in JsonItem
      BY <1>9, <3>2, CloudServerAssumption DEF InVars
    <3>4. cloud[n][Self] # NoValue
      BY <3>1, <3>3, StoreAssumption DEF JsonItem
    <3>5. agreed'[n] = [value[n] EXCEPT ![Self] = Converted(n, p[n])]
      BY <1>1, <1>2, <1>9 DEF ProcessPayload
    <3>6. /\ agreed'[n][Self] = Converted(n, p[n])
          /\ \A f \in Field \ {Self} : agreed'[n][f] = value[n][f]
      BY <1>0, <3>5, StoreAssumption DEF StoreTypeOK, VarValue
    <3>7. \A f \in Field \ {Self} : value[n][f] = NoValue
      BY <2>4, StoreAssumption DEF LeafInv
    <3> QED
      BY <1>0, <1>4, <3>1, <3>4, <3>6, <3>7 DEF Agrees, Converted
  <2> QED
    BY <1>6, <1>7, <2>2, <2>5, <2>6 DEF ExchangeInv
<1> QED
  BY <1>8, <1>9

\* The server reads a report: the last one makes its copy that of the device.
LEMMA ServerReceiveExchange ==
    ASSUME TypeOK, HandshakeInv, CopiesInv, ServerReceive, UNCHANGED <<storeVars>>,
           link \notin Lost, NEW n \in Name \ diverged'
    PROVE  ExchangeInv(n)'
<1> DEFINE frame == Head(up)
<1>0. /\ up # <<>> /\ up' = Tail(up) /\ UNCHANGED <<down, diverged, agreed, decl>>
      /\ WebSocketTypeOK /\ n \notin diverged
  BY DEF ServerReceive, TypeOK, storeVars
<1>1. ExchangeInv(n)
  BY <1>0 DEF CopiesInv
<1>2. /\ ReportInFlight(n)' => ReportInFlight(n)
      /\ \A i \in 1..Len(up') : LastReport(n, i)' =>
            i + 1 \in 1..Len(up) /\ LastReport(n, i + 1) /\ up'[i] = up[i + 1]
      /\ ReportInFlight(n) /\ ~ReportInFlight(n)' =>
            1 \in 1..Len(up) /\ LastReport(n, 1) /\ frame = up[1]
  BY <1>0, ReportTaken
<1>3. /\ PayloadInFlight(n)' <=> PayloadInFlight(n)
      /\ \A i : LastPayload(n, i)' <=> LastPayload(n, i)
  BY <1>0 DEF PayloadInFlight, LastPayload
<1>4. 1 \in 1..Len(up) /\ frame = up[1]
  BY <1>0, HeadTailProperties, LenProperties, EmptySeq DEF WebSocketTypeOK
<1>5. frame.vars[n] = NoValue => cloud'[n] = cloud[n]
  BY DEF ServerReceive, TypeOK, ServerTypeOK
<1>6. frame.vars[n] # NoValue => cloud'[n] = Reported(n, frame.vars[n])
  <2> SUFFICES ASSUME frame.vars[n] # NoValue PROVE cloud'[n] = Reported(n, frame.vars[n])
    OBVIOUS
  <2>1. frame.kind # "handshake"
    BY <1>4 DEF CopiesInv
  <2>2. frame.kind = "vars"
    BY <2>1 DEF ServerReceive
  <2>3. shaken
    BY <1>4, <2>2 DEF HandshakeInv, HandshakeFirst
  <2> QED
    BY <2>2, <2>3 DEF ServerReceive
<1>7. \A i \in 1..Len(up') : LastReport(n, i)' => up'[i].vars[n] = agreed'[n]
  BY <1>0, <1>1, <1>2 DEF ExchangeInv
<1>8. \A i \in 1..Len(down') : LastPayload(n, i)' /\ down'[i][n].kind # "object" =>
          cloud'[n][Self] = down'[i][n].data
  <2> SUFFICES ASSUME NEW i \in 1..Len(down'), LastPayload(n, i)', down'[i][n].kind # "object"
               PROVE  cloud'[n][Self] = down'[i][n].data
    OBVIOUS
  <2>1. PayloadInFlight(n) /\ i \in 1..Len(down) /\ LastPayload(n, i) /\ down'[i] = down[i]
    BY <1>0, <1>3 DEF PayloadInFlight, LastPayload
  <2>2. ~ReportInFlight(n)
    BY <1>1, <2>1 DEF ExchangeInv
  <2>3. frame.vars[n] = NoValue
    BY <1>4, <2>2 DEF ReportInFlight
  <2> QED
    BY <1>1, <1>5, <2>1, <2>3 DEF ExchangeInv
<1>9. ASSUME ~ReportInFlight(n)', ~PayloadInFlight(n)' PROVE Agrees(n)'
  <2>1. CASE frame.vars[n] = NoValue
    <3>1. ~ReportInFlight(n)
      BY <1>2, <1>9, <2>1 DEF LastReport
    <3>2. Agrees(n)
      BY <1>1, <1>3, <1>9, <3>1 DEF ExchangeInv
    <3> QED
      BY <1>0, <1>5, <2>1, <3>2 DEF Agrees
  <2>2. CASE frame.vars[n] # NoValue
    <3>1. ReportInFlight(n)
      BY <1>4, <2>2 DEF ReportInFlight
    <3>2. frame.vars[n] = agreed[n]
      BY <1>1, <1>2, <1>9, <3>1 DEF ExchangeInv
    <3>3. \A f \in Field : agreed[n][f] # NoValue => cloud'[n][f] = agreed[n][f]
      BY <1>6, <2>2, <3>2 DEF Reported
    <3> QED
      BY <1>0, <3>3 DEF Agrees
  <2> QED
    BY <2>1, <2>2
<1> QED
  BY <1>1, <1>2, <1>3, <1>7, <1>8, <1>9 DEF ExchangeInv

\* The server sends a payload: it is the last one, and has what the server has.
LEMMA ServerSendExchange ==
    ASSUME TypeOK, CopiesInv, NEW p \in Inbound, ServerSend(p), UNCHANGED <<storeVars>>,
           link \notin Lost, NEW n \in Name \ diverged'
    PROVE  ExchangeInv(n)'
<1>0. /\ down' = Append(down, p) /\ UNCHANGED <<up, agreed, decl>>
      /\ cloud' = [m \in Name |-> IF p[m] # NoValue /\ p[m].kind # "object"
                                  THEN [cloud[m] EXCEPT ![Self] = p[m].data]
                                  ELSE cloud[m]]
      /\ diverged' = {m \in Name : IF p[m] # NoValue THEN ReportInFlight(m)
                                                    ELSE m \in diverged}
      /\ WebSocketTypeOK /\ cloud \in [Name -> VarValue]
  BY DEF ServerSend, TypeOK, ServerTypeOK, storeVars
<1>1. /\ p[n] # NoValue =>
            \A i \in 1..Len(down') : LastPayload(n, i)' => down'[i] = p
      /\ p[n] # NoValue => PayloadInFlight(n)'
      /\ p[n] = NoValue =>
            /\ PayloadInFlight(n)' <=> PayloadInFlight(n)
            /\ \A i \in 1..Len(down') : LastPayload(n, i)' =>
                  i \in 1..Len(down) /\ LastPayload(n, i) /\ down'[i] = down[i]
  BY <1>0, PayloadAppended
<1>2. /\ ReportInFlight(n)' <=> ReportInFlight(n)
      /\ \A i : LastReport(n, i)' <=> LastReport(n, i)
  BY <1>0 DEF ReportInFlight, LastReport
<1>3. CASE p[n] # NoValue
  <2>1. ~ReportInFlight(n)
    BY <1>0, <1>3
  <2>2. \A i \in 1..Len(up') : ~LastReport(n, i)'
    BY <1>0, <1>2, <2>1 DEF ReportInFlight, LastReport
  <2>3. p[n].kind # "object" => cloud'[n][Self] = p[n].data
    BY <1>0, <1>3, StoreAssumption DEF VarValue
  <2> QED
    BY <1>1, <1>2, <1>3, <2>1, <2>2, <2>3 DEF ExchangeInv
<1>4. CASE p[n] = NoValue
  <2>1. ExchangeInv(n) /\ cloud'[n] = cloud[n]
    BY <1>0, <1>4 DEF CopiesInv
  <2>2. Agrees(n) => Agrees(n)'
    BY <1>0, <2>1 DEF Agrees
  <2> QED
    BY <1>0, <1>1, <1>2, <1>4, <2>1, <2>2 DEF ExchangeInv
<1> QED
  BY <1>3, <1>4

-----------------------------------------------------------------------------
(* Every step keeps the invariant *)

\* While the connection lives, every step leaves every exchange that is not recorded
\* as diverged on its way to two copies that agree.
LEMMA StepExchange ==
    ASSUME TypeOK, QueueInv, LeafInv, FlowInv, HandshakeInv, CopiesInv, [Next]_vars,
           link' \notin Lost, NEW n \in Name \ diverged'
    PROVE  ExchangeInv(n)'
<1>0. link \notin Lost
  BY LinkLives
<1>a. ASSUME UNCHANGED <<up, down, cloud, agreed, diverged>> PROVE ExchangeInv(n)'
  <2>1. ExchangeInv(n)
    BY <1>0, <1>a DEF CopiesInv
  <2>2. \A f \in Field : agreed[n][f] # NoValue => decl'[n] = decl[n]
    BY AgreedKnown, DeclSteps
  <2> QED
    BY <1>a, <2>1, <2>2, ExchangeStays
<1>1. CASE App \/ SetOpt \/ UNCHANGED vars
  <2>1. App => agreed' = agreed
    BY DEF App, AppCall, Refuse, InitVar, InitVarAgain, InitVarTuple, SetVar, SetVarUsed,
           SetVarMissing, SetVarInput, OnChange, OnChangeMissing
  <2> QED
    BY <1>1, <1>a, <2>1 DEF App, SetOpt, vars, storeVars, wsVars, serverVars
<1>2. CASE SyncConnected \/ SyncConnects \/ SyncConnectFails \/ ServiceReturn
           \/ HandshakeWait \/ PushNothing \/ PushFails
  BY <1>2, <1>a DEF SyncConnected, SyncConnects, SyncConnectFails, ServiceReturn,
                    HandshakeWait, PushNothing, PushFails, ConnectStarted,
                    ConnectNoContext, ConnectRefused, StoreKept, wsVars, serverVars
<1>3. CASE ConnectionCallback \/ WriteableCallback
  <2>1. ~Closed
    BY <1>0 DEF Closed, Lost
  <2> QED
    BY <1>3, <1>a, <2>1 DEF ConnectionCallback, WriteableCallback, Established,
                            ConnectionError, Writeable, storeVars, serverVars
<1>4. CASE HandshakeSend
  <2>1. up' = up \/ up' = Append(up, Handshake)
    BY <1>4 DEF HandshakeSend, Write, Transmit, wsVars
  <2>2. UNCHANGED <<down, cloud, diverged, agreed>>
    BY <1>4 DEF HandshakeSend, Write, StoreKept, wsVars, serverVars
  <2>3. Handshake.vars[n] = NoValue
    BY DEF Handshake
  <2>4. ExchangeInv(n)
    BY <1>0, <2>2 DEF CopiesInv
  <2> QED
    BY <2>1, <2>2, <2>3, <2>4, HandshakeType, ExchangePassed
<1>5. CASE Push
  BY <1>0, <1>5, PushExchange
<1>6. CASE ReceiveCallback
  BY <1>0, <1>6, ReceiveExchange
<1>7. CASE Server
  BY <1>0, <1>7, ServerReceiveExchange, ServerSendExchange DEF Server
<1>8. CASE Network
  BY <1>8 DEF Network, NetDrop, Lost
<1> QED
  BY <1>1, <1>2, <1>3, <1>4, <1>5, <1>6, <1>7, <1>8 DEF Next

\* What crosses the wire is the value of the device, which keeps having one.
LEMMA StepAgreed ==
    ASSUME TypeOK, CopiesInv, [Next]_vars, NEW n \in Name, NEW f \in Field,
           agreed'[n][f] # NoValue
    PROVE  value'[n][f] # NoValue
<1>a. ASSUME agreed'[n] = agreed[n] PROVE value'[n][f] # NoValue
  BY <1>a, ValuesStay DEF CopiesInv
<1>1. CASE App
  BY <1>1, <1>a DEF App, AppCall, Refuse, InitVar, InitVarAgain, InitVarTuple, SetVar,
                    SetVarUsed, SetVarMissing, SetVarInput, OnChange, OnChangeMissing
<1>2. CASE ReceiveCallback
  <2>1. PICK applied \in Applicable(Head(down)) : ProcessPayload(Head(down), applied)
    BY <1>2 DEF ReceiveCallback
  <2>2. CASE n \in applied
    <3>1. agreed'[n] = value'[n]
      BY <2>1, <2>2 DEF ProcessPayload
    <3> QED
      BY <3>1
  <2>3. CASE n \notin applied
    BY <1>a, <2>1, <2>3 DEF ProcessPayload
  <2> QED
    BY <2>2, <2>3
<1>3. CASE Push
  <2>1. agreed'[n] = agreed[n] \/ agreed'[n] = value'[n]
    BY <1>3 DEF Push
  <2> QED
    BY <1>a, <2>1
<1>4. CASE ~App /\ ~ReceiveCallback /\ ~Push
  BY <1>4, <1>a DEF Next, vars, storeVars, SetOpt, SyncConnected, SyncConnects,
                    SyncConnectFails, ServiceReturn, ConnectionCallback,
                    WriteableCallback, HandshakeSend, HandshakeWait, PushNothing,
                    PushFails, Network, Server, StoreKept
<1> QED
  BY <1>1, <1>2, <1>3, <1>4

\* A frame of the wire was there before, or it is written by this step.
LEMMA FramesFrom ==
    ASSUME TypeOK, [Next]_vars, NEW i \in 1..Len(up')
    PROVE  up'[i] = Handshake \/ up'[i] = Outbound \/ \E j \in 1..Len(up) : up'[i] = up[j]
<1>0. up \in Seq(Frame) /\ Len(up) \in Nat
  BY LenProperties DEF TypeOK, WebSocketTypeOK
<1>a. ASSUME up' = up PROVE \E j \in 1..Len(up) : up'[i] = up[j]
  BY <1>a
<1>b. ASSUME NEW frame \in Frame, Write(frame)
      PROVE  up'[i] = frame \/ \E j \in 1..Len(up) : up'[i] = up[j]
  <2>1. CASE up' = up
    BY <1>a, <2>1
  <2>2. CASE up' = Append(up, frame)
    <3>1. Len(up') = Len(up) + 1 /\ up'[Len(up) + 1] = frame
          /\ \A j \in 1..Len(up) : up'[j] = up[j]
      BY <1>0, <2>2, AppendProperties
    <3> QED
      BY <1>0, <3>1
  <2> QED
    BY <1>b, <2>1, <2>2 DEF Write, Transmit, wsVars
<1>1. CASE HandshakeSend
  BY <1>1, <1>b, HandshakeType DEF HandshakeSend
<1>2. CASE Push
  <2>1. Outbound \in Frame
    BY OutboundType DEF TypeOK
  <2>2. Write(Outbound) \/ up' = up
    BY <1>2 DEF Push, wsVars
  <2> QED
    BY <1>a, <1>b, <2>1, <2>2
<1>3. CASE Network
  <2>1. PICK k \in 0..Len(up) : up' = SubSeq(up, 1, k)
    BY <1>3 DEF Network, NetDrop
  <2>2. Len(up') = k /\ \A j \in 1..k : up'[j] = up[j]
    BY <1>0, <2>1, PrefixProperties
  <2>3. i \in 1..Len(up) /\ up'[i] = up[i]
    BY <1>0, <2>2
  <2> QED
    BY <2>3
<1>4. CASE Server
  <2>1. CASE ServerReceive
    <3>1. up # <<>> /\ up' = Tail(up)
      BY <2>1 DEF ServerReceive
    <3>2. Len(up') = Len(up) - 1 /\ \A j \in 1..Len(up') : up'[j] = up[j + 1]
      BY <1>0, <3>1, HeadTailProperties
    <3>3. i + 1 \in 1..Len(up) /\ up'[i] = up[i + 1]
      BY <1>0, <3>2
    <3> QED
      BY <3>3
  <2>2. CASE \E p \in Inbound : ServerSend(p)
    BY <1>a, <2>2 DEF ServerSend
  <2> QED
    BY <1>4, <2>1, <2>2 DEF Server
<1>5. CASE ~HandshakeSend /\ ~Push /\ ~Network /\ ~Server
  BY <1>5, <1>a DEF Next, vars, wsVars, App, SetOpt, SyncConnected, SyncConnects,
                    SyncConnectFails, ConnectStarted, ConnectNoContext, ConnectRefused,
                    ServiceReturn, ConnectionCallback, Established, ConnectionError,
                    Closed, WriteableCallback, Writeable, ReceiveCallback, ReceiveFrame,
                    HandshakeWait, PushNothing, PushFails
<1> QED
  BY <1>1, <1>2, <1>3, <1>4, <1>5

\* The server sends only to a connection that is up.
LEMMA StepDown ==
    ASSUME TypeOK, FlowInv, CopiesInv, [Next]_vars, link' \in {"none", "connecting"}
    PROVE  down' = <<>>
<1>1. link \in {"none", "connecting"}
  <2>1. CASE SyncConnects
    BY <2>1 DEF SyncConnects, SyncNeedsConnection, IsConnected, FlowInv
  <2>2. CASE ~SyncConnects
    BY <2>2 DEF Next, App, SetOpt, SyncConnected, SyncConnectFails, ConnectNoContext,
                ConnectRefused, ServiceReturn, ConnectionCallback, Established,
                ConnectionError, Closed, WriteableCallback, Writeable, ReceiveCallback,
                ReceiveFrame, HandshakeSend, HandshakeWait, PushNothing, PushFails, Push,
                Write, Network, NetDrop, Server, ServerReceive, ServerSend, vars, wsVars
  <2> QED
    BY <2>1, <2>2
<1>2. down = <<>>
  BY <1>1 DEF CopiesInv
<1>3. down' = down
  BY <1>1, <1>2 DEF Next, App, SetOpt, SyncConnected, SyncConnects, ConnectStarted,
                SyncConnectFails, ConnectNoContext,
                ConnectRefused, ServiceReturn, ConnectionCallback, Established,
                ConnectionError, Closed, WriteableCallback, Writeable, ReceiveCallback,
                ReceiveFrame, HandshakeSend, HandshakeWait, PushNothing, PushFails, Push,
                Write, Network, NetDrop, Server, ServerReceive, ServerSend, vars, wsVars
<1> QED
  BY <1>2, <1>3

\* The invariant about the copies is inductive, given those about the queue, the
\* leaves, the flow of frames and the handshake.
LEMMA StepCopies ==
    TypeOK /\ QueueInv /\ LeafInv /\ FlowInv /\ HandshakeInv /\ CopiesInv /\ [Next]_vars
      => CopiesInv'
<1> SUFFICES ASSUME TypeOK, QueueInv, LeafInv, FlowInv, HandshakeInv, CopiesInv,
                    [Next]_vars
             PROVE  CopiesInv'
  OBVIOUS
<1>1. ASSUME link' \notin Lost, NEW n \in Name \ diverged' PROVE ExchangeInv(n)'
  BY <1>1, StepExchange
<1>2. ASSUME NEW n \in Name, NEW f \in Field, agreed'[n][f] # NoValue
      PROVE  value'[n][f] # NoValue
  BY <1>2, StepAgreed
<1>3. ASSUME NEW i \in 1..Len(up'), up'[i].kind = "handshake", NEW n \in Name
      PROVE  up'[i].vars[n] = NoValue
  <2>1. Handshake.vars[n] = NoValue /\ Outbound.kind = "vars"
    BY DEF Handshake, Outbound
  <2>2. CASE up'[i] = Handshake
    BY <2>1, <2>2
  <2>3. CASE \E j \in 1..Len(up) : up'[i] = up[j]
    BY <1>3, <2>3 DEF CopiesInv
  <2> QED
    BY <1>3, <2>1, <2>2, <2>3, FramesFrom
<1>4. link' \in {"none", "connecting"} => down' = <<>>
  BY StepDown
<1> QED
  BY <1>1, <1>2, <1>3, <1>4 DEF CopiesInv, Lost

\* Both copies start without a value, and the wire empty.
LEMMA InitCopies == Init => CopiesInv
<1> SUFFICES ASSUME Init PROVE CopiesInv
  OBVIOUS
<1>1. /\ up = <<>> /\ down = <<>> /\ Len(up) = 0 /\ Len(down) = 0
      /\ agreed = [n \in Name |-> Unset]
  BY EmptySeq DEF Init, WebSocketInit, StoreInit
<1>2. \A n \in Name : ExchangeInv(n)
  BY <1>1 DEF ExchangeInv, ReportInFlight, PayloadInFlight, Agrees, Unset
<1> QED
  BY <1>1, <1>2 DEF CopiesInv, Unset

-----------------------------------------------------------------------------
(* The theorem *)

\* Whatever reports and payloads cross, get lost with the connection or come in late,
\* the device and the cloud agree on every variable at rest that is not recorded as
\* diverged (_send_payload, _process_payload, st_websocket_write).
THEOREM CopiesCorrect == Spec => []CopiesAgree
<1>1. TypeOK /\ QueueInv /\ CopiesInv => CopiesAgree
  <2> SUFFICES ASSUME TypeOK, QueueInv, CopiesInv, NEW n \in Initialized \ diverged,
                      AtRest(n), NEW f \in Field, value[n][f] # NoValue
               PROVE  \/ value[n][f] = cloud[n][f]
                      \/ /\ cloud[n][f] # NoValue
                         /\ value[n][f] = Cast[<<decl[n].leaf[f].type, cloud[n][f]>>]
    BY DEF CopiesAgree
  <2>1. n \in Name \ diverged
    BY DEF Initialized
  <2>2. ExchangeInv(n)
    BY <2>1 DEF CopiesInv, AtRest, Lost
  <2>3. Agrees(n)
    BY <2>2 DEF ExchangeInv, AtRest
  <2>4. value[n] = agreed[n]
    BY <2>1 DEF QueueInv, UnreportedChangeIsQueued, AtRest
  <2> QED
    BY <2>3, <2>4 DEF Agrees
<1> QED
  BY <1>1, InitType, StepType, InitQueue, StepQueue, InitLeaf, StepLeaf, InitFlow, StepFlow,
     InitHandshake, StepHandshake, InitCopies, StepCopies, PTL
     DEF Spec
=============================================================================
