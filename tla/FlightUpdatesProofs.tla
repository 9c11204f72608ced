------------------------ MODULE FlightUpdatesProofs ------------------------
(***************************************************************************)
(* What holds of FlightUpdates for any flights, gates, times, requests and *)
(* number of concurrent calls.  IInv says what a request knows of its row  *)
(* and that a status it was given is announced or about to be.  Watched    *)
(* says that two flights at one gate are reported, or that a request has   *)
(* still to search or to report; StoryInv, that the status events of a     *)
(* flight whose requests come one at a time chain up to its status.        *)
(***************************************************************************)
EXTENDS FlightUpdates, SequenceTheorems, TLAPS

\* The statuses flight f has had, where R is the history of statuses.
Past(f, R) == R[f] \cup {"scheduled"}

Written(h) == h.pc \in {"status", "gate", "check", "conflicts"}

\* What a running request has read and written, with T the table.
Prepared(h, T, R) ==
  Running(h) =>
    /\ h.flight \in Flights
    /\ h.req \in Requests
    /\ h.before \in Row /\ h.before.status \in Past(h.flight, R)
    /\ T[h.flight] \in Row /\ T[h.flight].status \in Past(h.flight, R)
    /\ Written(h) => /\ h.after \in Row
                     /\ h.req.status # None => h.after.status = h.req.status
                     /\ h.req.gate # None => h.after.gate = h.req.gate
    /\ h.pc = "status" => StatusChanged(h)
    /\ h.pc \in {"gate", "check", "conflicts"} => GateChanged(h)

CallsInv == \A c \in Calls : Prepared(calls[c], flights, reached)

RowsInv == \A f \in Flights : flights[f] # None => flights[f].status \in Past(f, reached)

IInv ==
  /\ TypeOK
  /\ CallsInv
  /\ RowsInv
  /\ EveryStatusAnnounced

----------------------------------------------------------------------------

LEMMA RequestType ==
  ASSUME NEW req \in Requests
  PROVE  /\ req.status = None \/ req.status \in Status
         /\ req.arrived \in Nat \cup {None}
         /\ req.gate = None \/ req.gate \in Gates
BY FlightsAssumption DEF Request

LEMMA NoneIsNothing ==
  /\ None \notin Status /\ None \notin Gates /\ None \notin Nat /\ None \notin Flights
BY FlightsAssumption

\* repo.Update sets the fields of the request and keeps the others.
LEMMA SetRow ==
  ASSUME NEW req \in Requests, NEW row \in Row
  PROVE  /\ Set(req, row) \in Row
         /\ Set(req, row).status = IF req.status = None THEN row.status ELSE req.status
         /\ Set(req, row).gate = IF req.gate = None THEN row.gate ELSE req.gate
         /\ Set(req, row).schedule = row.schedule
BY RequestType DEF Set, Row

LEMMA SetNothing ==
  ASSUME NEW row \in Row
  PROVE  Set(Nothing, row) = row
BY DEF Set, Nothing, Row

LEMMA FreshType ==
  ASSUME NEW pc \in Pc
  PROVE  Fresh(pc) \in Call /\ Fresh(pc).pc = pc
BY DEF Fresh, Call

LEMMA InitInv == Init => IInv
<1> SUFFICES ASSUME Init PROVE IInv
  OBVIOUS
<1> USE DEF Init
<1>1. Fresh("idle") \in Call /\ Fresh("idle").pc = "idle"
  BY FreshType DEF Pc
<1>2. TypeOK
  <2>1. \A f \in Flights : <<>> \in Seq({e \in [old : Status, new : Status] : e.old # e.new})
    BY EmptySeq
  <2>2. 0 \in 0 .. MaxFaults
    BY FlightsAssumption
  <2>3. QED
    BY <1>1, <2>1, <2>2 DEF TypeOK
<1>3. CallsInv
  BY <1>1 DEF CallsInv, Prepared, Running
<1>4. RowsInv /\ EveryStatusAnnounced
  BY DEF RowsInv, EveryStatusAnnounced
<1>5. QED
  BY <1>2, <1>3, <1>4 DEF IInv

----------------------------------------------------------------------------

\* Request c goes on with H and writes nothing; what it would announce stays
\* pending, is announced, or was lost.
LEMMA CallMoves ==
  ASSUME IInv, NEW c \in Calls, NEW H \in Call,
         calls' = [calls EXCEPT ![c] = H],
         flights' = flights, reached' = reached, unchecked' \subseteq Flights,
         overlapped' \subseteq Flights, Prepared(H, flights, reached),
         faults' \in 0 .. MaxFaults, cut' \subseteq Flights, cut \subseteq cut',
         told' \in [Flights -> Seq({e \in [old : Status, new : Status] : e.old # e.new})],
         moved' \subseteq [flight : Flights, old : Gates \cup {None}, new : Gates],
         conflicts' \subseteq [flights : SUBSET Flights, gate : Gates],
         \A f \in Flights : \A i \in DOMAIN told[f] :
           i \in DOMAIN told'[f] /\ told'[f][i] = told[f][i],
         calls[c].pc = "status" /\ calls[c].flight \notin cut' =>
           \E i \in DOMAIN told'[calls[c].flight] :
             told'[calls[c].flight][i].new = calls[c].after.status
  PROVE  IInv'
<1>1. calls \in [Calls -> Call]
  BY DEF IInv, TypeOK
<1>2. \A d \in Calls : calls'[d] = IF d = c THEN H ELSE calls[d]
  BY <1>1
<1>3. TypeOK'
  BY <1>1 DEF IInv, TypeOK
<1>4. CallsInv'
  <2>1. \A d \in Calls : Prepared(calls'[d], flights, reached)
    BY <1>2 DEF IInv, CallsInv
  <2>2. QED
    BY <2>1 DEF CallsInv
<1>5. RowsInv'
  BY DEF IInv, RowsInv, Past
<1>6. EveryStatusAnnounced'
  <2>1. SUFFICES ASSUME NEW f \in Flights \ cut', NEW s \in reached[f] \ {"scheduled"}
                 PROVE  \/ \E i \in DOMAIN told'[f] : told'[f][i].new = s
                        \/ \E d \in Calls : /\ calls'[d].pc = "status"
                                            /\ calls'[d].flight = f
                                            /\ calls'[d].after.status = s
    BY DEF EveryStatusAnnounced
  <2>2. CASE \E i \in DOMAIN told[f] : told[f][i].new = s
    BY <2>2
  <2>3. CASE \E d \in Calls : /\ calls[d].pc = "status" /\ calls[d].flight = f
                              /\ calls[d].after.status = s
    <3>1. PICK d \in Calls : /\ calls[d].pc = "status" /\ calls[d].flight = f
                             /\ calls[d].after.status = s
      BY <2>3
    <3>2. CASE d = c
      BY <2>1, <3>1, <3>2
    <3>3. CASE d # c
      BY <1>2, <3>1, <3>3
    <3>4. QED
      BY <3>2, <3>3
  <2>4. QED
    BY <2>1, <2>2, <2>3 DEF IInv, EveryStatusAnnounced
<1>7. QED
  BY <1>3, <1>4, <1>5, <1>6 DEF IInv

LEMMA CreateFlightInv ==
  ASSUME IInv, NEW f \in Flights, NEW schedule \in Schedules, NEW gate \in Gates \cup {None},
         CreateFlight(f, schedule, gate)
  PROVE  IInv'
<1> DEFINE row == [status |-> "scheduled", arrived |-> None, gate |-> gate,
                   schedule |-> schedule]
<1>1. row \in Row /\ row.status = "scheduled"
  BY DEF Row, Status
<1>2. /\ flights' = [flights EXCEPT ![f] = row] /\ flights[f] = None
      /\ unchecked' \subseteq Flights
      /\ calls' = calls /\ told' = told /\ moved' = moved /\ conflicts' = conflicts
      /\ faults' = faults /\ cut' = cut /\ overlapped' = overlapped /\ reached' = reached
  BY DEF CreateFlight, events, IInv, TypeOK
<1> HIDE DEF row
<1>3. flights \in [Flights -> Row \cup {None}]
  BY DEF IInv, TypeOK
<1>4. TypeOK'
  BY <1>1, <1>2 DEF IInv, TypeOK
<1>6. CallsInv'
  <2>1. ASSUME NEW d \in Calls PROVE Prepared(calls[d], flights', reached)
    <3>1. Prepared(calls[d], flights, reached)
      BY DEF IInv, CallsInv
    <3>2. Running(calls[d]) =>
            /\ flights'[calls[d].flight] \in Row
            /\ flights'[calls[d].flight].status \in Past(calls[d].flight, reached)
      BY <1>1, <1>2, <1>3, <3>1 DEF Prepared, Past
    <3>3. QED
      BY <3>1, <3>2 DEF Prepared
  <2>2. QED
    BY <1>2, <2>1 DEF CallsInv
<1>7. RowsInv'
  BY <1>1, <1>2, <1>3 DEF IInv, RowsInv, Past
<1>8. EveryStatusAnnounced'
  BY <1>2 DEF IInv, EveryStatusAnnounced
<1>9. QED
  BY <1>4, <1>6, <1>7, <1>8 DEF IInv

\* What the invariant says of one request, and of the rest of the state.
LEMMA CallOf ==
  ASSUME IInv, NEW c \in Calls
  PROVE  /\ calls[c] \in Call /\ Prepared(calls[c], flights, reached) /\ calls \in [Calls -> Call]
         /\ flights \in [Flights -> Row \cup {None}]
         /\ faults \in 0 .. MaxFaults /\ cut \subseteq Flights
         /\ overlapped \subseteq Flights /\ unchecked \subseteq Flights
         /\ told \in [Flights -> Seq({e \in [old : Status, new : Status] : e.old # e.new})]
         /\ moved \subseteq [flight : Flights, old : Gates \cup {None}, new : Gates]
         /\ conflicts \subseteq [flights : SUBSET Flights, gate : Gates]
BY DEF IInv, TypeOK, CallsInv

LEMMA BeginInv ==
  ASSUME IInv, NEW c \in Calls, NEW f \in Flights, NEW req \in Requests, Begin(c, f, req)
  PROVE  IInv'
<1> DEFINE F == Fresh("update")
           H == [F EXCEPT !.flight = f, !.req = req, !.before = flights[f]]
<1>1. /\ calls[c].pc = "idle" /\ flights[f] # None /\ calls' = [calls EXCEPT ![c] = H]
      /\ flights' = flights /\ told' = told /\ moved' = moved /\ conflicts' = conflicts
      /\ faults' = faults /\ cut' = cut /\ reached' = reached /\ unchecked' = unchecked
      /\ overlapped' \subseteq Flights
  BY DEF Begin, events, IInv, TypeOK
<1>2. flights[f] \in Row /\ flights[f].status \in Past(f, reached)
  BY <1>1 DEF IInv, TypeOK, RowsInv
<1>3. F \in Call /\ F.pc = "update"
  BY FreshType DEF Pc
<1> HIDE DEF F
<1>4. /\ H \in Call /\ H.pc = "update" /\ H.flight = f /\ H.req = req
      /\ H.before = flights[f]
  BY <1>2, <1>3 DEF Call
<1> HIDE DEF H
<1>5. Prepared(H, flights, reached)
  BY <1>2, <1>4 DEF Prepared, Written
<1>6. \A g \in Flights : \A i \in DOMAIN told[g] :
        i \in DOMAIN told'[g] /\ told'[g][i] = told[g][i]
  BY <1>1
<1>7. QED
  BY <1>1, <1>4, <1>5, <1>6, CallOf, CallMoves

\* What the write of a request leaves of it: the row it wrote and where it goes.
LEMMA WriteCall ==
  ASSUME IInv, NEW c \in Calls, Update(c)
  PROVE  LET h == calls[c]
             f == h.flight
             row == Set(h.req, flights[f])
             H == calls'[c]
         IN  /\ f \in Flights /\ h.req \in Requests /\ flights[f] \in Row
             /\ row \in Row /\ H \in Call /\ calls' = [calls EXCEPT ![c] = H]
             /\ flights' = [flights EXCEPT ![f] = row]
             /\ Running(H) => /\ H.flight = f /\ H.req = h.req /\ H.before = h.before
                              /\ H.after = row
             /\ H.pc = IF StatusChanged(h) THEN "status"
                       ELSE IF GateChanged(h) THEN "gate" ELSE "done"
<1> DEFINE h == calls[c]
           f == h.flight
           row == Set(h.req, flights[f])
           g == [h EXCEPT !.after = row]
           G == IF NextEvent(g) = "done" THEN Fresh("done")
                ELSE [g EXCEPT !.pc = NextEvent(g)]
<1>1. h.pc = "update" /\ flights' = [flights EXCEPT ![f] = row]
      /\ calls' = [calls EXCEPT ![c] = G]
  BY CallOf DEF Update, Write, Commit, Call
<1>2. /\ h \in Call /\ f \in Flights /\ h.req \in Requests /\ flights[f] \in Row
      /\ calls \in [Calls -> Call]
  BY <1>1, CallOf DEF Prepared, Running
<1>3. row \in Row
  BY <1>2, SetRow
<1> HIDE DEF row
<1>4. /\ g \in Call /\ g.flight = f /\ g.req = h.req /\ g.before = h.before
      /\ g.after = row
  BY <1>2, <1>3 DEF Call
<1> HIDE DEF g
<1>5. NextEvent(g) = IF StatusChanged(h) THEN "status"
                     ELSE IF GateChanged(h) THEN "gate" ELSE "done"
  BY <1>4 DEF NextEvent, StatusChanged, GateChanged
<1>6. CASE NextEvent(g) = "done"
  <2>1. Fresh("done") \in Call /\ Fresh("done").pc = "done"
    BY FreshType DEF Pc
  <2>2. calls'[c] = Fresh("done")
    BY <1>1, <1>2, <1>6
  <2>3. QED
    BY <1>1, <1>2, <1>3, <1>5, <1>6, <2>1, <2>2 DEF Running, row
<1>7. CASE NextEvent(g) # "done"
  <2> DEFINE K == [g EXCEPT !.pc = NextEvent(g)]
  <2>1. /\ K \in Call /\ K.pc = NextEvent(g) /\ K.flight = f /\ K.req = h.req
        /\ K.before = h.before /\ K.after = row
    BY <1>4, <1>5 DEF Call, Pc
  <2>2. calls'[c] = K /\ calls' = [calls EXCEPT ![c] = K]
    BY <1>1, <1>2, <1>7
  <2> HIDE DEF K
  <2>3. QED
    BY <1>1, <1>2, <1>3, <1>5, <2>1, <2>2 DEF row
<1>8. QED
  BY <1>6, <1>7

\* The write of request c, which goes on with H; what it does not go on to announce or
\* to search for is cut.
Writes(c, H) ==
  LET h == calls[c]
      f == h.flight
      row == Set(h.req, flights[f])
  IN  /\ h.pc = "update" /\ f \in Flights /\ h.req \in Requests /\ flights[f] \in Row
      /\ row \in Row /\ H \in Call /\ calls' = [calls EXCEPT ![c] = H] /\ Commit(h, row)
      /\ Running(H) => /\ H.flight = f /\ H.req = h.req /\ H.before = h.before
                       /\ H.after = row
      /\ H.pc \in {"status", "gate", "done"}
      /\ H.pc = "status" => StatusChanged(h)
      /\ H.pc = "gate" => GateChanged(h)
      /\ StatusChanged(h) => H.pc = "status" \/ f \in cut'
      /\ GateChanged(h) => H.pc \in {"status", "gate"} \/ f \in cut'
      /\ GateChanged(h) \/ unchecked' = IF BackToWork(f, row) THEN unchecked \cup {f}
                                        ELSE unchecked
      /\ unchecked \ {f} \subseteq unchecked' /\ unchecked' \subseteq unchecked \cup {f}
      /\ overlapped' = overlapped /\ told' = told /\ moved' = moved
      /\ conflicts' = conflicts
      /\ cut \subseteq cut' /\ cut' \subseteq cut \cup {f} /\ faults' \in 0 .. MaxFaults

LEMMA UpdateWrites ==
  ASSUME IInv, NEW c \in Calls, Update(c)
  PROVE  \E H : Writes(c, H)
<1> DEFINE h == calls[c]
           f == h.flight
           row == Set(h.req, flights[f])
<1>1. PICK H \in Call :
        /\ f \in Flights /\ h.req \in Requests /\ flights[f] \in Row
        /\ row \in Row /\ calls' = [calls EXCEPT ![c] = H]
        /\ Running(H) => /\ H.flight = f /\ H.req = h.req /\ H.before = h.before
                         /\ H.after = row
        /\ H.pc = IF StatusChanged(h) THEN "status"
                  ELSE IF GateChanged(h) THEN "gate" ELSE "done"
  BY WriteCall
<1> DEFINE g == [h EXCEPT !.after = row]
<1>2. g.req = h.req /\ g.before = h.before /\ g.flight = f
  BY CallOf DEF Call
<1>3. Commit(g, row) /\ Commit(h, row)
  BY <1>2 DEF Update, Write, Commit
<1>4. GateChanged(g) = GateChanged(h)
  BY <1>2 DEF GateChanged
<1>5. /\ h.pc = "update" /\ told' = told /\ moved' = moved /\ conflicts' = conflicts
      /\ faults' = faults /\ cut' = cut /\ overlapped' = overlapped
      /\ unchecked' = IF GateChanged(h) THEN unchecked \ {f}
                      ELSE IF BackToWork(f, row) THEN unchecked \cup {f} ELSE unchecked
  BY <1>2, <1>4 DEF Update, Write, events
<1>6. faults' \in 0 .. MaxFaults
  BY <1>5 DEF IInv, TypeOK
<1> HIDE DEF h, f, row, g
<1>7. Writes(c, H)
  BY <1>1, <1>3, <1>5, <1>6 DEF Writes, h, f, row
<1>8. QED
  BY <1>7

LEMMA UpdateUnansweredWrites ==
  ASSUME IInv, NEW c \in Calls, UpdateUnanswered(c)
  PROVE  \E H : Writes(c, H)
<1> DEFINE h == calls[c]
           f == h.flight
           row == Set(h.req, flights[f])
<1>1. /\ h.pc = "update" /\ told' = told /\ moved' = moved /\ conflicts' = conflicts
      /\ overlapped' = overlapped /\ Commit(h, row)
      /\ calls' = [calls EXCEPT ![c] = Fresh("done")]
      /\ faults < MaxFaults /\ faults' = faults + 1
      /\ cut' = IF NextEvent(h) = "done" THEN cut ELSE cut \cup {f}
      /\ unchecked' = IF GateChanged(h) \/ BackToWork(f, row) THEN unchecked \cup {f}
                      ELSE unchecked
  BY DEF UpdateUnanswered, events
<1>2. /\ f \in Flights /\ h.req \in Requests /\ flights[f] \in Row /\ row \in Row
  BY <1>1, CallOf, SetRow DEF Prepared, Running
<1>3. Fresh("done") \in Call /\ Fresh("done").pc = "done" /\ ~Running(Fresh("done"))
  BY FreshType DEF Pc, Running
<1>4. StatusChanged(h) \/ GateChanged(h) => f \in cut'
  BY <1>1 DEF NextEvent
<1>5. cut \subseteq cut' /\ cut' \subseteq cut \cup {f}
  BY <1>1
<1>6. faults' \in 0 .. MaxFaults
  BY <1>1, FlightsAssumption DEF IInv, TypeOK
<1>7. /\ GateChanged(h) \/ unchecked' = IF BackToWork(f, row) THEN unchecked \cup {f}
                                        ELSE unchecked
      /\ unchecked \ {f} \subseteq unchecked' /\ unchecked' \subseteq unchecked \cup {f}
  BY <1>1
<1> HIDE DEF h, f, row
<1>8. Writes(c, Fresh("done"))
  BY <1>1, <1>2, <1>3, <1>4, <1>5, <1>6, <1>7 DEF Writes, h, f, row
<1>9. QED
  BY <1>8

LEMMA WritesInv ==
  ASSUME IInv, NEW c \in Calls, NEW H, Writes(c, H)
  PROVE  IInv'
<1> DEFINE h == calls[c]
           f == h.flight
           row == Set(h.req, flights[f])
<1>1. /\ h.pc = "update" /\ told' = told /\ moved' = moved /\ conflicts' = conflicts
      /\ faults' \in 0 .. MaxFaults /\ cut \subseteq cut' /\ cut' \subseteq cut \cup {f}
      /\ overlapped' = overlapped
      /\ reached' = [reached EXCEPT ![f] = IF h.req.status = None THEN @
                                           ELSE @ \cup {h.req.status}]
      /\ unchecked' \subseteq unchecked \cup {f}
  BY DEF Writes, Commit
<1>2. /\ f \in Flights /\ h.req \in Requests /\ flights[f] \in Row
      /\ row \in Row /\ H \in Call /\ calls' = [calls EXCEPT ![c] = H]
      /\ flights' = [flights EXCEPT ![f] = row]
      /\ Running(H) => /\ H.flight = f /\ H.req = h.req /\ H.before = h.before
                       /\ H.after = row
      /\ H.pc \in {"status", "gate", "done"}
      /\ H.pc = "status" => StatusChanged(h)
      /\ H.pc = "gate" => GateChanged(h)
      /\ StatusChanged(h) => H.pc = "status" \/ f \in cut'
  BY DEF Writes, Commit
<1>3. /\ Prepared(h, flights, reached) /\ flights \in [Flights -> Row \cup {None}]
      /\ calls \in [Calls -> Call] /\ Running(h)
      /\ reached \in [Flights -> SUBSET Status]
  BY <1>1, CallOf DEF Running, IInv, TypeOK
<1>4. /\ row.status = IF h.req.status = None THEN flights[f].status ELSE h.req.status
      /\ row.gate = IF h.req.gate = None THEN flights[f].gate ELSE h.req.gate
      /\ h.req.status # None => h.req.status \in Status
  BY <1>2, SetRow, RequestType
<1> HIDE DEF row
<1>5. /\ reached' \in [Flights -> SUBSET Status]
      /\ \A g \in Flights : reached[g] \subseteq reached'[g]
      /\ \A g \in Flights : g # f => reached'[g] = reached[g]
      /\ reached'[f] = reached[f] \cup (IF h.req.status = None THEN {} ELSE {h.req.status})
  BY <1>1, <1>2, <1>3, <1>4
<1>6. /\ flights' \in [Flights -> Row \cup {None}] /\ flights'[f] = row
      /\ \A g \in Flights : g # f => flights'[g] = flights[g]
  BY <1>2, <1>3
<1>7. row.status \in Past(f, reached')
  <2>1. flights[f].status \in Past(f, reached)
    BY <1>3 DEF Prepared
  <2>2. QED
    BY <1>4, <1>5, <2>1 DEF Past
<1>8. TypeOK'
  <2>1. calls' \in [Calls -> Call]
    BY <1>2, <1>3
  <2>2. unchecked' \subseteq Flights
    BY <1>1, <1>2 DEF IInv, TypeOK
  <2>3. QED
    BY <1>1, <1>5, <1>6, <2>1, <2>2 DEF IInv, TypeOK
<1>9. CallsInv'
  <2>1. ASSUME NEW d \in Calls, d # c PROVE Prepared(calls[d], flights', reached')
    <3>1. Prepared(calls[d], flights, reached)
      BY CallOf
    <3>2. SUFFICES ASSUME Running(calls[d])
                   PROVE  Prepared(calls[d], flights', reached')
      BY DEF Prepared
    <3>3. calls[d].flight \in Flights
      BY <3>1, <3>2 DEF Prepared
    <3>4. /\ flights'[calls[d].flight] \in Row
          /\ flights'[calls[d].flight].status \in Past(calls[d].flight, reached')
      BY <1>2, <1>5, <1>6, <1>7, <3>1, <3>2, <3>3 DEF Prepared, Past
    <3>5. calls[d].before.status \in Past(calls[d].flight, reached')
      BY <1>5, <3>1, <3>2, <3>3 DEF Prepared, Past
    <3>6. QED
      BY <3>1, <3>4, <3>5 DEF Prepared
  <2>2. Prepared(H, flights', reached')
    <3>1. SUFFICES ASSUME Running(H) PROVE Prepared(H, flights', reached')
      BY DEF Prepared
    <3>2. h.before \in Row /\ h.before.status \in Past(f, reached')
      BY <1>2, <1>3, <1>5 DEF Prepared, Past
    <3>3. StatusChanged(H) = StatusChanged(h) /\ GateChanged(H) = GateChanged(h)
      BY <1>2, <3>1 DEF StatusChanged, GateChanged
    <3>4. QED
      BY <1>2, <1>4, <1>6, <1>7, <3>1, <3>2, <3>3 DEF Prepared
  <2>3. \A d \in Calls : calls'[d] = IF d = c THEN H ELSE calls[d]
    BY <1>2, <1>3
  <2>4. QED
    BY <2>1, <2>2, <2>3 DEF CallsInv
<1>10. RowsInv'
  BY <1>5, <1>6, <1>7 DEF IInv, RowsInv, Past
<1>11. EveryStatusAnnounced'
  <2>1. SUFFICES ASSUME NEW g \in Flights \ cut', NEW s \in reached'[g] \ {"scheduled"}
                 PROVE  \/ \E i \in DOMAIN told[g] : told[g][i].new = s
                        \/ \E d \in Calls : /\ calls'[d].pc = "status"
                                            /\ calls'[d].flight = g
                                            /\ calls'[d].after.status = s
    BY <1>1 DEF EveryStatusAnnounced
  <2>2. CASE s \in reached[g]
    <3>1. CASE \E d \in Calls : /\ calls[d].pc = "status" /\ calls[d].flight = g
                                /\ calls[d].after.status = s
      <4>1. PICK d \in Calls : /\ calls[d].pc = "status" /\ calls[d].flight = g
                               /\ calls[d].after.status = s
        BY <3>1
      <4>2. d # c
        BY <1>1, <4>1
      <4>3. QED
        BY <1>2, <1>3, <4>1, <4>2
    <3>2. QED
      BY <1>1, <2>1, <2>2, <3>1 DEF IInv, EveryStatusAnnounced
  <2>3. CASE s \notin reached[g]
    <3>1. g = f /\ h.req.status # None /\ s = h.req.status
      BY <1>5, <2>1, <2>3
    <3>2. StatusChanged(h)
      BY <1>3, <2>1, <2>3, <3>1 DEF Prepared, StatusChanged, Past
    <3>3. H.pc = "status" /\ H.flight = f /\ H.after.status = s
      BY <1>2, <1>4, <2>1, <3>1, <3>2 DEF Running
    <3>4. calls'[c] = H
      BY <1>2, <1>3
    <3>5. QED
      BY <3>1, <3>3, <3>4
  <2>4. QED
    BY <2>2, <2>3
<1>12. QED
  BY <1>8, <1>9, <1>10, <1>11 DEF IInv

----------------------------------------------------------------------------

\* A request goes on with the same local variables to pc, or is done.
LEMMA GoesOn ==
  ASSUME IInv, NEW c \in Calls, NEW pc \in {"gate", "check", "done"}, GoOn(c, pc),
         Running(calls[c]), Written(calls[c]), pc # "done" => GateChanged(calls[c])
  PROVE  \E H \in Call : /\ calls' = [calls EXCEPT ![c] = H]
                         /\ H.pc = pc
                         /\ Running(H) => /\ H.flight = calls[c].flight
                                          /\ H.req = calls[c].req
                                          /\ H.before = calls[c].before
                                          /\ H.after = calls[c].after
                         /\ Prepared(H, flights, reached)
<1> DEFINE h == calls[c]
<1>1. /\ h \in Call /\ Prepared(h, flights, reached) /\ calls \in [Calls -> Call]
  BY CallOf
<1>2. CASE pc = "done"
  <2>1. Fresh("done") \in Call /\ Fresh("done").pc = "done"
    BY FreshType DEF Pc
  <2>2. Prepared(Fresh("done"), flights, reached) /\ ~Running(Fresh("done"))
    BY <2>1 DEF Prepared, Running
  <2>3. calls' = [calls EXCEPT ![c] = Fresh("done")]
    BY <1>2 DEF GoOn
  <2>4. QED
    BY <1>2, <2>1, <2>2, <2>3
<1>3. CASE pc # "done"
  <2> DEFINE H == [h EXCEPT !.pc = pc]
  <2>1. /\ H \in Call /\ H.pc = pc /\ H.flight = h.flight /\ H.req = h.req
        /\ H.before = h.before /\ H.after = h.after
    BY <1>1 DEF Call, Pc
  <2>2. calls' = [calls EXCEPT ![c] = H]
    BY <1>1, <1>3 DEF GoOn
  <2> HIDE DEF H
  <2>3. Prepared(H, flights, reached)
    BY <1>1, <1>3, <2>1 DEF Prepared, Written, StatusChanged, GateChanged
  <2>4. QED
    BY <2>1, <2>2, <2>3
<1>4. QED
  BY <1>2, <1>3

LEMMA PublishStatusInv ==
  ASSUME IInv, NEW c \in Calls, PublishStatus(c)
  PROVE  IInv'
<1> DEFINE h == calls[c]
           e == [old |-> h.before.status, new |-> h.after.status]
<1>1. /\ h.pc = "status" /\ GoOn(c, AfterStatus(h))
      /\ flights' = flights /\ overlapped' = overlapped /\ reached' = reached
      /\ unchecked' = unchecked
      /\ \/ /\ told' = [told EXCEPT ![h.flight] = Append(@, e)]
            /\ moved' = moved /\ conflicts' = conflicts /\ faults' = faults /\ cut' = cut
         \/ /\ faults < MaxFaults /\ faults' = faults + 1 /\ cut' = cut \cup {h.flight}
            /\ told' = told /\ moved' = moved /\ conflicts' = conflicts
  BY DEF PublishStatus, PublishStatusOf, Publish, events
<1>2. /\ h \in Call /\ Prepared(h, flights, reached) /\ Running(h) /\ Written(h)
      /\ h.flight \in Flights
  BY <1>1, CallOf DEF Running, Written, Prepared
<1>3. PICK H \in Call : /\ calls' = [calls EXCEPT ![c] = H]
                        /\ Prepared(H, flights, reached)
  <2>1. AfterStatus(h) \in {"gate", "check", "done"}
        /\ (AfterStatus(h) # "done" => GateChanged(h))
    BY DEF AfterStatus
  <2>2. QED
    BY <1>1, <1>2, <2>1, GoesOn
<1>4. e \in {x \in [old : Status, new : Status] : x.old # x.new}
  <2>1. h.before \in Row /\ h.after \in Row /\ h.after.status # h.before.status
    BY <1>1, <1>2 DEF Prepared, Written, StatusChanged
  <2>2. QED
    BY <2>1 DEF Row
<1> HIDE DEF e
<1> DEFINE S == {x \in [old : Status, new : Status] : x.old # x.new}
<1>5. told \in [Flights -> Seq(S)] /\ faults \in 0 .. MaxFaults /\ MaxFaults \in Nat
  BY CallOf, FlightsAssumption
<1> HIDE DEF S
<1>6. CASE /\ told' = [told EXCEPT ![h.flight] = Append(@, e)]
           /\ moved' = moved /\ conflicts' = conflicts /\ faults' = faults /\ cut' = cut
  <2>1. e \in S /\ told[h.flight] \in Seq(S)
    BY <1>2, <1>4, <1>5 DEF S
  <2>2. /\ Append(told[h.flight], e) \in Seq(S)
        /\ Len(Append(told[h.flight], e)) = Len(told[h.flight]) + 1
        /\ \A i \in 1 .. Len(told[h.flight]) :
             Append(told[h.flight], e)[i] = told[h.flight][i]
        /\ Append(told[h.flight], e)[Len(told[h.flight]) + 1] = e
    BY <2>1, AppendProperties
  <2>3. /\ told'[h.flight] = Append(told[h.flight], e)
        /\ \A f \in Flights : f # h.flight => told'[f] = told[f]
        /\ told' \in [Flights -> Seq(S)]
    BY <1>2, <1>5, <1>6, <2>2
  <2>4. \A f \in Flights : \A i \in DOMAIN told[f] :
          i \in DOMAIN told'[f] /\ told'[f][i] = told[f][i]
    BY <2>1, <2>2, <2>3
  <2>5. \E i \in DOMAIN told'[h.flight] : told'[h.flight][i].new = h.after.status
    <3>1. Len(told[h.flight]) + 1 \in DOMAIN told'[h.flight] /\ e.new = h.after.status
      BY <2>1, <2>2, <2>3 DEF e
    <3>2. QED
      BY <2>2, <2>3, <3>1
  <2>6. QED
    <3>1. told' \in [Flights -> Seq({x \in [old : Status, new : Status] : x.old # x.new})]
      <4>1. told' \in [Flights -> Seq(S)]
        BY <2>3
      <4>2. QED
        BY <4>1, Zenon DEF S
    <3>2. /\ faults' \in 0 .. MaxFaults /\ cut' \subseteq Flights /\ cut \subseteq cut'
          /\ moved' \subseteq [flight : Flights, old : Gates \cup {None}, new : Gates]
          /\ conflicts' \subseteq [flights : SUBSET Flights, gate : Gates]
          /\ unchecked' \subseteq Flights /\ overlapped' \subseteq Flights
      BY <1>1, <1>6, CallOf
    <3>3. QED
      BY <1>1, <1>3, <2>4, <2>5, <3>1, <3>2, CallMoves
<1>7. CASE /\ faults < MaxFaults /\ faults' = faults + 1 /\ cut' = cut \cup {h.flight}
           /\ told' = told /\ moved' = moved /\ conflicts' = conflicts
  <2>1. /\ faults' \in 0 .. MaxFaults
        /\ cut' \subseteq Flights /\ cut \subseteq cut' /\ h.flight \in cut'
    BY <1>2, <1>5, <1>7, CallOf
  <2>2. QED
    BY <1>1, <1>3, <1>7, <2>1, CallOf, CallMoves
<1>8. QED
  BY <1>1, <1>6, <1>7

\* A request that is not about to announce a status goes on.
LEMMA QuietMoves ==
  ASSUME IInv, NEW c \in Calls, NEW H \in Call, calls[c].pc # "status",
         calls' = [calls EXCEPT ![c] = H], Prepared(H, flights, reached),
         UNCHANGED <<flights, reached, unchecked, overlapped, told>>,
         \/ UNCHANGED <<faults, cut>>
         \/ faults < MaxFaults /\ faults' = faults + 1 /\ cut' \subseteq Flights /\ cut \subseteq cut',
         moved' \subseteq [flight : Flights, old : Gates \cup {None}, new : Gates],
         conflicts' \subseteq [flights : SUBSET Flights, gate : Gates]
  PROVE  IInv'
<1>1. faults' \in 0 .. MaxFaults /\ cut' \subseteq Flights /\ cut \subseteq cut'
  BY CallOf, FlightsAssumption
<1>2. QED
  BY <1>1, CallOf, CallMoves

\* The gate a request has written.
LEMMA NewGate ==
  ASSUME NEW h, NEW T, NEW R, Prepared(h, T, R), h.pc \in {"gate", "check", "conflicts"}
  PROVE  /\ h.flight \in Flights /\ h.after.gate \in Gates /\ h.after.gate = h.req.gate
         /\ h.before.gate \in Gates \cup {None} /\ h.after \in Row
<1>1. /\ h.flight \in Flights /\ h.req \in Requests /\ h.before \in Row /\ h.after \in Row
      /\ h.req.gate # None /\ h.after.gate = h.req.gate
  BY DEF Prepared, Running, Written, GateChanged
<1>2. QED
  BY <1>1, RequestType DEF Row

LEMMA PublishGateInv ==
  ASSUME IInv, NEW c \in Calls, PublishGate(c)
  PROVE  IInv'
<1> DEFINE h == calls[c]
           e == [flight |-> h.flight, old |-> h.before.gate, new |-> h.after.gate]
<1>1. /\ h.pc = "gate" /\ GoOn(c, "check")
      /\ UNCHANGED <<flights, reached, unchecked, overlapped, told>>
      /\ \/ UNCHANGED <<faults, cut>> /\ moved' = moved \cup {e} /\ conflicts' = conflicts
         \/ /\ faults < MaxFaults /\ faults' = faults + 1 /\ cut' = cut \cup {h.flight}
            /\ moved' = moved /\ conflicts' = conflicts
  BY DEF PublishGate, Publish, events
<1>2. /\ h \in Call /\ Prepared(h, flights, reached) /\ Running(h) /\ Written(h)
      /\ GateChanged(h)
      /\ moved \subseteq [flight : Flights, old : Gates \cup {None}, new : Gates]
      /\ conflicts \subseteq [flights : SUBSET Flights, gate : Gates]
  BY <1>1, CallOf DEF Running, Written, Prepared
<1>3. PICK H \in Call : /\ calls' = [calls EXCEPT ![c] = H]
                        /\ Prepared(H, flights, reached)
  BY <1>1, <1>2, GoesOn
<1>4. e \in [flight : Flights, old : Gates \cup {None}, new : Gates]
  BY <1>1, <1>2, NewGate
<1> HIDE DEF e
<1>5. cut \cup {h.flight} \subseteq Flights
  BY <1>2, CallOf DEF Prepared
<1>6. QED
  BY <1>1, <1>2, <1>3, <1>4, <1>5, QuietMoves

LEMMA CheckInv ==
  ASSUME IInv, NEW c \in Calls, Check(c)
  PROVE  IInv'
<1> DEFINE h == calls[c]
           found == FindConflicting(h.flight, h.after)
<1>1. /\ h.pc = "check"
      /\ calls' = [calls EXCEPT ![c] = IF found = {} THEN Fresh("done")
                                       ELSE [@ EXCEPT !.pc = "conflicts", !.found = found]]
      /\ UNCHANGED <<flights, reached, unchecked, overlapped, told, faults, cut>>
      /\ moved' = moved /\ conflicts' = conflicts
  BY DEF Check, events, history
<1>2. /\ h \in Call /\ Prepared(h, flights, reached) /\ calls \in [Calls -> Call]
      /\ moved \subseteq [flight : Flights, old : Gates \cup {None}, new : Gates]
      /\ conflicts \subseteq [flights : SUBSET Flights, gate : Gates]
  BY CallOf
<1>3. found \in SUBSET Flights
  BY DEF FindConflicting
<1> HIDE DEF found
<1>4. CASE found = {}
  <2>1. Fresh("done") \in Call /\ Fresh("done").pc = "done"
    BY FreshType DEF Pc
  <2>2. Prepared(Fresh("done"), flights, reached)
    BY <2>1 DEF Prepared, Running
  <2>3. calls' = [calls EXCEPT ![c] = Fresh("done")]
    BY <1>1, <1>4
  <2>4. QED
    BY <1>1, <1>2, <2>1, <2>2, <2>3, QuietMoves
<1>5. CASE found # {}
  <2> DEFINE H == [h EXCEPT !.pc = "conflicts", !.found = found]
  <2>1. /\ H \in Call /\ H.pc = "conflicts" /\ H.flight = h.flight /\ H.req = h.req
        /\ H.before = h.before /\ H.after = h.after
    BY <1>2, <1>3 DEF Call, Pc
  <2>2. calls' = [calls EXCEPT ![c] = H]
    BY <1>1, <1>2, <1>5
  <2> HIDE DEF H
  <2>3. Prepared(H, flights, reached)
    BY <1>1, <1>2, <2>1 DEF Prepared, Running, Written, StatusChanged, GateChanged
  <2>4. QED
    BY <1>1, <1>2, <2>1, <2>2, <2>3, QuietMoves
<1>6. QED
  BY <1>4, <1>5

LEMMA PublishConflictInv ==
  ASSUME IInv, NEW c \in Calls, PublishConflict(c)
  PROVE  IInv'
<1> DEFINE h == calls[c]
<1>1. PICK g \in h.found :
        /\ calls' = [calls EXCEPT ![c] = IF h.found = {g} THEN Fresh("done")
                                         ELSE [h EXCEPT !.found = @ \ {g}]]
        /\ \/ /\ UNCHANGED <<faults, cut>> /\ moved' = moved /\ told' = told
              /\ conflicts' = conflicts \cup {[flights |-> {h.flight, g},
                                               gate |-> h.after.gate]}
           \/ /\ faults < MaxFaults /\ faults' = faults + 1 /\ cut' = cut \cup {h.flight}
              /\ moved' = moved /\ conflicts' = conflicts /\ told' = told
  BY DEF PublishConflict, Publish, events
<1>2. h.pc = "conflicts" /\ UNCHANGED <<flights, reached, unchecked, overlapped>>
  BY DEF PublishConflict
<1>3. /\ h \in Call /\ Prepared(h, flights, reached) /\ calls \in [Calls -> Call]
      /\ moved \subseteq [flight : Flights, old : Gates \cup {None}, new : Gates]
      /\ conflicts \subseteq [flights : SUBSET Flights, gate : Gates]
  BY CallOf
<1>4. h.flight \in Flights /\ h.after.gate \in Gates /\ g \in Flights
  BY <1>1, <1>2, <1>3, NewGate DEF Call
<1>5. /\ conflicts' \subseteq [flights : SUBSET Flights, gate : Gates]
      /\ cut \cup {h.flight} \subseteq Flights
  BY <1>1, <1>3, <1>4, CallOf
<1>6. CASE h.found = {g}
  <2>1. Fresh("done") \in Call /\ Fresh("done").pc = "done"
    BY FreshType DEF Pc
  <2>2. Prepared(Fresh("done"), flights, reached)
    BY <2>1 DEF Prepared, Running
  <2>3. calls' = [calls EXCEPT ![c] = Fresh("done")]
    BY <1>1, <1>6
  <2>4. QED
    BY <1>1, <1>2, <1>3, <1>5, <2>1, <2>2, <2>3, QuietMoves
<1>7. CASE h.found # {g}
  <2> DEFINE H == [h EXCEPT !.found = @ \ {g}]
  <2>1. /\ H \in Call /\ H.pc = "conflicts" /\ H.flight = h.flight /\ H.req = h.req
        /\ H.before = h.before /\ H.after = h.after
    BY <1>2, <1>3 DEF Call
  <2>2. calls' = [calls EXCEPT ![c] = H]
    BY <1>1, <1>7
  <2> HIDE DEF H
  <2>3. Prepared(H, flights, reached)
    BY <1>2, <1>3, <2>1 DEF Prepared, Running, Written, StatusChanged, GateChanged
  <2>4. QED
    BY <1>1, <1>2, <1>3, <1>5, <2>1, <2>2, <2>3, QuietMoves
<1>8. QED
  BY <1>6, <1>7

LEMMA LosingType ==
  ASSUME IInv, NEW cs \in SUBSET Calls
  PROVE  Losing(cs) \subseteq Flights
BY CallOf DEF Losing, Prepared

LEMMA DatabaseErrorInv ==
  ASSUME IInv, NEW c \in Calls, DatabaseError(c)
  PROVE  IInv'
<1>1. Fresh("done") \in Call /\ Fresh("done").pc = "done"
  BY FreshType DEF Pc
<1>2. Prepared(Fresh("done"), flights, reached)
  BY <1>1 DEF Prepared, Running
<1>3. calls[c].pc \in {"update", "check"}
      /\ cut' = cut \cup Losing({c}) /\ faults < MaxFaults /\ faults' = faults + 1
      /\ calls' = [calls EXCEPT ![c] = Fresh("done")]
      /\ UNCHANGED <<flights, reached, unchecked, overlapped, told>>
      /\ moved' = moved /\ conflicts' = conflicts
  BY DEF DatabaseError, events
<1>4. cut' \subseteq Flights /\ cut \subseteq cut'
  BY <1>3, CallOf, LosingType
<1>5. QED
  BY <1>1, <1>2, <1>3, <1>4, CallOf, QuietMoves

LEMMA CrashInv ==
  ASSUME IInv, Crash
  PROVE  IInv'
<1>1. Fresh("done") \in Call /\ Fresh("done").pc = "done"
  BY FreshType DEF Pc
<1>2. Prepared(Fresh("done"), flights, reached)
  BY <1>1 DEF Prepared, Running
<1>3. /\ cut' = cut \cup Losing(Calls) /\ faults < MaxFaults /\ faults' = faults + 1
      /\ calls' = [c \in Calls |-> IF Running(calls[c]) THEN Fresh("done") ELSE calls[c]]
      /\ UNCHANGED <<flights, reached, unchecked, overlapped, told, moved, conflicts>>
  BY DEF Crash, events
<1>4. \A c \in Calls : calls[c] \in Call /\ Prepared(calls[c], flights, reached)
  BY CallOf
<1>5. calls' \in [Calls -> Call]
  BY <1>1, <1>3, <1>4
<1>6. CallsInv'
  BY <1>2, <1>3, <1>4 DEF CallsInv
<1>7. TypeOK'
  <2>1. faults' \in 0 .. MaxFaults
    BY <1>3, FlightsAssumption DEF IInv, TypeOK
  <2>2. cut' \subseteq Flights
    BY <1>3, LosingType DEF IInv, TypeOK
  <2>3. QED
    BY <1>3, <1>5, <2>1, <2>2 DEF IInv, TypeOK
<1>8. RowsInv'
  BY <1>3 DEF IInv, RowsInv
<1>9. EveryStatusAnnounced'
  <2>1. \A c \in Calls : calls[c].pc = "status" => calls[c].flight \in cut'
    BY <1>3 DEF Losing, Running
  <2>2. QED
    BY <1>3, <2>1 DEF IInv, EveryStatusAnnounced
<1>10. QED
  BY <1>6, <1>7, <1>8, <1>9 DEF IInv

LEMMA NextInv == IInv /\ [Next]_vars => IInv'
<1> SUFFICES ASSUME IInv, [Next]_vars PROVE IInv'
  OBVIOUS
<1>1. CASE \E f \in Flights, schedule \in Schedules, gate \in Gates \cup {None} :
             CreateFlight(f, schedule, gate)
  BY <1>1, CreateFlightInv
<1>2. CASE \E c \in Calls, f \in Flights, req \in Requests : Begin(c, f, req)
  BY <1>2, BeginInv
<1>3. CASE \E c \in Calls : Handle(c)
  BY <1>3, UpdateWrites, WritesInv, PublishStatusInv, PublishGateInv, CheckInv,
     PublishConflictInv DEF Handle
<1>4. CASE \E c \in Calls : UpdateUnanswered(c) \/ DatabaseError(c)
  BY <1>4, UpdateUnansweredWrites, WritesInv, DatabaseErrorInv
<1>5. CASE Crash
  BY <1>5, CrashInv
<1>6. CASE UNCHANGED vars
  BY <1>6 DEF vars, IInv, TypeOK, CallsInv, RowsInv, EveryStatusAnnounced
<1>7. QED
  BY <1>1, <1>2, <1>3, <1>4, <1>5, <1>6 DEF Next

LEMMA Invariance == Spec => []IInv
BY InitInv, NextInv, PTL DEF Spec

----------------------------------------------------------------------------

\* The one action that changes a row changes it by its request.
LEMMA FieldsStep ==
  ASSUME IInv, [Next]_vars
  PROVE  [\A f \in Flights :
            flights[f] # None =>
              \E req \in {Nothing} \cup {calls[c].req : c \in {d \in Calls :
                             calls[d].pc = "update" /\ calls[d].flight = f}} :
                flights'[f] = Set(req, flights[f])]_vars
<1>1. flights \in [Flights -> Row \cup {None}]
  BY DEF IInv, TypeOK
<1>2. SUFFICES ASSUME Next, NEW f \in Flights, flights[f] # None
               PROVE  \E req \in {Nothing} \cup {calls[c].req : c \in {d \in Calls :
                                   calls[d].pc = "update" /\ calls[d].flight = f}} :
                        flights'[f] = Set(req, flights[f])
  OBVIOUS
<1>3. flights[f] \in Row /\ Set(Nothing, flights[f]) = flights[f]
  BY <1>1, <1>2, SetNothing
<1>4. CASE flights'[f] = flights[f]
  BY <1>3, <1>4
<1>5. CASE \E c \in Calls : Update(c) \/ UpdateUnanswered(c)
  <2>1. PICK c \in Calls : \E H : Writes(c, H)
    BY <1>5, UpdateWrites, UpdateUnansweredWrites
  <2>2. /\ calls[c].pc = "update" /\ calls[c].flight \in Flights
        /\ flights' = [flights EXCEPT ![calls[c].flight] =
                         Set(calls[c].req, flights[calls[c].flight])]
    BY <2>1 DEF Writes, Commit
  <2>3. CASE calls[c].flight = f
    BY <1>1, <2>2, <2>3
  <2>4. CASE calls[c].flight # f
    BY <1>1, <1>4, <2>2, <2>4
  <2>5. QED
    BY <2>3, <2>4
<1>6. CASE \E g \in Flights, schedule \in Schedules, gate \in Gates \cup {None} :
             CreateFlight(g, schedule, gate)
  BY <1>1, <1>2, <1>4, <1>6 DEF CreateFlight
<1>7. CASE flights' = flights
  BY <1>4, <1>7
<1>8. QED
  BY <1>2, <1>5, <1>6, <1>7
     DEF Next, Handle, Begin, PublishStatus, PublishStatusOf, PublishGate, Check,
         PublishConflict, DatabaseError, Crash

\* As long as the updates of a flight come one at a time, a request knows its row.
SerialInv ==
  \A c \in Calls :
    Running(calls[c]) /\ calls[c].flight \notin overlapped =>
      /\ \A d \in Calls : Running(calls[d]) /\ calls[d].flight = calls[c].flight
                          => d = c
      /\ calls[c].pc = "update" => calls[c].before = flights[calls[c].flight]
      /\ Written(calls[c]) => calls[c].after = flights[calls[c].flight]

\* Request h has still to search for conflicts, or to report that with flight g.
Seeks(h, g) ==
  /\ GateChanged(h)
  /\ h.pc \in {"status", "gate", "check", "conflicts"}
  /\ h.pc = "conflicts" => g \in h.found

Pending(f, g) == \E c \in Calls : calls[c].flight = f /\ Seeks(calls[c], g)

AtWork(f) ==
  /\ flights[f] # None
  /\ flights[f].gate # None
  /\ flights[f].status \notin Inactive
  /\ f \notin cut \cup overlapped \cup unchecked

Share(f, g) ==
  /\ f # g /\ AtWork(f) /\ AtWork(g)
  /\ flights[f].gate = flights[g].gate
  /\ Overlap(flights[f], flights[g])

Reported(f, g) == [flights |-> {f, g}, gate |-> flights[f].gate] \in conflicts

\* Two flights that share a gate are reported, or a request of one of them sees to it.
Watched ==
  \A f, g \in Flights :
    Share(f, g) => Reported(f, g) \/ Pending(f, g) \/ Pending(g, f)

LEMMA SeeksMeansRunning ==
  ASSUME NEW h, NEW g, Seeks(h, g)
  PROVE  Running(h) /\ Written(h)
BY DEF Seeks, Running, Written

LEMMA WatchedMeansReported == Watched => GateConflictsReported
<1> SUFFICES ASSUME Watched, NEW f \in Flights, NEW g \in Flights, f # g,
                    AtWork(f), AtWork(g), ~Updating(f), ~Updating(g),
                    flights[f].gate = flights[g].gate,
                    Overlap(flights[f], flights[g])
             PROVE  [flights |-> {f, g}, gate |-> flights[f].gate] \in conflicts
  BY DEF GateConflictsReported, AtWork
<1>1. ~Pending(f, g) /\ ~Pending(g, f)
  BY SeeksMeansRunning DEF Pending, Updating
<1>2. QED
  BY <1>1 DEF Watched, Share, Reported

LEMMA InitWatched == Init => SerialInv /\ Watched
<1> SUFFICES ASSUME Init PROVE SerialInv /\ Watched
  OBVIOUS
<1>1. \A c \in Calls : ~Running(calls[c])
  BY DEF Init, Fresh, Running
<1>2. QED
  BY <1>1 DEF Init, SerialInv, Watched, Share, AtWork

\* Sharing a gate is symmetric, and so is a report.
LEMMA Symmetric ==
  ASSUME NEW f \in Flights, NEW g \in Flights, Share(f, g)
  PROVE  Share(g, f) /\ (Reported(f, g) <=> Reported(g, f))
<1>1. {f, g} = {g, f}
  OBVIOUS
<1>2. QED
  BY <1>1 DEF Share, Overlap, Reported

\* Whether two rows overlap is a matter of their scheduled times.
LEMMA OverlapByTimes ==
  ASSUME NEW r, NEW r2, NEW s, NEW s2, r2.schedule = r.schedule, s2.schedule = s.schedule,
         Overlap(r2, s2)
  PROVE  Overlap(r, s)
<1>1. r.schedule.arrival # None /\ s.schedule.arrival # None
  BY DEF Overlap
<1>2. Begins(r2) = Begins(r) /\ Begins(s2) = Begins(s)
  BY <1>1 DEF Begins, Coalesce
<1>3. Ends(r2) = Ends(r) /\ Ends(s2) = Ends(s)
  BY <1>2 DEF Ends
<1>4. QED
  BY <1>1, <1>2, <1>3 DEF Overlap

\* The query finds every flight that shares the gate of the row it is made for.
LEMMA SharedIsFound ==
  ASSUME IInv, NEW f \in Flights, NEW g \in Flights, Share(f, g)
  PROVE  g \in FindConflicting(f, flights[f])
<1> DEFINE r == flights[f]
           s == flights[g]
<1>1. r \in Row /\ s \in Row /\ g # f /\ s # None /\ s.gate = r.gate
      /\ s.status \notin Inactive
  BY DEF Share, AtWork, IInv, TypeOK
<1>2. /\ r.schedule.arrival # None /\ s.schedule.arrival # None
      /\ Begins(r) < Ends(s) /\ Begins(s) < Ends(r)
  BY DEF Share, Overlap
<1>3. Begins(r) = r.schedule.arrival /\ Begins(s) = s.schedule.arrival
  BY <1>2 DEF Begins, Coalesce
<1>4. Begins(r) \in Nat /\ Ends(s) \in Nat
  <2>1. r.schedule \in Schedules /\ s.schedule \in Schedules
    BY <1>1 DEF Row
  <2>2. /\ r.schedule.arrival \in Nat /\ s.schedule.arrival \in Nat
        /\ s.schedule.departure \in Nat \cup {None}
    BY <1>2, <2>1, FlightsAssumption
  <2>3. QED
    BY <1>3, <2>2 DEF Ends, Coalesce
<1>5. Ends(s) > r.schedule.arrival
  BY <1>2, <1>3, <1>4
<1>6. Meets(r, g)
  BY <1>1, <1>2, <1>3, <1>5 DEF Meets
<1>7. QED
  BY <1>1, <1>6 DEF FindConflicting

\* Nothing is lost where rows stay as they are and each request that seeks a conflict
\* goes on seeking it, has reported it, or has lost the report.
LEMMA WatchedKept ==
  ASSUME Watched, flights' = flights, unchecked' = unchecked,
         overlapped \subseteq overlapped', conflicts \subseteq conflicts',
         cut \subseteq cut',
         ASSUME NEW f \in Flights \ cut', NEW g \in Flights, Share(f, g), Pending(f, g)
         PROVE  Reported(f, g)' \/ Pending(f, g)'
  PROVE  Watched'
<1>1. SUFFICES ASSUME NEW f \in Flights, NEW g \in Flights, Share(f, g)'
               PROVE  Reported(f, g)' \/ Pending(f, g)' \/ Pending(g, f)'
  BY DEF Watched
<1>2. Share(f, g) /\ f \notin cut' /\ g \notin cut'
  BY <1>1 DEF Share, AtWork
<1>3. Share(g, f) /\ (Reported(g, f)' => Reported(f, g)')
  <2>1. {f, g} = {g, f}
    OBVIOUS
  <2>2. QED
    BY <1>2, <2>1, Symmetric DEF Reported, Share
<1>4. CASE Reported(f, g)
  BY <1>4 DEF Reported
<1>5. CASE Pending(f, g)
  BY <1>1, <1>2, <1>5
<1>6. CASE Pending(g, f)
  <2>1. Reported(g, f)' \/ Pending(g, f)'
    BY <1>2, <1>3, <1>6
  <2>2. {f, g} = {g, f} /\ flights'[f].gate = flights'[g].gate
    BY <1>1 DEF Share
  <2>3. QED
    BY <2>1, <2>2 DEF Reported
<1>7. QED
  BY <1>2, <1>4, <1>5, <1>6 DEF Watched

\* A running request goes on with H.
LEMMA OneGoesOn ==
  ASSUME IInv, SerialInv, Watched, NEW c \in Calls, NEW H \in Call,
         calls' = [calls EXCEPT ![c] = H], Running(calls[c]),
         flights' = flights, unchecked' = unchecked, overlapped' = overlapped,
         conflicts \subseteq conflicts', cut \subseteq cut',
         Running(H) => /\ H.flight = calls[c].flight /\ H.after = calls[c].after
                       /\ H.pc # "update" /\ (Written(H) => Written(calls[c])),
         \A g \in Flights :
           calls[c].flight \notin cut' /\ Share(calls[c].flight, g) /\ Seeks(calls[c], g) =>
             \/ [flights |-> {calls[c].flight, g}, gate |-> flights[calls[c].flight].gate]
                  \in conflicts'
             \/ Seeks(H, g)
  PROVE  SerialInv' /\ Watched'
<1>1. \A d \in Calls : calls'[d] = IF d = c THEN H ELSE calls[d]
  BY CallOf
<1>2. SerialInv'
  <2>1. \A d \in Calls : Running(calls'[d]) =>
          Running(calls[d]) /\ calls'[d].flight = calls[d].flight
    BY <1>1
  <2>2. QED
    BY <1>1, <2>1 DEF SerialInv
<1>3. ASSUME NEW f \in Flights \ cut', NEW g \in Flights, Share(f, g), Pending(f, g)
      PROVE  Reported(f, g)' \/ Pending(f, g)'
  <2>1. PICK d \in Calls : calls[d].flight = f /\ Seeks(calls[d], g)
    BY <1>3 DEF Pending
  <2>2. CASE d # c
    BY <1>1, <2>1, <2>2 DEF Pending
  <2>3. CASE d = c
    <3>1. CASE [flights |-> {f, g}, gate |-> flights[f].gate] \in conflicts'
      BY <3>1 DEF Reported
    <3>2. CASE Seeks(H, g)
      <4>1. H.flight = f
        BY <2>1, <2>3, <3>2, SeeksMeansRunning
      <4>2. QED
        BY <1>1, <2>3, <3>2, <4>1 DEF Pending
    <3>3. QED
      BY <1>3, <2>1, <2>3, <3>1, <3>2
  <2>4. QED
    BY <2>2, <2>3
<1>4. Watched'
  BY <1>3, WatchedKept
<1>5. QED
  BY <1>2, <1>4

LEMMA CreateFlightWatched ==
  ASSUME IInv, SerialInv, Watched, NEW e \in Flights, NEW schedule \in Schedules,
         NEW gate \in Gates \cup {None}, CreateFlight(e, schedule, gate)
  PROVE  SerialInv' /\ Watched'
<1>1. /\ flights[e] = None /\ calls' = calls /\ overlapped' = overlapped
      /\ conflicts' = conflicts /\ cut' = cut
      /\ unchecked' = IF gate = None THEN unchecked ELSE unchecked \cup {e}
  BY DEF CreateFlight, events
<1>2. /\ \A f \in Flights : f # e => flights'[f] = flights[f]
      /\ flights'[e].gate = gate
  BY CallOf DEF CreateFlight, IInv, TypeOK
<1>3. \A c \in Calls : Running(calls[c]) => flights'[calls[c].flight] = flights[calls[c].flight]
  <2>1. None \notin Row
    BY FlightsAssumption
  <2>2. \A c \in Calls : Running(calls[c]) =>
          calls[c].flight \in Flights /\ flights[calls[c].flight] \in Row
    BY CallOf DEF Prepared
  <2>3. QED
    BY <1>1, <1>2, <2>1, <2>2
<1>4. SerialInv'
  BY <1>1, <1>3 DEF SerialInv
<1>5. ASSUME NEW f \in Flights, NEW g \in Flights, Share(f, g)'
      PROVE  Reported(f, g)' \/ Pending(f, g)' \/ Pending(g, f)'
  <2>1. f # e /\ g # e
    BY <1>1, <1>2, <1>5 DEF Share, AtWork
  <2>2. flights'[f] = flights[f] /\ flights'[g] = flights[g] /\ unchecked \subseteq unchecked'
    BY <1>1, <1>2, <2>1
  <2>3. Share(f, g)
    BY <1>1, <1>5, <2>2 DEF Share, AtWork
  <2>4. Reported(f, g) \/ Pending(f, g) \/ Pending(g, f)
    BY <1>5, <2>3 DEF Watched
  <2>5. QED
    BY <1>1, <2>2, <2>4 DEF Reported, Pending
<1>6. QED
  BY <1>1, <1>4, <1>5 DEF Watched

LEMMA BeginWatched ==
  ASSUME IInv, SerialInv, Watched, NEW c \in Calls, NEW e \in Flights,
         NEW req \in Requests, Begin(c, e, req)
  PROVE  SerialInv' /\ Watched'
<1>1. /\ calls[c].pc = "idle" /\ flights' = flights /\ conflicts' = conflicts
      /\ cut' = cut /\ unchecked' = unchecked /\ overlapped \subseteq overlapped'
      /\ (\E d \in Calls : Running(calls[d]) /\ calls[d].flight = e) => e \in overlapped'
  BY DEF Begin, events
<1>2. \A d \in Calls : d # c => calls'[d] = calls[d]
  BY CallOf DEF Begin
<1>3. /\ calls'[c].pc = "update" /\ calls'[c].flight = e
      /\ calls'[c].before = flights[e]
  BY CallOf DEF Begin, Fresh
<1>4. SerialInv'
  <2>1. SUFFICES ASSUME NEW d \in Calls, Running(calls'[d]), calls'[d].flight \notin overlapped'
                 PROVE  /\ \A b \in Calls : /\ Running(calls'[b])
                                            /\ calls'[b].flight = calls'[d].flight
                                            => b = d
                        /\ calls'[d].pc = "update" =>
                             calls'[d].before = flights'[calls'[d].flight]
                        /\ Written(calls'[d]) => calls'[d].after = flights'[calls'[d].flight]
    BY DEF SerialInv
  <2>2. CASE d = c
    BY <1>1, <1>2, <1>3, <2>1, <2>2 DEF Written
  <2>3. CASE d # c
    <3>1. calls'[d] = calls[d] /\ calls[d].flight \notin overlapped /\ calls[d].flight # e
      BY <1>1, <1>2, <2>1, <2>3
    <3>2. QED
      BY <1>1, <1>2, <1>3, <2>1, <3>1 DEF SerialInv
  <2>4. QED
    BY <2>2, <2>3
<1>5. \A f, g \in Flights : Pending(f, g) => Pending(f, g)'
  BY <1>1, <1>2, SeeksMeansRunning DEF Pending, Running
<1>6. Watched'
  BY <1>1, <1>5, WatchedKept
<1>7. QED
  BY <1>4, <1>6

\* A request that changes the gate goes on to search, or is cut; one that does not leaves
\* the flight where it was, or brings it back to work unchecked.
LEMMA WritesWatched ==
  ASSUME IInv, SerialInv, Watched, NEW c \in Calls, NEW H, Writes(c, H)
  PROVE  SerialInv' /\ Watched'
<1> DEFINE h == calls[c]
<1>0. PICK e \in Flights : e = h.flight
  BY DEF Writes
<1> DEFINE row == Set(h.req, flights[e])
<1>1. /\ h.pc = "update" /\ conflicts' = conflicts /\ cut \subseteq cut'
      /\ overlapped' = overlapped
  BY DEF Writes
<1>2. /\ h.req \in Requests /\ flights[e] \in Row
      /\ row \in Row /\ H \in Call /\ calls' = [calls EXCEPT ![c] = H]
      /\ flights' = [flights EXCEPT ![e] = row]
      /\ Running(H) => /\ H.flight = e /\ H.req = h.req /\ H.before = h.before
                       /\ H.after = row
      /\ H.pc \in {"status", "gate", "done"}
      /\ GateChanged(h) => H.pc \in {"status", "gate"} \/ e \in cut'
  BY <1>0 DEF Writes, Commit
<1>3. /\ ~GateChanged(h) =>
           unchecked' = IF flights[e].status \in Inactive /\ row.status \notin Inactive
                        THEN unchecked \cup {e} ELSE unchecked
      /\ unchecked \ {e} \subseteq unchecked'
  BY <1>0 DEF Writes, BackToWork
<1>4. /\ row.gate = IF h.req.gate = None THEN flights[e].gate ELSE h.req.gate
      /\ row.schedule = flights[e].schedule
  BY <1>2, SetRow
<1> HIDE DEF row
<1>5. /\ flights'[e] = row /\ \A f \in Flights : f # e => flights'[f] = flights[f]
      /\ calls'[c] = H /\ \A d \in Calls : d # c => calls'[d] = calls[d]
  BY <1>2, CallOf
<1>6. \A f, g \in Flights : Pending(f, g) => Pending(f, g)'
  <2>1. \A g \in Flights : ~Seeks(h, g)
    BY <1>1 DEF Seeks
  <2>2. QED
    BY <1>5, <2>1 DEF Pending
<1>7. Running(h)
  BY <1>1 DEF Running
<1>8. SerialInv'
  <2>1. SUFFICES ASSUME NEW d \in Calls, Running(calls'[d]), calls'[d].flight \notin overlapped
                 PROVE  /\ \A b \in Calls : /\ Running(calls'[b])
                                            /\ calls'[b].flight = calls'[d].flight
                                            => b = d
                        /\ calls'[d].pc = "update" =>
                             calls'[d].before = flights'[calls'[d].flight]
                        /\ Written(calls'[d]) => calls'[d].after = flights'[calls'[d].flight]
    BY <1>1 DEF SerialInv
  <2>2. CASE d = c
    <3>1. calls'[d] = H /\ Running(H) /\ H.flight = e /\ H.after = row /\ H.pc # "update"
      BY <1>2, <1>5, <2>1, <2>2
    <3>2. \A b \in Calls : Running(calls[b]) /\ calls[b].flight = e => b = c
      BY <1>0, <1>7, <2>1, <3>1 DEF SerialInv
    <3>3. QED
      BY <1>5, <2>2, <3>1, <3>2
  <2>3. CASE d # c
    <3>1. calls'[d] = calls[d] /\ Running(calls[d]) /\ calls[d].flight \notin overlapped
      BY <1>5, <2>1, <2>3
    <3>2. calls[d].flight # e
      BY <1>0, <1>7, <2>3, <3>1 DEF SerialInv
    <3>3. calls[d].flight \in Flights
      BY <3>1, CallOf DEF Prepared
    <3>4. flights'[calls[d].flight] = flights[calls[d].flight]
      BY <1>5, <3>2, <3>3
    <3>5. \A b \in Calls : Running(calls'[b]) /\ calls'[b].flight = calls[d].flight => b = d
      BY <1>2, <1>5, <3>1, <3>2 DEF SerialInv
    <3>6. QED
      BY <3>1, <3>4, <3>5 DEF SerialInv
  <2>4. QED
    BY <2>2, <2>3
<1>9. ASSUME NEW g \in Flights, Share(e, g)'
      PROVE  Reported(e, g)' \/ Pending(e, g)' \/ Pending(g, e)'
  <2>1. /\ g # e /\ flights'[g] = flights[g] /\ row.status \notin Inactive
        /\ row.gate # None /\ flights[g].gate = row.gate
        /\ e \notin overlapped /\ e \notin unchecked'
        /\ flights[g] # None /\ flights[g].status \notin Inactive
        /\ g \notin overlapped /\ g \notin unchecked'
        /\ e \notin cut' /\ g \notin cut' /\ e \notin cut /\ g \notin cut
        /\ Overlap(row, flights[g])
    BY <1>1, <1>2, <1>5, <1>9 DEF Share, AtWork
  <2>2. CASE GateChanged(h)
    <3>1. H.pc \in {"status", "gate"}
      BY <1>2, <2>1, <2>2
    <3>2. H.flight = e /\ GateChanged(H)
      BY <1>2, <2>2, <3>1 DEF Running, GateChanged
    <3>3. Seeks(H, g)
      BY <3>1, <3>2 DEF Seeks
    <3>4. QED
      BY <1>5, <3>2, <3>3 DEF Pending
  <2>3. CASE ~GateChanged(h)
    <3>1. h.before = flights[e]
      BY <1>0, <1>1, <1>7, <2>1 DEF SerialInv
    <3>2. row.gate = flights[e].gate
      BY <1>4, <2>3, <3>1 DEF GateChanged
    <3>3. flights[e].status \notin Inactive /\ unchecked' = unchecked
      BY <1>3, <2>1, <2>3
    <3>4. Overlap(flights[e], flights[g])
      BY <1>4, <2>1, OverlapByTimes
    <3>5. flights[e] # None
      BY <1>2, FlightsAssumption
    <3>6. Share(e, g)
      BY <2>1, <3>2, <3>3, <3>4, <3>5 DEF Share, AtWork
    <3>7. Reported(e, g) \/ Pending(e, g) \/ Pending(g, e)
      BY <1>2, <1>9, <3>6 DEF Watched
    <3>8. Reported(e, g) => Reported(e, g)'
      BY <1>1, <1>5, <3>2 DEF Reported
    <3>9. QED
      BY <1>2, <1>6, <3>7, <3>8
  <2>4. QED
    BY <2>2, <2>3
<1>10. ASSUME NEW f \in Flights, NEW g \in Flights, Share(f, g)'
       PROVE  Reported(f, g)' \/ Pending(f, g)' \/ Pending(g, f)'
  <2>1. CASE f = e
    BY <1>9, <1>10, <2>1
  <2>2. CASE g = e
    <3>1. Share(e, f)' /\ (Reported(e, f)' => Reported(f, e)')
      <4>1. {f, e} = {e, f}
        OBVIOUS
      <4>2. QED
        BY <1>10, <2>2, <4>1 DEF Share, Overlap, Reported
    <3>2. QED
      BY <1>9, <1>10, <2>2, <3>1
  <2>3. CASE f # e /\ g # e
    <3>1. /\ flights'[f] = flights[f] /\ flights'[g] = flights[g]
          /\ f \notin unchecked /\ g \notin unchecked
      BY <1>3, <1>5, <1>10, <2>3 DEF Share, AtWork
    <3>2. Share(f, g)
      BY <1>1, <1>10, <3>1 DEF Share, AtWork
    <3>3. Reported(f, g) \/ Pending(f, g) \/ Pending(g, f)
      BY <1>10, <3>2 DEF Watched
    <3>4. QED
      BY <1>1, <1>6, <3>1, <3>3 DEF Reported
  <2>4. QED
    BY <2>1, <2>2, <2>3
<1>11. QED
  BY <1>1, <1>8, <1>10 DEF Watched

LEMMA PublishStatusWatched ==
  ASSUME IInv, SerialInv, Watched, NEW c \in Calls, PublishStatus(c)
  PROVE  SerialInv' /\ Watched'
<1> DEFINE h == calls[c]
<1>1. /\ h.pc = "status" /\ GoOn(c, AfterStatus(h))
      /\ flights' = flights /\ overlapped' = overlapped /\ unchecked' = unchecked
      /\ conflicts' = conflicts /\ cut \subseteq cut'
  BY DEF PublishStatus, PublishStatusOf, Publish, events
<1>2. Running(h) /\ Written(h)
  BY <1>1 DEF Running, Written
<1>3. /\ AfterStatus(h) \in {"gate", "check", "done"}
      /\ AfterStatus(h) = "gate" <=> GateChanged(h)
      /\ AfterStatus(h) # "done" => GateChanged(h)
  BY DEF AfterStatus
<1>4. PICK H \in Call : /\ calls' = [calls EXCEPT ![c] = H]
                        /\ H.pc = AfterStatus(h)
                        /\ Running(H) => /\ H.flight = h.flight /\ H.req = h.req
                                         /\ H.before = h.before /\ H.after = h.after
  BY <1>1, <1>2, <1>3, GoesOn
<1>5. \A g \in Flights : Seeks(h, g) => Seeks(H, g)
  <2>1. SUFFICES ASSUME GateChanged(h) PROVE \A g \in Flights : Seeks(H, g)
    BY DEF Seeks
  <2>2. H.pc = "gate" /\ Running(H)
    BY <1>3, <1>4, <2>1 DEF Running
  <2>3. QED
    BY <1>4, <2>1, <2>2 DEF Seeks, GateChanged
<1>6. QED
  BY <1>1, <1>2, <1>3, <1>4, <1>5, OneGoesOn

LEMMA PublishGateWatched ==
  ASSUME IInv, SerialInv, Watched, NEW c \in Calls, PublishGate(c)
  PROVE  SerialInv' /\ Watched'
<1> DEFINE h == calls[c]
<1>1. /\ h.pc = "gate" /\ GoOn(c, "check")
      /\ flights' = flights /\ overlapped' = overlapped /\ unchecked' = unchecked
      /\ conflicts' = conflicts /\ cut \subseteq cut'
  BY DEF PublishGate, Publish, events
<1>2. Running(h) /\ Written(h) /\ GateChanged(h)
  BY <1>1, CallOf DEF Running, Written, Prepared
<1>3. PICK H \in Call : /\ calls' = [calls EXCEPT ![c] = H]
                        /\ H.pc = "check"
                        /\ Running(H) => /\ H.flight = h.flight /\ H.req = h.req
                                         /\ H.before = h.before /\ H.after = h.after
  BY <1>1, <1>2, GoesOn
<1>4. \A g \in Flights : Seeks(H, g)
  BY <1>2, <1>3 DEF Seeks, GateChanged, Running
<1>5. QED
  BY <1>1, <1>2, <1>3, <1>4, OneGoesOn

\* The search is made for the row as it is, so it finds every flight that shares it.
LEMMA CheckWatched ==
  ASSUME IInv, SerialInv, Watched, NEW c \in Calls, Check(c)
  PROVE  SerialInv' /\ Watched'
<1> DEFINE h == calls[c]
           found == FindConflicting(h.flight, h.after)
<1>1. /\ h.pc = "check"
      /\ calls' = [calls EXCEPT ![c] = IF found = {} THEN Fresh("done")
                                       ELSE [@ EXCEPT !.pc = "conflicts", !.found = found]]
      /\ flights' = flights /\ overlapped' = overlapped /\ unchecked' = unchecked
      /\ conflicts' = conflicts /\ cut' = cut
  BY DEF Check, events, history
<1>2. /\ h \in Call /\ calls \in [Calls -> Call] /\ Running(h) /\ Written(h)
      /\ GateChanged(h) /\ h.flight \in Flights
  BY <1>1, CallOf DEF Running, Written, Prepared
<1>3. \A g \in Flights : Share(h.flight, g) => g \in found
  <2>1. SUFFICES ASSUME NEW g \in Flights, Share(h.flight, g)
                 PROVE  g \in FindConflicting(h.flight, h.after)
    OBVIOUS
  <2>2. h.after = flights[h.flight]
    BY <1>2, <2>1 DEF Share, AtWork, SerialInv
  <2>3. QED
    BY <1>2, <2>1, <2>2, SharedIsFound
<1>4. found \in SUBSET Flights
  BY DEF FindConflicting
<1> HIDE DEF found
<1>5. CASE found = {}
  <2>1. Fresh("done") \in Call /\ Fresh("done").pc = "done"
    BY FreshType DEF Pc
  <2>2. calls' = [calls EXCEPT ![c] = Fresh("done")] /\ ~Running(Fresh("done"))
    BY <1>1, <1>5, <2>1 DEF Running
  <2>3. \A g \in Flights : ~Share(h.flight, g)
    BY <1>3, <1>5
  <2>4. QED
    BY <1>1, <1>2, <2>1, <2>2, <2>3, OneGoesOn
<1>6. CASE found # {}
  <2> DEFINE H == [h EXCEPT !.pc = "conflicts", !.found = found]
  <2>1. /\ H \in Call /\ H.pc = "conflicts" /\ H.flight = h.flight /\ H.req = h.req
        /\ H.before = h.before /\ H.after = h.after /\ H.found = found
    BY <1>2, <1>4 DEF Call, Pc
  <2>2. calls' = [calls EXCEPT ![c] = H]
    BY <1>1, <1>2, <1>6
  <2> HIDE DEF H
  <2>3. \A g \in Flights : Share(h.flight, g) => Seeks(H, g)
    BY <1>2, <1>3, <2>1 DEF Seeks, GateChanged
  <2>4. QED
    BY <1>1, <1>2, <2>1, <2>2, <2>3, OneGoesOn
<1>7. QED
  BY <1>5, <1>6

LEMMA PublishConflictWatched ==
  ASSUME IInv, SerialInv, Watched, NEW c \in Calls, PublishConflict(c)
  PROVE  SerialInv' /\ Watched'
<1> DEFINE h == calls[c]
<1>1. PICK e \in h.found :
        /\ calls' = [calls EXCEPT ![c] = IF h.found = {e} THEN Fresh("done")
                                         ELSE [h EXCEPT !.found = @ \ {e}]]
        /\ \/ /\ cut' = cut
              /\ conflicts' = conflicts \cup {[flights |-> {h.flight, e},
                                               gate |-> h.after.gate]}
           \/ cut' = cut \cup {h.flight} /\ conflicts' = conflicts
  BY DEF PublishConflict, Publish, events
<1>2. /\ h.pc = "conflicts"
      /\ flights' = flights /\ overlapped' = overlapped /\ unchecked' = unchecked
  BY DEF PublishConflict
<1>3. /\ h \in Call /\ calls \in [Calls -> Call] /\ Running(h) /\ Written(h)
      /\ h.flight \in Flights
  BY <1>2, CallOf DEF Running, Written, Prepared
<1>4. conflicts \subseteq conflicts' /\ cut \subseteq cut'
  BY <1>1
<1>5. ASSUME NEW g \in Flights, h.flight \notin cut', Share(h.flight, g), g = e
      PROVE  [flights |-> {h.flight, g}, gate |-> flights[h.flight].gate] \in conflicts'
  <2>1. h.after = flights[h.flight]
    BY <1>3, <1>5 DEF Share, AtWork, SerialInv
  <2>2. QED
    BY <1>1, <1>5, <2>1
<1>6. CASE h.found = {e}
  <2>1. Fresh("done") \in Call /\ Fresh("done").pc = "done"
    BY FreshType DEF Pc
  <2>2. calls' = [calls EXCEPT ![c] = Fresh("done")] /\ ~Running(Fresh("done"))
    BY <1>1, <1>6, <2>1 DEF Running
  <2>3. \A g \in Flights : Seeks(h, g) => g = e
    BY <1>2, <1>6 DEF Seeks
  <2>4. QED
    BY <1>2, <1>3, <1>4, <1>5, <2>1, <2>2, <2>3, OneGoesOn
<1>7. CASE h.found # {e}
  <2> DEFINE H == [h EXCEPT !.found = @ \ {e}]
  <2>1. /\ H \in Call /\ H.pc = "conflicts" /\ H.flight = h.flight /\ H.req = h.req
        /\ H.before = h.before /\ H.after = h.after /\ H.found = h.found \ {e}
    BY <1>2, <1>3 DEF Call, Pc
  <2>2. calls' = [calls EXCEPT ![c] = H]
    BY <1>1, <1>7
  <2> HIDE DEF H
  <2>3. \A g \in Flights : Seeks(h, g) /\ g # e => Seeks(H, g)
    BY <1>2, <2>1 DEF Seeks, GateChanged
  <2>4. QED
    BY <1>2, <1>3, <1>4, <1>5, <2>1, <2>2, <2>3, OneGoesOn
<1>8. QED
  BY <1>6, <1>7

LEMMA DatabaseErrorWatched ==
  ASSUME IInv, SerialInv, Watched, NEW c \in Calls, DatabaseError(c)
  PROVE  SerialInv' /\ Watched'
<1>1. Fresh("done") \in Call /\ Fresh("done").pc = "done"
  BY FreshType DEF Pc
<1>2. /\ calls[c].pc \in {"update", "check"}
      /\ cut' = cut \cup Losing({c})
      /\ calls' = [calls EXCEPT ![c] = Fresh("done")]
      /\ flights' = flights /\ overlapped' = overlapped /\ unchecked' = unchecked
      /\ conflicts' = conflicts
  BY DEF DatabaseError, events
<1>3. Running(calls[c]) /\ ~Running(Fresh("done")) /\ cut \subseteq cut'
  BY <1>1, <1>2 DEF Running
<1>4. \A g \in Flights : calls[c].flight \notin cut' => ~Seeks(calls[c], g)
  BY <1>2, <1>3 DEF Seeks, Losing
<1>5. QED
  BY <1>1, <1>2, <1>3, <1>4, OneGoesOn

LEMMA NextWatched ==
  IInv /\ SerialInv /\ Watched /\ [Next]_vars => SerialInv' /\ Watched'
<1> SUFFICES ASSUME IInv, SerialInv, Watched, [Next]_vars PROVE SerialInv' /\ Watched'
  OBVIOUS
<1>1. CASE \E f \in Flights, schedule \in Schedules, gate \in Gates \cup {None} :
             CreateFlight(f, schedule, gate)
  BY <1>1, CreateFlightWatched
<1>2. CASE \E c \in Calls, f \in Flights, req \in Requests : Begin(c, f, req)
  BY <1>2, BeginWatched
<1>3. CASE \E c \in Calls : Handle(c)
  BY <1>3, UpdateWrites, WritesWatched, PublishStatusWatched, PublishGateWatched,
     CheckWatched, PublishConflictWatched DEF Handle
<1>4. CASE \E c \in Calls : UpdateUnanswered(c) \/ DatabaseError(c)
  BY <1>4, UpdateUnansweredWrites, WritesWatched, DatabaseErrorWatched
<1>5. CASE Crash
  <2>1. Fresh("done").pc = "done"
    BY FreshType DEF Pc
  <2>2. \A c \in Calls : ~Running(calls'[c])
    BY <1>5, <2>1, CallOf DEF Crash, Running
  <2>3. SerialInv'
    BY <2>2 DEF SerialInv
  <2>4. /\ flights' = flights /\ unchecked' = unchecked /\ overlapped' = overlapped
        /\ conflicts' = conflicts /\ cut' = cut \cup Losing(Calls)
    BY <1>5 DEF Crash, events
  <2>5. \A f, g \in Flights : Pending(f, g) => f \in cut'
    BY <2>4, SeeksMeansRunning DEF Pending, Losing, Seeks
  <2>6. Watched'
    BY <2>4, <2>5, WatchedKept
  <2>7. QED
    BY <2>3, <2>6
<1>6. CASE UNCHANGED vars
  BY <1>6 DEF vars, SerialInv, Watched, Share, AtWork, Reported, Pending
<1>7. QED
  BY <1>1, <1>2, <1>3, <1>4, <1>5, <1>6 DEF Next

----------------------------------------------------------------------------

\* The status that the events of flight f end at.
Latest(f) == IF told[f] = <<>> THEN "scheduled" ELSE told[f][Len(told[f])].new

\* Each event of flight f begins where the one before it ended.
Chained(f) ==
  \A i \in 1 .. Len(told[f]) :
    told[f][i].old = IF i = 1 THEN "scheduled" ELSE told[f][i - 1].new

Announcing(c, f) == calls[c].pc = "status" /\ calls[c].flight = f

\* The events of a flight that is updated by one request at a time have come to its
\* status, or to the one that the request about to announce it has read.
Told(f) ==
  /\ flights[f] = None => told[f] = <<>>
  /\ flights[f] # None /\ f \notin overlapped =>
       /\ Chained(f)
       /\ (\A c \in Calls : ~Announcing(c, f)) => Latest(f) = flights[f].status
       /\ \A c \in Calls : Announcing(c, f) => Latest(f) = calls[c].before.status

StoryInv == \A f \in Flights \ cut : Told(f)

LEMMA ToldType ==
  ASSUME IInv, NEW f \in Flights
  PROVE  /\ told[f] \in Seq({e \in [old : Status, new : Status] : e.old # e.new})
         /\ Len(told[f]) \in Nat /\ DOMAIN told[f] = 1 .. Len(told[f])
         /\ told[f] = <<>> <=> Len(told[f]) = 0
<1> DEFINE S == {e \in [old : Status, new : Status] : e.old # e.new}
<1>1. told[f] \in Seq(S)
  <2>1. told \in [Flights -> Seq(S)]
    BY DEF IInv, TypeOK
  <2> HIDE DEF S
  <2>2. QED
    BY <2>1
<1> HIDE DEF S
<1>2. /\ Len(told[f]) \in Nat /\ DOMAIN told[f] = 1 .. Len(told[f])
      /\ told[f] = <<>> <=> Len(told[f]) = 0
  BY <1>1, EmptySeq, LenProperties
<1>3. QED
  BY <1>1, <1>2, Zenon DEF S

LEMMA StoryIsTold == IInv /\ StoryInv => EventsTellTheStory
<1> SUFFICES ASSUME IInv, StoryInv, NEW f \in Flights,
                    flights[f] # None, f \notin cut \cup overlapped, ~Updating(f)
             PROVE  LET statuses == <<"scheduled">> \o [i \in DOMAIN told[f] |-> told[f][i].new]
                    IN  /\ \A i \in DOMAIN told[f] : told[f][i].old = statuses[i]
                        /\ statuses[Len(statuses)] = flights[f].status
  BY DEF EventsTellTheStory
<1> DEFINE n == Len(told[f])
           news == [i \in DOMAIN told[f] |-> told[f][i].new]
           statuses == <<"scheduled">> \o news
<1>1. n \in Nat /\ DOMAIN told[f] = 1 .. n /\ (told[f] = <<>> <=> n = 0)
  BY ToldType
<1>2. \A c \in Calls : ~Announcing(c, f)
  BY DEF Updating, Announcing, Running
<1>3. Chained(f) /\ Latest(f) = flights[f].status
  BY <1>2 DEF StoryInv, Told
<1>4. /\ Len(statuses) = n + 1 /\ statuses[1] = "scheduled"
      /\ \A i \in 2 .. n + 1 : statuses[i] = told[f][i - 1].new
  BY <1>1
<1>5. \A i \in DOMAIN told[f] : told[f][i].old = statuses[i]
  BY <1>1, <1>3, <1>4 DEF Chained
<1>6. statuses[Len(statuses)] = Latest(f)
  BY <1>1, <1>4 DEF Latest
<1>7. QED
  BY <1>3, <1>5, <1>6

LEMMA InitStory == Init => StoryInv
<1> SUFFICES ASSUME Init, NEW f \in Flights PROVE Told(f)
  BY DEF StoryInv
<1>1. flights[f] = None /\ told[f] = <<>>
  BY DEF Init
<1>2. QED
  BY <1>1 DEF Told

\* Nothing changes for the story where rows, events and announcing requests stay.
LEMMA StoryKept ==
  ASSUME IInv, StoryInv, flights' = flights, told' = told, overlapped \subseteq overlapped',
         cut \subseteq cut',
         \A c \in Calls : calls[c].pc = "status" \/ calls'[c].pc = "status"
                          => calls'[c] = calls[c]
  PROVE  StoryInv'
<1>1. SUFFICES ASSUME NEW f \in Flights \ cut' PROVE Told(f)'
  BY DEF StoryInv
<1>2. Told(f)
  BY <1>1 DEF StoryInv
<1>3. \A c \in Calls : Announcing(c, f)' <=> Announcing(c, f)
  BY DEF Announcing
<1>4. \A c \in Calls : Announcing(c, f) => calls'[c].before = calls[c].before
  BY DEF Announcing
<1>5. (Chained(f)' <=> Chained(f)) /\ Latest(f)' = Latest(f)
  BY DEF Chained, Latest
<1>6. QED
  BY <1>2, <1>3, <1>4, <1>5 DEF Told

LEMMA CreateFlightStory ==
  ASSUME IInv, StoryInv, NEW e \in Flights, NEW schedule \in Schedules,
         NEW gate \in Gates \cup {None}, CreateFlight(e, schedule, gate)
  PROVE  StoryInv'
<1>1. /\ flights[e] = None /\ calls' = calls /\ told' = told /\ cut' = cut
      /\ overlapped' = overlapped
  BY DEF CreateFlight, events
<1>2. /\ \A f \in Flights : f # e => flights'[f] = flights[f]
      /\ flights'[e].status = "scheduled"
  <2> DEFINE row == [status |-> "scheduled", arrived |-> None, gate |-> gate,
                     schedule |-> schedule]
  <2>1. flights' = [flights EXCEPT ![e] = row] /\ row.status = "scheduled"
    BY DEF CreateFlight
  <2> HIDE DEF row
  <2>2. QED
    BY <2>1 DEF IInv, TypeOK
<1>3. SUFFICES ASSUME NEW f \in Flights \ cut PROVE Told(f)'
  BY <1>1 DEF StoryInv
<1>4. Told(f)
  BY <1>3 DEF StoryInv
<1>5. CASE f = e
  <2>1. told'[f] = <<>> /\ flights'[f].status = "scheduled"
    BY <1>1, <1>2, <1>4, <1>5 DEF Told
  <2>2. Chained(f)' /\ Latest(f)' = "scheduled"
    BY <2>1 DEF Chained, Latest
  <2>3. \A c \in Calls : ~Announcing(c, f)'
    <3>1. None \notin Row
      BY FlightsAssumption
    <3>2. \A c \in Calls : calls[c].pc = "status" => flights[calls[c].flight] \in Row
      BY CallOf DEF Prepared, Running
    <3>3. QED
      BY <1>1, <1>5, <3>1, <3>2 DEF Announcing
  <2>4. QED
    BY <2>1, <2>2, <2>3 DEF Told
<1>6. CASE f # e
  <2>1. flights'[f] = flights[f]
    BY <1>2, <1>6
  <2>2. QED
    BY <1>1, <1>4, <2>1 DEF Told, Chained, Latest, Announcing
<1>7. QED
  BY <1>5, <1>6

\* The row has the status that the events end at; a request that changes it is about
\* to announce this, from the status that it has read, which is that of the row.
LEMMA WritesStory ==
  ASSUME IInv, SerialInv, StoryInv, NEW c \in Calls, NEW H, Writes(c, H)
  PROVE  StoryInv'
<1> DEFINE h == calls[c]
<1>0. PICK e \in Flights : e = h.flight
  BY DEF Writes
<1> DEFINE row == Set(h.req, flights[e])
<1>1. /\ h.pc = "update" /\ told' = told /\ cut \subseteq cut'
      /\ overlapped' = overlapped
  BY DEF Writes
<1>2. /\ h.req \in Requests /\ flights[e] \in Row /\ row \in Row
      /\ H \in Call /\ calls' = [calls EXCEPT ![c] = H]
      /\ flights' = [flights EXCEPT ![e] = row]
      /\ Running(H) => /\ H.flight = e /\ H.req = h.req /\ H.before = h.before
                       /\ H.after = row
      /\ H.pc \in {"status", "gate", "done"}
      /\ StatusChanged(h) => H.pc = "status" \/ e \in cut'
  BY <1>0 DEF Writes, Commit
<1>3. row.status = IF h.req.status = None THEN flights[e].status ELSE h.req.status
  BY <1>2, SetRow
<1> HIDE DEF row
<1>4. /\ flights'[e] = row /\ \A f \in Flights : f # e => flights'[f] = flights[f]
      /\ calls'[c] = H /\ \A d \in Calls : d # c => calls'[d] = calls[d]
  BY <1>2, CallOf
<1>5. flights[e] # None /\ row # None
  BY <1>2, FlightsAssumption
<1>6. Running(h)
  BY <1>1 DEF Running
<1>7. SUFFICES ASSUME NEW f \in Flights \ cut' PROVE Told(f)'
  BY DEF StoryInv
<1>8. Told(f)
  BY <1>1, <1>7 DEF StoryInv
<1>9. (Chained(f)' <=> Chained(f)) /\ Latest(f)' = Latest(f)
  BY <1>1 DEF Chained, Latest
<1>10. CASE f # e
  <2>1. \A d \in Calls : (Announcing(d, f)' <=> Announcing(d, f))
    BY <1>0, <1>2, <1>4, <1>10 DEF Announcing, Running
  <2>2. \A d \in Calls : Announcing(d, f) => calls'[d] = calls[d]
    BY <1>1, <1>4 DEF Announcing
  <2>3. flights'[f] = flights[f] /\ told'[f] = told[f]
    BY <1>1, <1>4, <1>10
  <2>4. QED
    BY <1>1, <1>8, <1>9, <2>1, <2>2, <2>3 DEF Told
<1>11. CASE f = e
  <2>1. SUFFICES ASSUME e \notin overlapped
                 PROVE  /\ Chained(e)
                        /\ (\A d \in Calls : ~Announcing(d, e)') => Latest(e) = row.status
                        /\ \A d \in Calls : Announcing(d, e)' =>
                             Latest(e) = calls'[d].before.status
    BY <1>1, <1>4, <1>5, <1>9, <1>11 DEF Told
  <2>2. /\ \A d \in Calls : Running(calls[d]) /\ calls[d].flight = e => d = c
        /\ h.before = flights[e]
    BY <1>0, <1>1, <1>6, <2>1 DEF SerialInv
  <2>3. \A d \in Calls : ~Announcing(d, e)
    BY <1>1, <2>2 DEF Announcing, Running
  <2>4. Chained(e) /\ Latest(e) = flights[e].status
    BY <1>5, <1>8, <1>11, <2>1, <2>3 DEF Told
  <2>5. \A d \in Calls : Announcing(d, e)' => d = c
    BY <1>4, <2>3 DEF Announcing
  <2>6. Announcing(c, e)' => calls'[c].before = flights[e]
    BY <1>2, <1>4, <2>2 DEF Announcing, Running
  <2>7. ~StatusChanged(h) => row.status = flights[e].status
    BY <1>3, <2>2 DEF StatusChanged
  <2>8. StatusChanged(h) => Announcing(c, e)'
    BY <1>2, <1>4, <1>7, <1>11 DEF Announcing, Running
  <2>9. QED
    BY <2>4, <2>5, <2>6, <2>7, <2>8
<1>12. QED
  BY <1>10, <1>11

\* The event leads from the status the request has read, where the events before it
\* end, to the one it has written, which the row still has.
LEMMA PublishStatusStory ==
  ASSUME IInv, SerialInv, StoryInv, NEW c \in Calls, PublishStatus(c)
  PROVE  StoryInv'
<1> DEFINE h == calls[c]
<1>1. /\ h.pc = "status" /\ GoOn(c, AfterStatus(h))
      /\ flights' = flights /\ overlapped' = overlapped
      /\ \/ /\ told' = [told EXCEPT ![h.flight] =
                          Append(@, [old |-> h.before.status, new |-> h.after.status])]
            /\ cut' = cut
         \/ told' = told /\ cut' = cut \cup {h.flight}
  BY DEF PublishStatus, PublishStatusOf, Publish, events
<1>2. Running(h) /\ Written(h)
  BY <1>1 DEF Running, Written
<1>3. /\ AfterStatus(h) \in {"gate", "check", "done"}
      /\ AfterStatus(h) # "done" => GateChanged(h)
  BY DEF AfterStatus
<1>4. PICK H \in Call : calls' = [calls EXCEPT ![c] = H] /\ H.pc = AfterStatus(h)
  BY <1>1, <1>2, <1>3, GoesOn
<1>5. H.pc # "status" /\ calls'[c] = H /\ \A d \in Calls : d # c => calls'[d] = calls[d]
  BY <1>3, <1>4, CallOf
<1>6. PICK e \in Flights : e = h.flight
  BY <1>2, CallOf DEF Prepared
<1> DEFINE x == [old |-> h.before.status, new |-> h.after.status]
<1>7. SUFFICES ASSUME NEW f \in Flights \ cut'
               PROVE  Told(f)'
  BY DEF StoryInv
<1>8. x.old = h.before.status /\ x.new = h.after.status
  OBVIOUS
<1> HIDE DEF x
<1>9. Told(f) /\ f \in Flights
  BY <1>1, <1>7 DEF StoryInv
<1>10. /\ f = e => told'[e] = Append(told[e], x)
       /\ \A g \in Flights : g # e => told'[g] = told[g]
  <2>1. \/ told' = [told EXCEPT ![e] = Append(@, x)]
        \/ told' = told /\ e \in cut'
    BY <1>1, <1>6 DEF x
  <2>2. DOMAIN told = Flights
    BY CallOf
  <2>3. QED
    BY <1>7, <2>1, <2>2
<1>11. CASE f # e
  <2>1. told'[f] = told[f]
    BY <1>9, <1>10, <1>11
  <2>2. (Chained(f)' <=> Chained(f)) /\ Latest(f)' = Latest(f)
    BY <2>1 DEF Chained, Latest
  <2>3. \A d \in Calls : (Announcing(d, f)' <=> Announcing(d, f))
    BY <1>1, <1>5, <1>6, <1>11 DEF Announcing
  <2>4. \A d \in Calls : Announcing(d, f) => calls'[d] = calls[d]
    BY <1>5, <1>6, <1>11 DEF Announcing
  <2>5. QED
    BY <1>1, <1>9, <2>1, <2>2, <2>3, <2>4 DEF Told
<1>12. CASE f = e
  <2>1. flights[e] \in Row /\ flights[e] # None
    BY <1>2, <1>6, CallOf, FlightsAssumption DEF Prepared
  <2>2. SUFFICES ASSUME e \notin overlapped
                 PROVE  /\ Chained(e)'
                        /\ Latest(e)' = flights[e].status
                        /\ \A d \in Calls : ~Announcing(d, e)'
    BY <1>1, <1>12, <2>1 DEF Told
  <2>3. /\ \A d \in Calls : Running(calls[d]) /\ calls[d].flight = e => d = c
        /\ h.after = flights[e]
    BY <1>2, <1>6, <2>2 DEF SerialInv
  <2>4. \A d \in Calls : ~Announcing(d, e)'
    BY <1>5, <2>3 DEF Announcing, Running
  <2>5. Announcing(c, e)
    BY <1>1, <1>6 DEF Announcing
  <2>6. Chained(e) /\ Latest(e) = x.old
    BY <1>8, <1>9, <1>12, <2>1, <2>2, <2>5 DEF Told
  <2> DEFINE n == Len(told[e])
             S == {y \in [old : Status, new : Status] : y.old # y.new}
  <2>7. n \in Nat /\ (told[e] = <<>> <=> n = 0) /\ told[e] \in Seq(S)
    BY ToldType
  <2>8. /\ Len(told'[e]) = n + 1 /\ told'[e][n + 1] = x
        /\ \A i \in 1 .. n : told'[e][i] = told[e][i]
    <3>1. told[e] \in Seq(S \cup {x})
      BY <2>7
    <3> HIDE DEF S
    <3>2. QED
      BY <1>10, <1>12, <2>7, <3>1, AppendProperties
  <2> HIDE DEF S, n
  <2>9. told'[e] # <<>>
    BY <2>7, <2>8
  <2>10. Latest(e)' = flights[e].status
    BY <1>8, <2>3, <2>8, <2>9 DEF Latest
  <2>11. x.old = IF n = 0 THEN "scheduled" ELSE told[e][n].new
    BY <2>6, <2>7 DEF Latest, n
  <2>12. Chained(e)'
    <3>1. SUFFICES ASSUME NEW i \in 1 .. n + 1
                   PROVE  told'[e][i].old = IF i = 1 THEN "scheduled"
                                            ELSE told'[e][i - 1].new
      BY <2>8 DEF Chained
    <3>2. CASE i = n + 1
      BY <2>7, <2>8, <2>11, <3>2
    <3>3. CASE i # n + 1
      <4>1. i \in 1 .. n /\ (i # 1 => i - 1 \in 1 .. n)
        BY <2>7, <3>3
      <4>2. told[e][i].old = IF i = 1 THEN "scheduled" ELSE told[e][i - 1].new
        BY <2>6, <4>1 DEF Chained, n
      <4>3. QED
        BY <2>8, <4>1, <4>2
    <3>4. QED
      BY <3>2, <3>3
  <2>13. QED
    BY <2>4, <2>10, <2>12
<1>13. QED
  BY <1>11, <1>12

\* The steps of a request that neither write nor announce a status.
LEMMA QuietStory ==
  ASSUME IInv, StoryInv, NEW c \in Calls,
         PublishGate(c) \/ Check(c) \/ PublishConflict(c) \/ DatabaseError(c)
  PROVE  StoryInv'
<1>1. /\ flights' = flights /\ overlapped' = overlapped /\ told' = told
      /\ calls[c].pc # "status"
  BY DEF PublishGate, Check, PublishConflict, DatabaseError, Publish, events, history
<1>0. cut \subseteq cut'
  BY DEF PublishGate, Check, PublishConflict, DatabaseError, Publish, history
<1>2. Fresh("done").pc = "done"
  BY FreshType DEF Pc
<1>3. calls[c] \in Call /\ calls \in [Calls -> Call]
  BY CallOf
<1>4. calls'[c].pc # "status" /\ \A d \in Calls : d # c => calls'[d] = calls[d]
  <2>1. CASE PublishGate(c)
    BY <1>2, <1>3, <2>1 DEF PublishGate, GoOn, Call
  <2>2. CASE Check(c)
    BY <1>2, <1>3, <2>2 DEF Check, Call
  <2>3. CASE PublishConflict(c)
    BY <1>2, <1>3, <2>3 DEF PublishConflict, Call
  <2>4. CASE DatabaseError(c)
    BY <1>2, <1>3, <2>4 DEF DatabaseError
  <2>5. QED
    BY <2>1, <2>2, <2>3, <2>4
<1>5. QED
  BY <1>0, <1>1, <1>4, StoryKept

LEMMA NextStory ==
  IInv /\ SerialInv /\ StoryInv /\ [Next]_vars => StoryInv'
<1> SUFFICES ASSUME IInv, SerialInv, StoryInv, [Next]_vars PROVE StoryInv'
  OBVIOUS
<1>1. CASE \E f \in Flights, schedule \in Schedules, gate \in Gates \cup {None} :
             CreateFlight(f, schedule, gate)
  BY <1>1, CreateFlightStory
<1>2. CASE \E c \in Calls, f \in Flights, req \in Requests : Begin(c, f, req)
  <2>1. PICK c \in Calls, f \in Flights, req \in Requests : Begin(c, f, req)
    BY <1>2
  <2>2. /\ flights' = flights /\ told' = told /\ cut' = cut /\ overlapped \subseteq overlapped'
        /\ calls[c].pc = "idle"
    BY <2>1 DEF Begin, events
  <2>3. calls'[c].pc = "update" /\ \A d \in Calls : d # c => calls'[d] = calls[d]
    BY <2>1, CallOf DEF Begin, Fresh
  <2>4. QED
    BY <2>2, <2>3, StoryKept
<1>3. CASE \E c \in Calls : Handle(c)
  BY <1>3, UpdateWrites, WritesStory, PublishStatusStory, QuietStory DEF Handle
<1>4. CASE \E c \in Calls : UpdateUnanswered(c) \/ DatabaseError(c)
  BY <1>4, UpdateUnansweredWrites, WritesStory, QuietStory
<1>5. CASE Crash
  <2>1. /\ flights' = flights /\ told' = told /\ overlapped' = overlapped
        /\ cut' = cut \cup Losing(Calls)
    BY <1>5 DEF Crash, events
  <2>2. SUFFICES ASSUME NEW f \in Flights \ cut' PROVE Told(f)'
    BY DEF StoryInv
  <2>3. Told(f)
    BY <2>1 DEF StoryInv
  <2>4. \A c \in Calls : ~Announcing(c, f)
    BY <2>1 DEF Announcing, Losing, Running
  <2>5. Fresh("done").pc = "done"
    BY FreshType DEF Pc
  <2>6. \A c \in Calls : ~Announcing(c, f)'
    BY <1>5, <2>5, CallOf DEF Crash, Announcing, Running
  <2>7. (Chained(f)' <=> Chained(f)) /\ Latest(f)' = Latest(f)
    BY <2>1 DEF Chained, Latest
  <2>8. QED
    BY <2>1, <2>3, <2>4, <2>6, <2>7 DEF Told
<1>6. CASE UNCHANGED vars
  BY <1>6, StoryKept DEF vars
<1>7. QED
  BY <1>1, <1>2, <1>3, <1>4, <1>5, <1>6 DEF Next

----------------------------------------------------------------------------

\* Table, requests and events keep their types, and no status event tells of a change
\* that is none.
THEOREM TypeCorrect == Spec => []TypeOK
<1>1. IInv => TypeOK
  BY DEF IInv
<1>2. QED
  BY <1>1, Invariance, PTL

\* However PATCH requests race, each status a flight was given is announced once it is
\* reached for the first time, or the request that gave it is about to.
THEOREM StatusesAreAnnounced == Spec => []EveryStatusAnnounced
<1>1. IInv => EveryStatusAnnounced
  BY DEF IInv
<1>2. QED
  BY <1>1, Invariance, PTL

\* Racing PATCH requests keep each other's fields: each row changes by the body of the
\* one request that writes it.
THEOREM FieldsAreKept == Spec => FieldsChangeByRequest
<1>1. IInv /\ [Next]_vars => [\A f \in Flights :
            flights[f] # None =>
              \E req \in {Nothing} \cup {calls[c].req : c \in {d \in Calls :
                             calls[d].pc = "update" /\ calls[d].flight = f}} :
                flights'[f] = Set(req, flights[f])]_vars
  BY FieldsStep
<1>2. QED
  BY <1>1, Invariance, PTL DEF Spec, FieldsChangeByRequest

\* Two flights at work at one gate at one time are reported, however their updates
\* interleave, since each update searches after its own write.
THEOREM ConflictsAreReported == Spec => []GateConflictsReported
<1>1. Init => SerialInv /\ Watched
  BY InitWatched
<1>2. IInv /\ SerialInv /\ Watched /\ [Next]_vars => SerialInv' /\ Watched'
  BY NextWatched
<1>3. Watched => GateConflictsReported
  BY WatchedMeansReported
<1>4. QED
  BY <1>1, <1>2, <1>3, Invariance, PTL DEF Spec

\* Where the updates of a flight come one at a time and none of its events is lost, its
\* status events are its history: each begins where the last ended, and the last at its status.
THEOREM EventsAreTheHistory == Spec => []EventsTellTheStory
<1>1. Init => SerialInv /\ Watched /\ StoryInv
  BY InitWatched, InitStory
<1>2. IInv /\ SerialInv /\ Watched /\ [Next]_vars => SerialInv' /\ Watched'
  BY NextWatched
<1>3. IInv /\ SerialInv /\ StoryInv /\ [Next]_vars => StoryInv'
  BY NextStory
<1>4. IInv /\ StoryInv => EventsTellTheStory
  BY StoryIsTold
<1>5. QED
  BY <1>1, <1>2, <1>3, <1>4, Invariance, PTL DEF Spec
=============================================================================
