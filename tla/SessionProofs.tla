---------------------------- MODULE SessionProofs ----------------------------
(***************************************************************************)
(* Proofs about Session, for any number of exchanges, any documents that   *)
(* RelayAssumption allows, any policy and any key set.  SessionInv is      *)
(* inductive: CallPlaced ties the place of a call to the session and its   *)
(* connection, DeadlinePlaced says who may have left a deadline on it,     *)
(* FirstExchange where the evidence comes from, and InStep that requests   *)
(* and responses pass through the connection in order.                     *)
(***************************************************************************)
EXTENDS Session, SequenceTheorems, TLAPS

-----------------------------------------------------------------------------
(* Every step keeps the types.                                             *)
LEMMA TypeStep ==
    ASSUME SessionInv, [Next]_vars
    PROVE  TypeOK'
<1> USE ExchangesAssumption
<1>1. CASE VerifyStarts
  BY <1>1 DEF VerifyStarts, VerifyReturns, channel, SessionInv, CallPlaced, TypeOK, Exchanging, Exchanges
<1>2. CASE FetchAttestationAgain
  BY <1>2 DEF FetchAttestationAgain, ExchangeStarts, SessionInv, CallPlaced, TypeOK, Exchanging, Exchanges
<1>3. CASE DialFails
  BY <1>3 DEF DialFails, VerifyReturns, channel, SessionInv, CallPlaced, TypeOK, Exchanging, Exchanges
<1>4. CASE DialUnusable
  BY <1>4 DEF DialUnusable, VerifyReturns, SessionInv, CallPlaced, TypeOK, Exchanging, Exchanges
<1>5. CASE Connected
  BY <1>5 DEF Connected, ExchangeStarts, SessionInv, CallPlaced, TypeOK, Exchanging, Exchanges
<1>6. CASE Write
  BY <1>6 DEF Write, watchers, SessionInv, CallPlaced, TypeOK, Exchanging, Exchanges
<1>7. CASE WriteFails
  BY <1>7 DEF WriteFails, FetchFails, clearDeadline, ConnAfter, VerifyReturns, SessionInv, CallPlaced, TypeOK, Exchanging, Exchanges
<1>8. CASE ReadFails
  BY <1>8 DEF ReadFails, FetchFails, clearDeadline, ConnAfter, VerifyReturns, SessionInv, CallPlaced, TypeOK, Exchanging, Exchanges
<1>9. CASE HeadRefused
  BY <1>9 DEF HeadRefused, FetchFails, clearDeadline, ConnAfter, VerifyReturns, SessionInv, CallPlaced, TypeOK, Exchanging, Exchanges
<1>10. CASE HeadAccepted
  BY <1>10 DEF HeadAccepted, watchers, SessionInv, CallPlaced, TypeOK, Exchanging, Exchanges
<1>11. CASE BodyRefused
  BY <1>11 DEF BodyRefused, BodyArrived, FetchFails, clearDeadline, ConnAfter, VerifyReturns, SessionInv, CallPlaced, TypeOK, Exchanging, Exchanges
<1>12. CASE BodyAccepted
  BY <1>12 DEF BodyAccepted, BodyArrived, clearDeadline, SessionInv, CallPlaced, TypeOK, Exchanging, Exchanges
<1>13. CASE VerifyAccepts
  BY <1>13 DEF VerifyAccepts, VerifyReturns, channel, SessionInv, CallPlaced, TypeOK, Exchanging, Exchanges
<1>14. CASE VerifyRefuses
  BY <1>14 DEF VerifyRefuses, VerifyReturns, SessionInv, CallPlaced, TypeOK, Exchanging, Exchanges
<1>15. CASE DeadlinePasses
  BY <1>15 DEF DeadlinePasses, watchers, SessionInv, CallPlaced, TypeOK, Exchanging, Exchanges
<1>16. CASE PeerSendsHead
  BY <1>16 DEF PeerSendsHead, watchers, SessionInv, CallPlaced, TypeOK, Exchanging, Exchanges
<1>17. CASE PeerSendsBody
  BY <1>17 DEF PeerSendsBody, watchers, SessionInv, CallPlaced, TypeOK, Exchanging, Exchanges
<1>18. CASE PeerCloses
  BY <1>18 DEF PeerCloses, watchers, SessionInv, CallPlaced, TypeOK, Exchanging, Exchanges
<1>19. CASE CallerCloses
  BY <1>19 DEF CallerCloses, watchers, SessionInv, CallPlaced, TypeOK, Exchanging, Exchanges
<1>20. ASSUME NEW i \in Exchanges, ContextEnds(i)
      PROVE  TypeOK'
  BY <1>20 DEF ContextEnds, channel, SessionInv, CallPlaced, TypeOK, Exchanging, Exchanges
<1>21. ASSUME NEW i \in Exchanges, WatcherExpires(i)
      PROVE  TypeOK'
  BY <1>21 DEF WatcherExpires, SessionInv, CallPlaced, TypeOK, Exchanging, Exchanges
<1>22. ASSUME NEW i \in Exchanges, WatcherStops(i)
      PROVE  TypeOK'
  BY <1>22 DEF WatcherStops, channel, SessionInv, CallPlaced, TypeOK, Exchanging, Exchanges
<1>23. CASE UNCHANGED vars
  BY <1>23 DEF vars, watchers, channel, SessionInv, CallPlaced, TypeOK, Exchanging, Exchanges
<1> QED
  BY <1>1, <1>2, <1>3, <1>4, <1>5, <1>6, <1>7, <1>8, <1>9, <1>10, <1>11, <1>12, <1>13,
     <1>14, <1>15, <1>16, <1>17, <1>18, <1>19, <1>20, <1>21, <1>22, <1>23
  DEF Next, Steps

(* Every step keeps the places.                                            *)
LEMMA PlaceStep ==
    ASSUME SessionInv, [Next]_vars
    PROVE  CallPlaced'
<1>1. CASE VerifyStarts
  BY <1>1 DEF VerifyStarts, VerifyReturns, channel, SessionInv, TypeOK, CallPlaced, Exchanging
<1>2. CASE FetchAttestationAgain
  BY <1>2 DEF FetchAttestationAgain, ExchangeStarts, SessionInv, TypeOK, CallPlaced, Exchanging
<1>3. CASE DialFails
  BY <1>3 DEF DialFails, VerifyReturns, channel, SessionInv, TypeOK, CallPlaced, Exchanging
<1>4. CASE DialUnusable
  BY <1>4 DEF DialUnusable, VerifyReturns, SessionInv, TypeOK, CallPlaced, Exchanging
<1>5. CASE Connected
  BY <1>5 DEF Connected, ExchangeStarts, SessionInv, TypeOK, CallPlaced, Exchanging
<1>6. CASE Write
  BY <1>6 DEF Write, watchers, SessionInv, TypeOK, CallPlaced, Exchanging
<1>7. CASE WriteFails
  BY <1>7 DEF WriteFails, FetchFails, clearDeadline, ConnAfter, VerifyReturns, SessionInv, TypeOK, CallPlaced, Exchanging
<1>8. CASE ReadFails
  BY <1>8 DEF ReadFails, FetchFails, clearDeadline, ConnAfter, VerifyReturns, SessionInv, TypeOK, CallPlaced, Exchanging
<1>9. CASE HeadRefused
  BY <1>9 DEF HeadRefused, FetchFails, clearDeadline, ConnAfter, VerifyReturns, SessionInv, TypeOK, CallPlaced, Exchanging
<1>10. CASE HeadAccepted
  BY <1>10 DEF HeadAccepted, watchers, SessionInv, TypeOK, CallPlaced, Exchanging
<1>11. CASE BodyRefused
  BY <1>11 DEF BodyRefused, BodyArrived, FetchFails, clearDeadline, ConnAfter, VerifyReturns, SessionInv, TypeOK, CallPlaced, Exchanging
<1>12. CASE BodyAccepted
  BY <1>12 DEF BodyAccepted, BodyArrived, clearDeadline, SessionInv, TypeOK, CallPlaced, Exchanging
<1>13. CASE VerifyAccepts
  BY <1>13 DEF VerifyAccepts, VerifyReturns, channel, SessionInv, TypeOK, CallPlaced, Exchanging
<1>14. CASE VerifyRefuses
  BY <1>14 DEF VerifyRefuses, VerifyReturns, SessionInv, TypeOK, CallPlaced, Exchanging
<1>15. CASE DeadlinePasses
  BY <1>15 DEF DeadlinePasses, watchers, SessionInv, TypeOK, CallPlaced, Exchanging
<1>16. CASE PeerSendsHead
  BY <1>16 DEF PeerSendsHead, watchers, SessionInv, TypeOK, CallPlaced, Exchanging
<1>17. CASE PeerSendsBody
  BY <1>17 DEF PeerSendsBody, watchers, SessionInv, TypeOK, CallPlaced, Exchanging
<1>18. CASE PeerCloses
  BY <1>18 DEF PeerCloses, watchers, SessionInv, TypeOK, CallPlaced, Exchanging
<1>19. CASE CallerCloses
  BY <1>19 DEF CallerCloses, watchers, SessionInv, TypeOK, CallPlaced, Exchanging
<1>20. ASSUME NEW i \in Exchanges, ContextEnds(i)
      PROVE  CallPlaced'
  BY <1>20 DEF ContextEnds, channel, SessionInv, TypeOK, CallPlaced, Exchanging
<1>21. ASSUME NEW i \in Exchanges, WatcherExpires(i)
      PROVE  CallPlaced'
  BY <1>21 DEF WatcherExpires, SessionInv, TypeOK, CallPlaced, Exchanging
<1>22. ASSUME NEW i \in Exchanges, WatcherStops(i)
      PROVE  CallPlaced'
  BY <1>22 DEF WatcherStops, channel, SessionInv, TypeOK, CallPlaced, Exchanging
<1>23. CASE UNCHANGED vars
  BY <1>23 DEF vars, watchers, channel, SessionInv, TypeOK, CallPlaced, Exchanging
<1> QED
  BY <1>1, <1>2, <1>3, <1>4, <1>5, <1>6, <1>7, <1>8, <1>9, <1>10, <1>11, <1>12, <1>13,
     <1>14, <1>15, <1>16, <1>17, <1>18, <1>19, <1>20, <1>21, <1>22, <1>23
  DEF Next, Steps

(* Every step keeps what is known of the deadline.                         *)
LEMMA DeadlineStep ==
    ASSUME SessionInv, [Next]_vars
    PROVE  DeadlinePlaced'
<1> USE ExchangesAssumption
<1>1. CASE VerifyStarts
  BY <1>1 DEF VerifyStarts, VerifyReturns, channel, SessionInv, TypeOK, CallPlaced, DeadlinePlaced, Exchanging, Exchanges
<1>2. CASE FetchAttestationAgain
  BY <1>2 DEF FetchAttestationAgain, ExchangeStarts, SessionInv, TypeOK, CallPlaced, DeadlinePlaced, Exchanging, Exchanges
<1>3. CASE DialFails
  BY <1>3 DEF DialFails, VerifyReturns, channel, SessionInv, TypeOK, CallPlaced, DeadlinePlaced, Exchanging, Exchanges
<1>4. CASE DialUnusable
  BY <1>4 DEF DialUnusable, VerifyReturns, SessionInv, TypeOK, CallPlaced, DeadlinePlaced, Exchanging, Exchanges
<1>5. CASE Connected
  BY <1>5 DEF Connected, ExchangeStarts, SessionInv, TypeOK, CallPlaced, DeadlinePlaced, Exchanging, Exchanges
<1>6. CASE Write
  BY <1>6 DEF Write, watchers, SessionInv, TypeOK, CallPlaced, DeadlinePlaced, Exchanging, Exchanges
<1>7. CASE WriteFails
  BY <1>7 DEF WriteFails, FetchFails, clearDeadline, ConnAfter, VerifyReturns, SessionInv, TypeOK, CallPlaced, DeadlinePlaced, Exchanging, Exchanges
<1>8. CASE ReadFails
  BY <1>8 DEF ReadFails, FetchFails, clearDeadline, ConnAfter, VerifyReturns, SessionInv, TypeOK, CallPlaced, DeadlinePlaced, Exchanging, Exchanges
<1>9. CASE HeadRefused
  BY <1>9 DEF HeadRefused, FetchFails, clearDeadline, ConnAfter, VerifyReturns, SessionInv, TypeOK, CallPlaced, DeadlinePlaced, Exchanging, Exchanges
<1>10. CASE HeadAccepted
  BY <1>10 DEF HeadAccepted, watchers, SessionInv, TypeOK, CallPlaced, DeadlinePlaced, Exchanging, Exchanges
<1>11. CASE BodyRefused
  BY <1>11 DEF BodyRefused, BodyArrived, FetchFails, clearDeadline, ConnAfter, VerifyReturns, SessionInv, TypeOK, CallPlaced, DeadlinePlaced, Exchanging, Exchanges
<1>12. CASE BodyAccepted
  BY <1>12 DEF BodyAccepted, BodyArrived, clearDeadline, SessionInv, TypeOK, CallPlaced, DeadlinePlaced, Exchanging, Exchanges
<1>13. CASE VerifyAccepts
  BY <1>13 DEF VerifyAccepts, VerifyReturns, channel, SessionInv, TypeOK, CallPlaced, DeadlinePlaced, Exchanging, Exchanges
<1>14. CASE VerifyRefuses
  BY <1>14 DEF VerifyRefuses, VerifyReturns, SessionInv, TypeOK, CallPlaced, DeadlinePlaced, Exchanging, Exchanges
<1>15. CASE DeadlinePasses
  BY <1>15 DEF DeadlinePasses, watchers, SessionInv, TypeOK, CallPlaced, DeadlinePlaced, Exchanging, Exchanges
<1>16. CASE PeerSendsHead
  BY <1>16 DEF PeerSendsHead, watchers, SessionInv, TypeOK, CallPlaced, DeadlinePlaced, Exchanging, Exchanges
<1>17. CASE PeerSendsBody
  BY <1>17 DEF PeerSendsBody, watchers, SessionInv, TypeOK, CallPlaced, DeadlinePlaced, Exchanging, Exchanges
<1>18. CASE PeerCloses
  BY <1>18 DEF PeerCloses, watchers, SessionInv, TypeOK, CallPlaced, DeadlinePlaced, Exchanging, Exchanges
<1>19. CASE CallerCloses
  BY <1>19 DEF CallerCloses, watchers, SessionInv, TypeOK, CallPlaced, DeadlinePlaced, Exchanging, Exchanges
<1>20. ASSUME NEW i \in Exchanges, ContextEnds(i)
      PROVE  DeadlinePlaced'
  BY <1>20 DEF ContextEnds, channel, SessionInv, TypeOK, CallPlaced, DeadlinePlaced, Exchanging, Exchanges
<1>21. ASSUME NEW i \in Exchanges, WatcherExpires(i)
      PROVE  DeadlinePlaced'
  BY <1>21 DEF WatcherExpires, SessionInv, TypeOK, CallPlaced, DeadlinePlaced, Exchanging, Exchanges
<1>22. ASSUME NEW i \in Exchanges, WatcherStops(i)
      PROVE  DeadlinePlaced'
  BY <1>22 DEF WatcherStops, channel, SessionInv, TypeOK, CallPlaced, DeadlinePlaced, Exchanging, Exchanges
<1>23. CASE UNCHANGED vars
  BY <1>23 DEF vars, watchers, channel, SessionInv, TypeOK, CallPlaced, DeadlinePlaced, Exchanging, Exchanges
<1> QED
  BY <1>1, <1>2, <1>3, <1>4, <1>5, <1>6, <1>7, <1>8, <1>9, <1>10, <1>11, <1>12, <1>13,
     <1>14, <1>15, <1>16, <1>17, <1>18, <1>19, <1>20, <1>21, <1>22, <1>23
  DEF Next, Steps

(* Sequences of one and two parts.                                         *)
LEMMA ShortSequences ==
    ASSUME NEW a, NEW b
    PROVE  /\ Tail(<<a>>) = << >>
           /\ Tail(<<a, b>>) = <<b>>
           /\ Append(<<a>>, b) = <<a, b>>
<1>1. Tail(<<a>>) = << >>
  OBVIOUS
<1>2. Tail(<<a, b>>) = <<b>>
  OBVIOUS
<1>3. Append(<<a>>, b) = <<a, b>>
  <2> DEFINE S == {a, b}
             s == <<a>>
             t == Append(s, b)
             u == <<a, b>>
  <2>1. a \in S /\ b \in S
    OBVIOUS
  <2> HIDE DEF S
  <2>2. Len(t) = 2 /\ t[1] = a /\ t[2] = b
    OBVIOUS
  <2>3. t \in Seq(S) /\ u \in Seq(S) /\ Len(u) = 2 /\ u[1] = a /\ u[2] = b
    BY <2>1
  <2> HIDE DEF t, u
  <2>4. Len(t) = Len(u) /\ \A i \in 1..Len(t) : t[i] = u[i]
    BY <2>2, <2>3
  <2>5. t = u
    BY <2>3, <2>4, SeqEqual
  <2> QED
    BY <2>5 DEF t, u
<1> QED
  BY <1>1, <1>2, <1>3

(* Every step keeps what is known of the first exchange.  A step that has  *)
(* left it changes nothing the invariant speaks of.                        *)
LEMMA ExchangeStep ==
    ASSUME SessionInv, [Next]_vars
    PROVE  FirstExchange'
<1> USE ExchangesAssumption DEF SessionInv, TypeOK, CallPlaced, Exchanging
<1>1. CASE VerifyStarts \/ DialFails \/ DialUnusable
  BY <1>1
  DEF VerifyStarts, DialFails, DialUnusable, VerifyReturns, channel, FirstExchange, IsBody,
      OneHead, OneBody, WholeResponse
<1>2. CASE Connected \/ FetchAttestationAgain
  BY <1>2
  DEF Connected, FetchAttestationAgain, ExchangeStarts, FirstExchange, IsBody, OneHead, OneBody,
      WholeResponse, Verified
<1>3. CASE Write
  <2>1. /\ pc = "write" /\ pc' = "head" /\ n \in Nat /\ n > 0
        /\ requests' = Append(requests, n)
        /\ UNCHANGED <<n, owed, stream, session, peer, evidence>>
    BY <1>3 DEF Write
  <2>2. n = 1 => requests' = <<1>> /\ owed' = NoPart /\ stream' = << >>
    BY <2>1 DEF FirstExchange, NoPart
  <2>3. FirstExchange!5'
    BY <2>1 DEF FirstExchange, Verified
  <2> QED
    BY <2>1, <2>2, <2>3 DEF FirstExchange, NoPart
<1>4. CASE WriteFails \/ ReadFails \/ HeadRefused \/ BodyRefused
  <2>1. /\ pc' = "idle" /\ n \in Nat /\ n > 0
        /\ UNCHANGED <<n, peer, evidence>>
        /\ session' \in {session, "refused"}
    <3>1. pc \in {"write", "head", "body"} /\ (FetchFails(FALSE) \/ FetchFails(~headRead.keepAlive))
      BY <1>4 DEF WriteFails, ReadFails, HeadRefused, BodyRefused, BodyArrived
    <3>2. n \in Nat /\ n > 0
      BY <3>1
    <3>3. pc' = "idle" /\ UNCHANGED <<n, peer, evidence>> /\ session' \in {session, "refused"}
      BY <3>1, Zenon DEF FetchFails, VerifyReturns
    <3> QED
      BY <3>2, <3>3
  <2>2. FirstExchange!5'
    BY <2>1 DEF FirstExchange, Verified
  <2> QED
    BY <2>1, <2>2 DEF FirstExchange
<1>5. CASE HeadAccepted
  <2>1. /\ pc = "head" /\ pc' = "body" /\ n \in Nat /\ n > 0 /\ stream # << >>
        /\ stream' = Tail(stream)
        /\ UNCHANGED <<n, requests, owed, session, peer, evidence>>
    BY <1>5 DEF HeadAccepted
  <2>2. CASE n = 1 /\ requests = << >> /\ IsBody(owed) /\ OneHead
    <3>1. stream' = << >> /\ IsBody(owed)'
      <4>1. PICK h : stream = <<h>>
        BY <2>2 DEF OneHead
      <4>2. stream' = << >>
        BY <2>1, <4>1, ShortSequences
      <4> QED
        BY <2>1, <2>2, <4>2 DEF IsBody
    <3> QED
      BY <2>1, <2>2, <3>1 DEF FirstExchange
  <2>3. CASE n = 1 /\ requests = << >> /\ owed = NoPart /\ WholeResponse
    <3>1. PICK h, b : stream = <<h, b>> /\ IsBody(b)
      BY <2>3 DEF WholeResponse
    <3>2. stream' = <<b>> /\ owed' = NoPart /\ IsBody(b)'
      BY <2>1, <2>3, <3>1, ShortSequences DEF IsBody, NoPart
    <3>3. OneBody'
      BY <3>2, ShortSequences DEF OneBody, IsBody
    <3> QED
      BY <2>1, <2>3, <3>2, <3>3 DEF FirstExchange, NoPart
  <2>4. CASE n # 1
    <3>1. FirstExchange!5'
      BY <2>1 DEF FirstExchange, Verified
    <3> QED
      BY <2>1, <2>4, <3>1 DEF FirstExchange
  <2> QED
    BY <2>1, <2>2, <2>3, <2>4 DEF FirstExchange
<1>6. CASE BodyAccepted
  BY <1>6
  DEF BodyAccepted, BodyArrived, FirstExchange, IsBody, OneBody, Verified
<1>7. CASE VerifyAccepts \/ VerifyRefuses
  BY <1>7
  DEF VerifyAccepts, VerifyRefuses, VerifyReturns, channel, FirstExchange, Verified
<1>8. CASE PeerSendsHead
  <2>1. UNCHANGED <<n, pc, session, peer, evidence>> /\ requests # << >>
    BY <1>8 DEF PeerSendsHead
  <2>2. CASE n = 1 /\ pc = "head"
    <3>1. requests = <<1>> /\ owed = NoPart /\ stream = << >>
      BY <2>1, <2>2 DEF FirstExchange
    <3>2. PICK h, d : /\ d \in Documents(peer) /\ h.kind = "head"
                      /\ stream' = Append(stream, h)
                      /\ owed' = [kind |-> "body", document |-> d]
                      /\ requests' = Tail(requests)
      BY <1>8, <3>1 DEF PeerSendsHead
    <3>3. stream' = <<h>> /\ requests' = << >>
      BY <3>1, <3>2
    <3>4. IsBody(owed)' /\ OneHead'
      BY <2>1, <3>2, <3>3 DEF IsBody, OneHead
    <3> QED
      BY <2>1, <2>2, <3>3, <3>4 DEF FirstExchange
  <2>3. CASE ~(n = 1 /\ pc = "head")
    <3>1. FirstExchange!5' /\ FirstExchange!4'
      BY <2>1 DEF FirstExchange, Verified
    <3> QED
      BY <2>1, <2>3, <3>1 DEF FirstExchange
  <2> QED
    BY <2>2, <2>3
<1>9. CASE PeerSendsBody
  <2>1. /\ UNCHANGED <<n, pc, session, peer, evidence, requests>> /\ owed # NoPart
        /\ stream' = Append(stream, owed) /\ owed' = NoPart
    BY <1>9 DEF PeerSendsBody, NoPart
  <2>2. FirstExchange!5' /\ FirstExchange!4'
    BY <2>1 DEF FirstExchange, Verified
  <2>3. CASE n = 1 /\ pc = "head"
    <3>1. requests = << >> /\ IsBody(owed) /\ OneHead
      BY <2>1, <2>3 DEF FirstExchange
    <3>2. PICK h : stream = <<h>> /\ h.kind = "head"
      BY <3>1 DEF OneHead
    <3>3. PICK b : owed = b /\ IsBody(b)
      BY <3>1
    <3>4. stream' = <<h, b>> /\ IsBody(b)'
      BY <2>1, <3>2, <3>3, ShortSequences DEF IsBody
    <3>5. Len(stream') = 2 /\ stream'[1] = h /\ stream'[2] = b
      BY <3>4
    <3>6. WholeResponse'
      BY <2>1, <3>1, <3>2, <3>4, <3>5 DEF WholeResponse, IsBody
    <3> QED
      BY <2>1, <2>2, <2>3, <3>1, <3>6 DEF FirstExchange, NoPart
  <2>4. CASE n = 1 /\ pc = "body"
    <3>1. requests = << >> /\ IsBody(owed) /\ stream = << >>
      BY <2>1, <2>4 DEF FirstExchange
    <3>2. stream' = <<owed>>
      BY <2>1, <3>1
    <3>3. OneBody'
      BY <2>1, <3>1, <3>2 DEF OneBody, IsBody
    <3> QED
      BY <2>1, <2>2, <2>4, <3>1, <3>3 DEF FirstExchange, NoPart
  <2>5. CASE ~(n = 1 /\ pc \in {"head", "body"})
    BY <2>1, <2>2, <2>5 DEF FirstExchange
  <2> QED
    BY <2>3, <2>4, <2>5
<1>10. CASE \/ DeadlinePasses \/ PeerCloses \/ CallerCloses \/ UNCHANGED vars
            \/ \E i \in Exchanges : ContextEnds(i) \/ WatcherExpires(i) \/ WatcherStops(i)
  BY <1>10
  DEF DeadlinePasses, PeerCloses, CallerCloses, ContextEnds, WatcherExpires, WatcherStops, vars,
      channel, FirstExchange, IsBody, OneHead, OneBody, WholeResponse, Verified
<1> QED
  BY <1>1, <1>2, <1>3, <1>4, <1>5, <1>6, <1>7, <1>8, <1>9, <1>10 DEF Next, Steps

-----------------------------------------------------------------------------
(* What is on its way.  The heads of a set of parts name a request; and    *)
(* what a reader leaves of a stream after taking, or spoiling, its first   *)
(* part.                                                                   *)
Named(P) == \A p \in P : p.kind = "head" => p.request \in Nat

(* The parts of rest are those of parts after the first c.                 *)
Follows(rest, parts, c) ==
    \A i \in DOMAIN rest :
        /\ i + c \in DOMAIN parts
        /\ rest[i].kind = parts[i + c].kind
        /\ rest[i].kind = "head" => rest[i].request = parts[i + c].request

(* Wider bounds hold as well.                                              *)
LEMMA WiderBounds ==
    ASSUME NEW asked \in Seq(Nat), NEW P, Named(P), NEW parts \in Seq(P),
           NEW low \in Int, NEW high \in Int, NEW lower \in Int, NEW higher \in Int,
           OnTheWay(asked, parts, low, high), lower <= low, high <= higher
    PROVE  OnTheWay(asked, parts, lower, higher)
BY DEF OnTheWay, Named

(* With nothing between the bounds nothing is on its way, so any bounds    *)
(* hold.                                                                   *)
LEMMA NothingOnTheWay ==
    ASSUME NEW asked \in Seq(Nat), NEW P, Named(P), NEW parts \in Seq(P),
           NEW m \in Int, NEW low \in Int, NEW high \in Int,
           OnTheWay(asked, parts, m, m), low <= high
    PROVE  OnTheWay(asked, parts, low, high)
<1>1. asked = << >>
  <2>1. \A i \in DOMAIN asked : asked[i] \in Int /\ m < asked[i] /\ asked[i] <= m
    BY DEF OnTheWay
  <2>2. DOMAIN asked = {}
    BY <2>1
  <2> QED
    BY <2>2
<1>2. \A i \in DOMAIN parts : parts[i].kind # "head"
  <2> SUFFICES ASSUME NEW i \in DOMAIN parts, parts[i].kind = "head" PROVE FALSE
    OBVIOUS
  <2>1. parts[i].request \in Nat
    BY DEF Named
  <2> QED
    BY <2>1 DEF OnTheWay
<1> QED
  BY <1>1, <1>2 DEF OnTheWay

(* A reader that takes the first part, or spoils it, keeps the rest in     *)
(* order.                                                                  *)
LEMMA RestOnTheWay ==
    ASSUME NEW asked \in Seq(Nat), NEW P, Named(P), NEW parts \in Seq(P), NEW rest \in Seq(P),
           NEW c \in {0, 1}, NEW low \in Int, NEW high \in Int,
           OnTheWay(asked, parts, low, high), Follows(rest, parts, c)
    PROVE  OnTheWay(asked, rest, low, high)
<1>1. \A i \in DOMAIN rest : rest[i].kind = "head" =>
         low < rest[i].request /\ rest[i].request <= high
  BY DEF OnTheWay, Follows
<1>2. \A i, j \in DOMAIN rest :
         i < j /\ rest[i].kind = "head" /\ rest[j].kind = "head" =>
            rest[i].request < rest[j].request
  <2> SUFFICES ASSUME NEW i \in DOMAIN rest, NEW j \in DOMAIN rest, i < j,
                      rest[i].kind = "head", rest[j].kind = "head"
               PROVE  rest[i].request < rest[j].request
    OBVIOUS
  <2>1. i \in Nat /\ j \in Nat /\ i + c < j + c
    OBVIOUS
  <2>2. parts[i + c].request < parts[j + c].request
    BY <2>1 DEF OnTheWay, Follows
  <2> QED
    BY <2>2 DEF Follows
<1>3. \A i \in DOMAIN rest, j \in DOMAIN asked :
         rest[i].kind = "head" => rest[i].request < asked[j]
  BY DEF OnTheWay, Follows
<1> QED
  BY <1>1, <1>2, <1>3 DEF OnTheWay

(* Tail drops one part.                                                    *)
LEMMA TailParts ==
    ASSUME NEW P, NEW parts \in Seq(P), parts # << >>
    PROVE  /\ Tail(parts) \in Seq(P)
           /\ DOMAIN Tail(parts) = 1..(Len(parts) - 1)
           /\ \A i \in DOMAIN Tail(parts) : i + 1 \in DOMAIN parts /\ Tail(parts)[i] = parts[i + 1]
           /\ 1 \in DOMAIN parts /\ Head(parts) = parts[1] /\ parts[1] \in P
           /\ Follows(Tail(parts), parts, 1)
<1>1. /\ Tail(parts) \in Seq(P)
      /\ DOMAIN Tail(parts) = 1..(Len(parts) - 1)
      /\ \A i \in DOMAIN Tail(parts) : i + 1 \in DOMAIN parts /\ Tail(parts)[i] = parts[i + 1]
      /\ 1 \in DOMAIN parts /\ Head(parts) = parts[1] /\ parts[1] \in P
  OBVIOUS
<1> DEFINE rest == Tail(parts)
<1> HIDE DEF rest
<1>2. ASSUME \A i \in DOMAIN rest : i + 1 \in DOMAIN parts /\ rest[i] = parts[i + 1]
      PROVE  Follows(rest, parts, 1)
  BY <1>2 DEF Follows
<1> QED
  BY <1>1, <1>2 DEF rest

(* A head that is read is the lowest request on its way.                   *)
LEMMA FirstOnTheWay ==
    ASSUME NEW asked \in Seq(Nat), NEW P, Named(P), NEW parts \in Seq(P), parts # << >>,
           NEW low \in Int, NEW high \in Int, OnTheWay(asked, parts, low, high),
           Head(parts).kind = "head"
    PROVE  /\ low < Head(parts).request /\ Head(parts).request <= high
           /\ OnTheWay(asked, Tail(parts), Head(parts).request, high)
<1>1. 1 \in DOMAIN parts /\ Head(parts) = parts[1] /\ parts[1].kind = "head" /\ parts[1].request \in Nat
  BY TailParts DEF Named
<1>2. low < parts[1].request /\ parts[1].request <= high
  BY <1>1 DEF OnTheWay
<1>3. OnTheWay(asked, Tail(parts), low, high)
  <2>1. Tail(parts) \in Seq(P) /\ Follows(Tail(parts), parts, 1) /\ 1 \in {0, 1}
    BY TailParts
  <2> QED
    BY <2>1, RestOnTheWay
<1>4. \A i \in DOMAIN asked : parts[1].request < asked[i] /\ asked[i] <= high
  BY <1>1 DEF OnTheWay
<1>5. \A i \in DOMAIN Tail(parts) : Tail(parts)[i].kind = "head" =>
         parts[1].request < Tail(parts)[i].request /\ Tail(parts)[i].request <= high
  <2> SUFFICES ASSUME NEW i \in DOMAIN Tail(parts), Tail(parts)[i].kind = "head"
               PROVE  parts[1].request < Tail(parts)[i].request /\ Tail(parts)[i].request <= high
    OBVIOUS
  <2>1. i + 1 \in DOMAIN parts /\ Tail(parts)[i] = parts[i + 1] /\ 1 < i + 1
    BY TailParts
  <2> QED
    BY <1>1, <2>1 DEF OnTheWay
<1>6. parts[1].request <= high
  BY <1>2
<1> QED
  BY <1>1, <1>2, <1>3, <1>4, <1>5 DEF OnTheWay

(* A new request comes last.                                               *)
LEMMA AskedOnTheWay ==
    ASSUME NEW asked \in Seq(Nat), NEW P, Named(P), NEW parts \in Seq(P),
           NEW low \in Int, NEW m \in Nat, OnTheWay(asked, parts, low, m - 1)
    PROVE  OnTheWay(Append(asked, m), parts, low, m)
<1> DEFINE more == Append(asked, m)
<1>1. /\ more \in Seq(Nat) /\ DOMAIN more = 1..(Len(asked) + 1)
      /\ \A i \in DOMAIN asked : more[i] = asked[i]
      /\ more[Len(asked) + 1] = m
  OBVIOUS
<1>2. \A i \in DOMAIN more : i \in DOMAIN asked \/ i = Len(asked) + 1
  BY <1>1
<1>3. DOMAIN asked = 1..Len(asked) /\ Len(asked) \in Nat
  OBVIOUS
<1> HIDE DEF more
<1>4. low <= m - 1 /\ low < m
  BY DEF OnTheWay
<1>5. \A i \in DOMAIN more : low < more[i] /\ more[i] <= m
  BY <1>1, <1>2, <1>4 DEF OnTheWay
<1>6. \A i \in DOMAIN parts : parts[i].kind = "head" =>
         low < parts[i].request /\ parts[i].request <= m /\ parts[i].request < m
  BY DEF OnTheWay, Named
<1>7. \A i, j \in DOMAIN more : i < j => more[i] < more[j]
  <2> SUFFICES ASSUME NEW i \in DOMAIN more, NEW j \in DOMAIN more, i < j
               PROVE  more[i] < more[j]
    OBVIOUS
  <2>1. i \in DOMAIN asked
    BY <1>1, <1>3
  <2>2. asked[i] \in Nat /\ asked[i] <= m - 1 /\ more[i] = asked[i]
    BY <2>1, <1>1 DEF OnTheWay
  <2>3. CASE j \in DOMAIN asked
    BY <2>1, <2>2, <2>3, <1>1 DEF OnTheWay
  <2>4. CASE j = Len(asked) + 1
    BY <2>2, <2>4, <1>1
  <2> QED
    BY <2>3, <2>4, <1>2
<1>8. \A i \in DOMAIN parts, j \in DOMAIN more :
         parts[i].kind = "head" => parts[i].request < more[j]
  BY <1>1, <1>2, <1>6 DEF OnTheWay
<1>9. OnTheWay(more, parts, low, m)
  BY <1>4, <1>5, <1>6, <1>7, <1>8 DEF OnTheWay
<1> QED
  BY <1>9 DEF more

(* A part at the end of the stream: a body, or the head that answers the   *)
(* first request that waits.                                               *)
LEMMA BodyOnTheWay ==
    ASSUME NEW asked \in Seq(Nat), NEW P, NEW parts \in Seq(P), NEW part \in P,
           NEW low \in Int, NEW high \in Int, OnTheWay(asked, parts, low, high),
           part.kind = "body"
    PROVE  OnTheWay(asked, Append(parts, part), low, high)
<1> DEFINE more == Append(parts, part)
<1>1. /\ DOMAIN more = 1..(Len(parts) + 1)
      /\ \A i \in DOMAIN parts : more[i] = parts[i]
      /\ more[Len(parts) + 1] = part
  OBVIOUS
<1>2. \A i \in DOMAIN more : more[i].kind = "head" => i \in DOMAIN parts /\ more[i] = parts[i]
  BY <1>1
<1> HIDE DEF more
<1>3. OnTheWay(asked, more, low, high)
  BY <1>2 DEF OnTheWay
<1> QED
  BY <1>3 DEF more

(* A head that answers the oldest request keeps the order.                 *)
LEMMA AnsweredOnTheWay ==
    ASSUME NEW asked \in Seq(Nat), asked # << >>, NEW P, Named(P), NEW parts \in Seq(P),
           NEW part \in P, part.kind = "head", part.request = Head(asked),
           NEW low \in Int, NEW high \in Int, OnTheWay(asked, parts, low, high)
    PROVE  OnTheWay(Tail(asked), Append(parts, part), low, high)
<1> DEFINE more == Append(parts, part)
           rest == Tail(asked)
<1>1. /\ DOMAIN more = 1..(Len(parts) + 1)
      /\ \A i \in DOMAIN parts : more[i] = parts[i]
      /\ more[Len(parts) + 1] = part
  OBVIOUS
<1>2. \A i \in DOMAIN more : (i \in DOMAIN parts /\ more[i] = parts[i])
                             \/ (i = Len(parts) + 1 /\ more[i] = part)
  BY <1>1
<1>3. /\ \A i \in DOMAIN rest : i \in Nat /\ i > 0 /\ i + 1 \in DOMAIN asked /\ rest[i] = asked[i + 1]
      /\ 1 \in DOMAIN asked /\ Head(asked) = asked[1]
  BY TailParts
<1>4. DOMAIN parts = 1..Len(parts) /\ Len(parts) \in Nat
  OBVIOUS
<1> HIDE DEF more, rest
<1>5. \A i \in DOMAIN rest : low < rest[i] /\ rest[i] <= high /\ part.request < rest[i]
  <2> SUFFICES ASSUME NEW i \in DOMAIN rest
               PROVE  low < rest[i] /\ rest[i] <= high /\ part.request < rest[i]
    OBVIOUS
  <2>1. i + 1 \in DOMAIN asked /\ rest[i] = asked[i + 1] /\ 1 < i + 1 /\ asked[1] = part.request
    BY <1>3
  <2> QED
    BY <1>3, <2>1 DEF OnTheWay
<1>6. low < part.request /\ part.request <= high
  BY <1>3 DEF OnTheWay
<1>7. \A i \in DOMAIN more : more[i].kind = "head" => low < more[i].request /\ more[i].request <= high
  BY <1>2, <1>6 DEF OnTheWay
<1>8. \A i, j \in DOMAIN rest : i < j => rest[i] < rest[j]
  <2> SUFFICES ASSUME NEW i \in DOMAIN rest, NEW j \in DOMAIN rest, i < j PROVE rest[i] < rest[j]
    OBVIOUS
  <2>1. i + 1 < j + 1 /\ i + 1 \in DOMAIN asked /\ j + 1 \in DOMAIN asked
    BY <1>3
  <2> QED
    BY <1>3, <2>1 DEF OnTheWay
<1>9. \A i, j \in DOMAIN more :
         i < j /\ more[i].kind = "head" /\ more[j].kind = "head" => more[i].request < more[j].request
  <2> SUFFICES ASSUME NEW i \in DOMAIN more, NEW j \in DOMAIN more, i < j,
                      more[i].kind = "head", more[j].kind = "head"
               PROVE  more[i].request < more[j].request
    OBVIOUS
  <2>1. i \in DOMAIN parts /\ more[i] = parts[i]
    BY <1>1, <1>2, <1>4
  <2>2. parts[i].request < asked[1]
    BY <1>3, <2>1 DEF OnTheWay
  <2>3. CASE j \in DOMAIN parts
    BY <1>2, <2>1, <2>3, <1>1 DEF OnTheWay
  <2>4. CASE more[j] = part
    BY <2>1, <2>2, <2>4, <1>3
  <2> QED
    BY <1>2, <2>3, <2>4
<1>10. \A i \in DOMAIN more, j \in DOMAIN rest : more[i].kind = "head" => more[i].request < rest[j]
  <2> SUFFICES ASSUME NEW i \in DOMAIN more, NEW j \in DOMAIN rest, more[i].kind = "head"
               PROVE  more[i].request < rest[j]
    OBVIOUS
  <2>1. CASE i \in DOMAIN parts /\ more[i] = parts[i]
    BY <1>3, <2>1 DEF OnTheWay
  <2>2. CASE more[i] = part
    BY <1>5, <2>2
  <2> QED
    BY <1>2, <2>1, <2>2
<1>11. low <= high
  BY DEF OnTheWay
<1>12. OnTheWay(rest, more, low, high)
  BY <1>5, <1>7, <1>8, <1>9, <1>10, <1>11 DEF OnTheWay
<1> QED
  BY <1>12 DEF more, rest

(* The parts of a stream, and the requests of the heads among them.        *)
LEMMA PartsNamed == Named(Heads \cup Bodies)
BY DEF Named, Heads, Bodies

(* Damage keeps the parts in their places, with their requests.            *)
LEMMA DamagedParts ==
    ASSUME NEW parts \in Seq(Heads \cup Bodies)
    PROVE  Damaged(parts) \in Seq(Heads \cup Bodies) /\ Follows(Damaged(parts), parts, 0)
<1> DEFINE P == Heads \cup Bodies
           damaged == Damaged(parts)
<1>1. CASE ~(parts # << >> /\ usable(Head(parts)))
  <2>1. damaged = parts
    BY <1>1 DEF Damaged
  <2> QED
    BY <2>1 DEF Follows
<1>2. CASE parts # << >> /\ usable(Head(parts))
  <2> DEFINE spoilt == [Head(parts) EXCEPT !.framed = FALSE]
  <2>1. damaged = <<spoilt>> \o Tail(parts)
    BY <1>2 DEF Damaged
  <2>2. Head(parts) = parts[1] /\ Head(parts) \in Heads
    BY <1>2, TailParts DEF usable, Bodies, Heads
  <2>3. spoilt \in Heads /\ spoilt.kind = Head(parts).kind /\ spoilt.request = Head(parts).request
    BY <2>2, ZenonT(30) DEF Heads
  <2>4. spoilt \in P
    BY <2>3
  <2> HIDE DEF spoilt, P, damaged
  <2>5. parts \in Seq(P)
    BY DEF P
  <2>6. Tail(parts) \in Seq(P) /\ <<spoilt>> \in Seq(P)
    BY <1>2, <2>4, <2>5, TailParts
  <2>7. Len(parts) \in Nat /\ Len(parts) > 0 /\ Len(Tail(parts)) = Len(parts) - 1
    BY <1>2, <2>5
  <2>8. damaged \in Seq(P) /\ Len(damaged) = Len(parts) /\ damaged[1] = spoilt
    BY <2>1, <2>6, <2>7
  <2>9. ASSUME NEW i \in DOMAIN parts, i # 1
        PROVE  damaged[i] = parts[i]
    <3>1. i \in 2..Len(parts)
      BY <2>5, <2>9
    <3>2. damaged[i] = Tail(parts)[i - 1]
      BY <2>1, <2>6, <2>7, <3>1
    <3>3. Tail(parts)[i - 1] = parts[i]
      BY <1>2, <2>5, <3>1
    <3> QED
      BY <3>2, <3>3
  <2>10. ASSUME NEW i \in DOMAIN damaged
         PROVE  /\ i + 0 \in DOMAIN parts
                /\ damaged[i].kind = parts[i + 0].kind
                /\ damaged[i].kind = "head" => damaged[i].request = parts[i + 0].request
    <3>1. i \in Nat /\ i + 0 = i /\ i \in DOMAIN parts
      BY <2>5, <2>8
    <3> QED
      BY <2>2, <2>3, <2>8, <2>9, <3>1
  <2>11. Follows(damaged, parts, 0)
    BY <2>10 DEF Follows
  <2> QED
    BY <2>8, <2>11 DEF P, damaged
<1> QED
  BY <1>1, <1>2

(* What follows a part of the stream without its first part does so.       *)
LEMMA FollowsTail ==
    ASSUME NEW a, NEW b, NEW c, b \in Seq(Heads \cup Bodies), a \in Seq(Heads \cup Bodies),
           Follows(a, b, 0), Follows(b, c, 1)
    PROVE  Follows(a, c, 1)
<1> SUFFICES ASSUME NEW i \in DOMAIN a
             PROVE  /\ i + 1 \in DOMAIN c
                    /\ a[i].kind = c[i + 1].kind
                    /\ a[i].kind = "head" => a[i].request = c[i + 1].request
  BY DEF Follows
<1>1. i \in Nat /\ i + 0 = i
  OBVIOUS
<1>2. i \in DOMAIN b /\ a[i].kind = b[i].kind /\ (a[i].kind = "head" => a[i].request = b[i].request)
  BY <1>1 DEF Follows
<1> QED
  BY <1>2 DEF Follows

(* The number of the last request answered is a natural number.            *)
LEMMA ReturnedType ==
    ASSUME fetched \in Seq([exchange : Nat, request : Nat])
    PROVE  Returned \in Nat
<1>1. CASE fetched = << >>
  BY <1>1 DEF Returned
<1>2. CASE fetched # << >>
  <2>1. Len(fetched) \in 1..Len(fetched)
    BY <1>2
  <2>2. fetched[Len(fetched)] \in [exchange : Nat, request : Nat]
    <3> DEFINE R == [exchange : Nat, request : Nat]
    <3>1. fetched \in Seq(R)
      OBVIOUS
    <3> HIDE DEF R
    <3>2. fetched[Len(fetched)] \in R
      BY <2>1, <3>1
    <3> QED
      BY <3>2 DEF R
  <2> QED
    BY <1>2, <2>2 DEF Returned
<1> QED
  BY <1>1, <1>2

(* Every step keeps the fetches in step.                                   *)
LEMMA InStepStep ==
    ASSUME SessionInv, [Next]_vars
    PROVE  InStep'
<1> DEFINE P == Heads \cup Bodies
           low == IF pc = "body" THEN headRead.request ELSE Returned
           high == IF pc = "write" THEN n - 1 ELSE n
           clean == IF pc = "head" THEN n - 1 ELSE n
<1>1. /\ requests \in Seq(Nat) /\ stream \in Seq(P) /\ Named(P)
      /\ n \in Nat /\ Returned \in Nat
      /\ owed \in Bodies \cup {NoPart} /\ fetched \in Seq([exchange : Nat, request : Nat])
      /\ abandoned \subseteq 1..n /\ (Exchanging => n \notin abandoned /\ n > 0)
      /\ OnTheWay(requests, stream, low, high)
      /\ abandoned = {} => OnTheWay(requests, stream, clean, n)
      /\ pc = "body" => headRead \in Heads /\ Returned < headRead.request
      /\ pc = "body" /\ abandoned = {} => headRead.request = n
  BY PartsNamed, ReturnedType, ExchangesAssumption DEF SessionInv, TypeOK, InStep, CallPlaced
<1>2. low \in Int /\ high \in Int /\ clean \in Int /\ high <= n
  BY <1>1 DEF Heads
<1>3. headRead \in Heads => headRead.request \in Nat
  BY DEF Heads
<1>4. ASSUME UNCHANGED <<peer, n, requests, owed, stream, headRead, fetched, abandoned>>,
             pc' = pc \/ (pc' \in {"idle", "dial", "verify"} /\ pc \in {"idle", "dial", "verify"})
      PROVE  InStep'
  BY <1>1, <1>4 DEF InStep, Returned, Bodies, Exchanging
<1>5. CASE VerifyStarts \/ DialFails \/ DialUnusable \/ VerifyAccepts \/ VerifyRefuses
  <2>1. /\ UNCHANGED <<peer, n, requests, owed, stream, headRead, fetched, abandoned>>
        /\ pc' \in {"idle", "dial", "verify"} /\ pc \in {"idle", "dial", "verify"}
    BY <1>5 DEF VerifyStarts, DialFails, DialUnusable, VerifyAccepts, VerifyRefuses, VerifyReturns, channel
  <2> QED
    BY <1>4, <2>1
<1>6. CASE \/ DeadlinePasses \/ PeerCloses \/ CallerCloses \/ UNCHANGED vars
           \/ \E i \in Exchanges : ContextEnds(i) \/ WatcherExpires(i) \/ WatcherStops(i)
  <2>1. UNCHANGED <<peer, pc, n, requests, owed, stream, headRead, fetched, abandoned>>
    BY <1>6 DEF DeadlinePasses, PeerCloses, CallerCloses, ContextEnds, WatcherExpires,
                WatcherStops, vars, channel
  <2> QED
    BY <1>4, <2>1
<1>7. CASE Connected \/ FetchAttestationAgain
  <2>1. /\ UNCHANGED <<peer, requests, owed, stream, headRead, fetched, abandoned>>
        /\ pc' = "write" /\ n' = n + 1 /\ pc \in {"idle", "dial"}
    BY <1>7 DEF Connected, FetchAttestationAgain, ExchangeStarts, SessionInv, CallPlaced
  <2>2. Bodies' = Bodies /\ Returned' = Returned /\ n' \in Nat /\ n' - 1 = n
    BY <1>1, <2>1 DEF Bodies, Returned
  <2>3. abandoned' \subseteq 1..n' /\ n' \notin abandoned'
    BY <1>1, <2>1
  <2>4. OnTheWay(requests, stream, Returned, n)
    BY <1>1, <2>1
  <2>5. ASSUME abandoned' = {}
        PROVE  OnTheWay(requests', stream', n', n')
    <3>1. OnTheWay(requests, stream, n, n)
      BY <1>1, <2>1, <2>5
    <3>2. OnTheWay(requests, stream, n', n')
      BY <1>1, <2>2, <3>1, NothingOnTheWay
    <3> QED
      BY <2>1, <3>2
  <2> QED
    BY <1>1, <2>1, <2>2, <2>3, <2>4, <2>5 DEF InStep
<1>8. CASE Write
  <2>1. /\ UNCHANGED <<peer, n, owed, stream, headRead, fetched, abandoned>>
        /\ pc = "write" /\ pc' = "head" /\ requests' = Append(requests, n)
    BY <1>8 DEF Write
  <2>2. Bodies' = Bodies /\ Returned' = Returned /\ requests' \in Seq(Nat) /\ n \notin abandoned
    BY <1>1, <2>1 DEF Bodies, Returned, Exchanging
  <2>3. OnTheWay(Append(requests, n), stream, Returned, n)
    BY <1>1, <2>1, AskedOnTheWay
  <2>4. ASSUME abandoned = {}
        PROVE  OnTheWay(Append(requests, n), stream, n - 1, n)
    <3>1. n - 1 \in Int /\ OnTheWay(requests, stream, n - 1, n - 1)
      BY <1>1, <2>1, <2>4, NothingOnTheWay
    <3> QED
      BY <1>1, <3>1, AskedOnTheWay
  <2> QED
    BY <1>1, <2>1, <2>2, <2>3, <2>4 DEF InStep
<1>9. ASSUME pc' = "idle", UNCHANGED <<peer, n, requests, owed, fetched>>,
             stream' \in Seq(P), NEW c \in {0, 1}, Follows(stream', stream, c),
             abandoned' \in {abandoned, abandoned \cup {n}}, Exchanging,
             pc = "head" => abandoned' # {}
      PROVE  InStep'
  <2>1. Bodies' = Bodies /\ Returned' = Returned
    BY <1>9 DEF Bodies, Returned
  <2>2. OnTheWay(requests, stream', low, high)
    BY <1>1, <1>2, <1>9, RestOnTheWay
  <2>3. OnTheWay(requests, stream', Returned, n)
    BY <1>1, <1>2, <1>3, <1>9, <2>2, WiderBounds
  <2>4. abandoned' \subseteq 1..n
    BY <1>1, <1>9
  <2>5. ASSUME abandoned' = {}
        PROVE  OnTheWay(requests, stream', n, n)
    <3>1. abandoned = {} /\ pc # "head"
      BY <1>9, <2>5
    <3>2. OnTheWay(requests, stream, n, n)
      BY <1>1, <3>1
    <3> QED
      BY <1>1, <1>9, <3>2, RestOnTheWay
  <2> QED
    BY <1>1, <1>9, <2>1, <2>3, <2>4, <2>5 DEF InStep, Exchanging
<1>10. CASE WriteFails
  <2>1. /\ pc' = "idle" /\ UNCHANGED <<peer, n, requests, owed, fetched, stream, abandoned>>
        /\ pc = "write"
    BY <1>10 DEF WriteFails, FetchFails, VerifyReturns
  <2>2. Follows(stream, stream, 0)
    BY <1>1 DEF Follows
  <2> QED
    BY <1>1, <1>9, <2>1, <2>2 DEF Exchanging
<1>11. CASE HeadRefused
  <2>1. /\ pc' = "idle" /\ UNCHANGED <<peer, n, requests, owed, fetched>>
        /\ pc = "head" /\ stream # << >> /\ abandoned' = abandoned \cup {n}
        /\ stream' = stream \/ stream' = Tail(stream) \/ stream' = Damaged(Tail(stream))
    BY <1>11 DEF HeadRefused, FetchFails, VerifyReturns
  <2>2. /\ Follows(stream, stream, 0)
        /\ Tail(stream) \in Seq(P) /\ Follows(Tail(stream), stream, 1)
    BY <1>1, <2>1, TailParts DEF Follows
  <2>3. Damaged(Tail(stream)) \in Seq(P) /\ Follows(Damaged(Tail(stream)), stream, 1)
    BY <2>2, DamagedParts, FollowsTail
  <2>4. CASE stream' = stream
    BY <1>1, <1>9, <2>1, <2>2, <2>4 DEF Exchanging
  <2>5. CASE stream' = Tail(stream)
    BY <1>1, <1>9, <2>1, <2>2, <2>5 DEF Exchanging
  <2>6. CASE stream' = Damaged(Tail(stream))
    BY <1>1, <1>9, <2>1, <2>3, <2>6 DEF Exchanging
  <2> QED
    BY <2>1, <2>4, <2>5, <2>6
<1>12. CASE BodyRefused
  <2>1. /\ pc' = "idle" /\ UNCHANGED <<peer, n, requests, owed, fetched, abandoned>>
        /\ pc = "body" /\ stream' = Tail(stream) /\ stream # << >>
    BY <1>12 DEF BodyRefused, BodyArrived, FetchFails, VerifyReturns
  <2>2. stream' \in Seq(P) /\ Follows(stream', stream, 1)
    BY <1>1, <2>1, TailParts
  <2> QED
    BY <1>1, <1>9, <2>1, <2>2 DEF Exchanging
<1>13. CASE ReadFails
  <2>1. /\ pc' = "idle" /\ UNCHANGED <<peer, n, requests, owed, fetched>>
        /\ pc \in {"head", "body"} /\ stream' \in Remains /\ abandoned' = abandoned \cup {n}
    BY <1>13 DEF ReadFails, FetchFails, VerifyReturns
  <2>2. \/ stream' = stream \/ stream' = Damaged(stream)
        \/ stream # << >> /\ stream' = Tail(stream)
    BY <2>1 DEF Remains
  <2>3. Follows(stream, stream, 0)
    BY <1>1 DEF Follows
  <2>4. Damaged(stream) \in Seq(P) /\ Follows(Damaged(stream), stream, 0)
    BY <1>1, DamagedParts
  <2>5. CASE stream' = stream
    BY <1>1, <1>9, <2>1, <2>3, <2>5 DEF Exchanging
  <2>6. CASE stream' = Damaged(stream)
    BY <1>1, <1>9, <2>1, <2>4, <2>6 DEF Exchanging
  <2>7. CASE stream # << >> /\ stream' = Tail(stream)
    <3>1. stream' \in Seq(P) /\ Follows(stream', stream, 1)
      BY <1>1, <2>7, TailParts
    <3> QED
      BY <1>1, <1>9, <2>1, <3>1 DEF Exchanging
  <2> QED
    BY <2>2, <2>5, <2>6, <2>7
<1>14. CASE HeadAccepted
  <2>1. /\ UNCHANGED <<peer, n, requests, owed, fetched, abandoned>>
        /\ pc = "head" /\ pc' = "body" /\ stream # << >> /\ stream' = Tail(stream)
        /\ headRead' = Head(stream) /\ Head(stream).kind = "head"
    BY <1>14 DEF HeadAccepted, usable
  <2>2. Bodies' = Bodies /\ Returned' = Returned /\ stream' \in Seq(P) /\ Head(stream) \in Heads
    BY <1>1, <2>1, TailParts DEF Bodies, Returned, Heads
  <2>3. /\ Returned < Head(stream).request
        /\ OnTheWay(requests, stream', Head(stream).request, n)
    BY <1>1, <2>1, FirstOnTheWay
  <2>4. ASSUME abandoned = {}
        PROVE  Head(stream).request = n /\ OnTheWay(requests, stream', n, n)
    <3>1. n - 1 \in Int /\ OnTheWay(requests, stream, n - 1, n) /\ Head(stream).request \in Nat
      BY <1>1, <2>1, <2>2, <2>4 DEF Heads
    <3>2. n - 1 < Head(stream).request /\ Head(stream).request <= n
      BY <1>1, <2>1, <3>1, FirstOnTheWay
    <3> QED
      BY <1>1, <2>3, <3>1, <3>2
  <2> QED
    BY <1>1, <2>1, <2>2, <2>3, <2>4 DEF InStep, Exchanging
<1>15. CASE BodyAccepted
  <2> DEFINE new == [exchange |-> n, request |-> headRead.request]
  <2>1. /\ UNCHANGED <<peer, n, requests, owed, abandoned>>
        /\ pc = "body" /\ pc' \in {"verify", "idle"} /\ stream # << >> /\ stream' = Tail(stream)
        /\ fetched' = Append(fetched, new)
    BY <1>15 DEF BodyAccepted, BodyArrived
  <2>2. new \in [exchange : Nat, request : Nat]
    BY <1>1, <1>3, <2>1
  <2>3. fetched' \in Seq([exchange : Nat, request : Nat]) /\ Returned' = headRead.request
    <3> DEFINE R == [exchange : Nat, request : Nat]
    <3>1. new.request = headRead.request /\ new \in R /\ fetched \in Seq(R)
      BY <1>1, <2>2
    <3> HIDE DEF new, R
    <3>2. /\ fetched' \in Seq(R) /\ fetched' # << >> /\ fetched'[Len(fetched')] = new
      BY <2>1, <3>1
    <3> QED
      BY <3>1, <3>2 DEF Returned, R
  <2>4. Bodies' = Bodies /\ stream' \in Seq(P) /\ Follows(stream', stream, 1)
    BY <1>1, <2>1, TailParts DEF Bodies
  <2>5. 1 \in {0, 1} /\ headRead.request \in Int
    BY <1>1, <1>3, <2>1
  <2>6. OnTheWay(requests, stream', headRead.request, n)
    <3>1. OnTheWay(requests, stream, headRead.request, n)
      BY <1>1, <2>1
    <3> HIDE DEF P
    <3> QED
      BY <1>1, <2>4, <2>5, <3>1, RestOnTheWay
  <2>7. ASSUME abandoned = {}
        PROVE  OnTheWay(requests, stream', n, n)
    <3>1. OnTheWay(requests, stream, n, n)
      BY <1>1, <2>1, <2>7
    <3> HIDE DEF P
    <3> QED
      BY <1>1, <2>4, <2>5, <3>1, RestOnTheWay
  <2> QED
    BY <1>1, <2>1, <2>3, <2>4, <2>6, <2>7 DEF InStep, Exchanging
<1>16. CASE PeerSendsHead
  <2>1. PICK h, d : /\ h \in Heads /\ h.kind = "head" /\ h.request = Head(requests)
                    /\ d \in Documents(peer) \cup {NoDocument}
                    /\ stream' = Append(stream, h) /\ owed' = [kind |-> "body", document |-> d]
    <3>1. requests # << >> /\ Head(requests) \in Nat
      BY <1>1, <1>16 DEF PeerSendsHead
    <3> QED
      BY <1>16, <3>1 DEF PeerSendsHead, Heads
  <2>2. /\ UNCHANGED <<peer, pc, n, headRead, fetched, abandoned>>
        /\ requests # << >> /\ requests' = Tail(requests)
    BY <1>16 DEF PeerSendsHead
  <2>3. /\ Bodies' = Bodies /\ Returned' = Returned /\ stream' \in Seq(P)
        /\ requests' \in Seq(Nat) /\ owed' \in Bodies
    <3>1. h \in P
      BY <2>1
    <3> HIDE DEF P
    <3>2. stream' \in Seq(P) /\ requests' \in Seq(Nat)
      BY <1>1, <2>1, <2>2, <3>1
    <3> QED
      BY <2>1, <2>2, <3>2 DEF Bodies, Returned
  <2>4. OnTheWay(requests', stream', low, high)
    BY <1>1, <1>2, <2>1, <2>2, AnsweredOnTheWay
  <2>5. abandoned = {} => OnTheWay(requests', stream', clean, n)
    BY <1>1, <1>2, <2>1, <2>2, AnsweredOnTheWay
  <2> QED
    BY <1>1, <2>2, <2>3, <2>4, <2>5 DEF InStep, Exchanging
<1>17. CASE PeerSendsBody
  <2>1. /\ UNCHANGED <<peer, pc, n, requests, headRead, fetched, abandoned>>
        /\ owed # NoPart /\ stream' = Append(stream, owed) /\ owed' = NoPart
    BY <1>17 DEF PeerSendsBody, NoPart
  <2>2. owed \in Bodies /\ owed \in P /\ owed.kind = "body"
    BY <1>1, <2>1 DEF Bodies
  <2>3. Bodies' = Bodies /\ Returned' = Returned /\ stream' \in Seq(P)
    <3> HIDE DEF P
    <3>1. stream' \in Seq(P)
      BY <1>1, <2>1, <2>2
    <3> QED
      BY <2>1, <3>1 DEF Bodies, Returned
  <2>4. OnTheWay(requests', stream', low, high)
    BY <1>1, <1>2, <2>1, <2>2, BodyOnTheWay
  <2>5. abandoned = {} => OnTheWay(requests', stream', clean, n)
    BY <1>1, <1>2, <2>1, <2>2, BodyOnTheWay
  <2> QED
    BY <1>1, <2>1, <2>3, <2>4, <2>5 DEF InStep, Exchanging, NoPart
<1> QED
  BY <1>5, <1>6, <1>7, <1>8, <1>10, <1>11, <1>12, <1>13, <1>14, <1>15, <1>16, <1>17 DEF Next, Steps

-----------------------------------------------------------------------------
(* SessionInv is inductive.                                                *)
THEOREM SessionCorrect == Spec => []SessionInv
<1>1. Init => SessionInv
  BY ExchangesAssumption
  DEF Init, SessionInv, TypeOK, CallPlaced, DeadlinePlaced, FirstExchange, Exchanging, Exchanges,
      InStep, OnTheWay, Returned
<1>2. SessionInv /\ [Next]_vars => SessionInv'
  BY TypeStep, PlaceStep, DeadlineStep, ExchangeStep, InStepStep DEF SessionInv
<1> QED
  BY <1>1, <1>2, PTL DEF Spec

(* A refused VerifyGatewaySession leaves no connection open.               *)
THEOREM RefusalCloses == Spec => []RefusedLeavesNothingOpen
<1>1. SessionInv => RefusedLeavesNothingOpen
  BY DEF SessionInv, CallPlaced, RefusedLeavesNothingOpen
<1> QED
  BY <1>1, SessionCorrect, PTL

(* Between calls the pinned connection has no deadline, but for one that   *)
(* the watcher of an ended context has set.                                *)
THEOREM HandedOverWithoutDeadline == Spec => []IdleWithoutDeadline
<1>1. SessionInv => IdleWithoutDeadline
  BY DEF SessionInv, DeadlinePlaced, IdleWithoutDeadline, Exchanging
<1> QED
  BY <1>1, SessionCorrect, PTL

(* The relay closure: a session is granted only on a connection that the   *)
(* enclave terminates, for a document that answers this call's nonce and   *)
(* names an image of the policy.                                           *)
THEOREM OnlyTheEnclaveIsGranted == Spec => []GrantedByEnclave
<1>1. SessionInv => GrantedByEnclave
  <2> SUFFICES ASSUME SessionInv, session = "granted"
               PROVE  /\ peer = "enclave"
                      /\ MyNonce \in nonceList(evidence.claims)
                      /\ Policy.digests # {} => evidence.claims.digest \in Policy.digests
    BY DEF GrantedByEnclave
  <2>1. evidence \in Documents(peer) /\ Verified /\ peer \in {"enclave", "relay"}
    BY DEF SessionInv, FirstExchange, TypeOK
  <2>2. /\ verifiedAttestationJWTClaims(evidence, JWKS)
        /\ imageAccepted(evidence.claims, Policy)
        /\ channelBound(evidence.claims, MyNonce, MyExporter)
    BY <2>1 DEF Verified, VerifyGatewayAttestation, liveChannelAccepted
  <2>3. MyNonce # NoHex /\ MyExporter # NoHex
    BY DEF MyNonce, MyExporter, NoHex, Hex
  <2>4. MyNonce \in nonceList(evidence.claims) /\ MyExporter \in nonceList(evidence.claims)
    BY <2>2, <2>3 DEF channelBound
  <2>5. peer # "relay"
    BY <2>1, <2>2, <2>4, RelayAssumption
  <2>6. Policy.digests # {} => evidence.claims.digest \in Policy.digests
    BY <2>2 DEF imageAccepted, accepted, containsSafeString
  <2> QED
    BY <2>1, <2>4, <2>5, <2>6
<1> QED
  BY <1>1, SessionCorrect, PTL

(* The retained reader keeps the stream in step: fetches return answers in *)
(* the order of their requests, none twice, each its own unless an earlier *)
(* exchange failed with its request sent.                                  *)
THEOREM FetchesStayInStep == Spec => []FetchesInStep
<1> DEFINE R == [exchange : Nat, request : Nat]
<1>1. Init => FetchesInStep
  BY DEF Init, FetchesInStep
<1>2. ASSUME SessionInv, FetchesInStep, [Next]_vars
      PROVE  FetchesInStep'
  <2>1. fetched \in Seq(R) /\ n \in Nat /\ abandoned \subseteq 1..n
    BY <1>2 DEF SessionInv, TypeOK, InStep
  <2>2. CASE BodyAccepted
    <3> DEFINE new == [exchange |-> n, request |-> headRead.request]
               m == Len(fetched) + 1
    <3>1. pc = "body" /\ fetched' = Append(fetched, new) /\ abandoned' = abandoned
      BY <2>2 DEF BodyAccepted, BodyArrived
    <3>2. /\ headRead.request \in Nat /\ Returned < headRead.request /\ headRead.request <= n
          /\ n \notin abandoned /\ (abandoned = {} => headRead.request = n)
      BY <1>2, <3>1 DEF SessionInv, InStep, OnTheWay, Exchanging, Heads
    <3>3. new \in R /\ new.exchange = n /\ new.request = headRead.request
      BY <2>1, <3>2
    <3> HIDE DEF R, new
    <3>4. /\ DOMAIN fetched' = 1..m /\ fetched'[m] = new /\ Len(fetched) \in Nat
          /\ \A i \in 1..Len(fetched) : fetched'[i] = fetched[i]
          /\ DOMAIN fetched = 1..Len(fetched)
      BY <2>1, <3>1, <3>3
    <3>5. new.request = n \/ \E a \in abandoned : a < n
      BY <2>1, <3>2, <3>3
    <3>6. ASSUME m > 1
          PROVE  fetched'[m - 1].request < new.request
      <4>1. m - 1 = Len(fetched) /\ Len(fetched) \in 1..Len(fetched) /\ fetched # << >>
        BY <2>1, <3>4, <3>6
      <4> QED
        BY <3>2, <3>3, <3>4, <4>1 DEF Returned
    <3> SUFFICES ASSUME NEW i \in 1..m
                 PROVE  /\ fetched'[i].request <= fetched'[i].exchange
                        /\ i > 1 => fetched'[i - 1].request < fetched'[i].request
                        /\ fetched'[i].request = fetched'[i].exchange
                              \/ \E a \in abandoned : a < fetched'[i].exchange
      BY <3>1, <3>4 DEF FetchesInStep
    <3>7. CASE i = m
      BY <3>2, <3>3, <3>4, <3>5, <3>6, <3>7
    <3>8. CASE i # m
      <4>1. i \in 1..Len(fetched) /\ (i > 1 => i - 1 \in 1..Len(fetched))
        BY <3>4, <3>8
      <4>2. fetched'[i] = fetched[i] /\ (i > 1 => fetched'[i - 1] = fetched[i - 1])
        BY <3>4, <4>1
      <4> QED
        BY <1>2, <3>4, <4>1, <4>2 DEF FetchesInStep
    <3> QED
      BY <3>7, <3>8
  <2>3. CASE ~BodyAccepted
    <3>1. fetched' = fetched /\ abandoned \subseteq abandoned'
      BY <1>2, <2>3
      DEF Next, Steps, VerifyStarts, FetchAttestationAgain, DialFails, DialUnusable, Connected,
          Write, WriteFails, ReadFails, HeadRefused, HeadAccepted, BodyRefused, VerifyAccepts,
          VerifyRefuses, DeadlinePasses, PeerSendsHead, PeerSendsBody, PeerCloses, CallerCloses,
          ContextEnds, WatcherExpires, WatcherStops, FetchFails, vars
    <3> QED
      BY <1>2, <3>1 DEF FetchesInStep
  <2> QED
    BY <2>2, <2>3
<1> QED
  BY <1>1, <1>2, SessionCorrect, PTL DEF Spec
=============================================================================
