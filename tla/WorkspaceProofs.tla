-------------------------- MODULE WorkspaceProofs --------------------------
(***************************************************************************)
(* The control plane, for any callers, estates, mapping profile and number *)
(* of sessions and calls: locks are handed on in order, artefacts of a     *)
(* session belong together, the cached extract is current, and only plans  *)
(* that were previewed are written.                                        *)
(*                                                                         *)
(* Three things make these inductive.  A lock's line is exactly the        *)
(* requests on its session, each once.  Receipts, of sessions and of       *)
(* requests that may have outlived what they read, are of plans previewed  *)
(* on the session.  And identifiers and contents are paid for by calls:    *)
(* a request that waits has two identifiers still to draw, one that is not *)
(* answered has one change of its platform still to make.                  *)
(***************************************************************************)
EXTENDS Workspace, FiniteSetTheorems, TLAPS

Live == {c \in Client : request[c] # None}
Waiting == {c \in Live : ~request[c].inside}

\* The line of a session's lock.
Lines ==
    \A s \in Session :
        /\ IsInjective(queue[s])
        /\ \A i \in DOMAIN queue[s] :
               request[queue[s][i]] # None /\ request[queue[s][i]].on = s

\* What a request was let in with.
Sound(q) ==
    /\ q.kind \in {"dry_run", "execute", "rollback"} => q.plan # None
    /\ q.kind = "validate" => q.source # None
    /\ q.kind = "execute" /\ q.inside => q.run # None
    /\ q.receipt \in previewed[q.on] \cup {None}

Receipts == \A s \in Session : session[s].receipt \in previewed[s] \cup {None}

Accounts ==
    /\ IsFiniteSet(Live)
    /\ \A s \in Session : /\ session[s].sequence + 2 * Cardinality(Waiting) <= 2 * calls
                          /\ target[s] + Cardinality(Live) <= calls

Inv ==
    /\ TypeOK
    /\ Lines
    /\ \A c \in Live : Sound(request[c])
    /\ Receipts
    /\ Accounts
    /\ DownstreamIsFresh
    /\ CacheIsCurrent

-----------------------------------------------------------------------------
(* The lock of a session.  It is a client's turn when the lock is free and *)
(* it arrives, or when it is the first in line.                            *)

Turn(c, s) ==
    \/ request[c] = None /\ queue[s] = <<>>
    \/ request[c] # None /\ request[c].on = s /\ Head(queue[s]) = c

InLine(c) ==
    request[c] # None =>
        /\ c \in Range(queue[request[c].on])
        /\ request[c].inside => Head(queue[request[c].on]) = c

LEMMA LineLemma ==
  ASSUME TypeOK, Lines, NEW c \in Client, NEW s \in Session, Turn(c, s)
  PROVE  /\ Line(c, s) \in Seq(Client) /\ Line(c, s) # <<>>
         /\ Head(Line(c, s)) = c
         /\ IsInjective(Line(c, s))
         /\ Range(Line(c, s)) = Range(queue[s]) \cup {c}
         /\ Tail(Line(c, s)) \in Seq(Client)
         /\ IsInjective(Tail(Line(c, s)))
         /\ Range(Tail(Line(c, s))) = Range(queue[s]) \ {c}
<1>. DEFINE l == Line(c, s)  t == Tail(l)
<1>1. queue[s] \in Seq(Client) /\ IsInjective(queue[s])
  BY DEF TypeOK, Lines
<1>2. l \in Seq(Client) /\ l # <<>> /\ Head(l) = c /\ IsInjective(l)
      /\ Range(l) = Range(queue[s]) \cup {c}
  <2>1. CASE request[c] = None
    <3>1. l = <<c>> /\ queue[s] = <<>>
      BY <2>1 DEF Turn, Line
    <3>2. Range(<<c>>) = {c} /\ Range(<<>>) = {}
      BY DEF Range
    <3>3. IsInjective(<<c>>)
      BY DEF IsInjective
    <3>. QED  BY <3>1, <3>2, <3>3
  <2>2. CASE request[c] # None
    <3>1. /\ l = queue[s] /\ Head(queue[s]) = c
          /\ c \in Range(queue[s])
      BY <2>2 DEF Turn, Line, TypeOK
    <3>2. queue[s] # <<>>
      BY <3>1 DEF Range
    <3>. QED  BY <1>1, <3>1, <3>2
  <2>. QED  BY <2>1, <2>2
<1>. HIDE DEF l
<1>3. /\ t \in Seq(Client)
      /\ DOMAIN l = 1..Len(l) /\ Len(l) \in Nat \ {0}
      /\ DOMAIN t = 1..(Len(l) - 1)
      /\ \A i \in 1..(Len(l) - 1) : t[i] = l[i + 1]
      /\ l[1] = c
  BY <1>2
<1>4. IsInjective(t)
  <2>. SUFFICES ASSUME NEW i \in DOMAIN t, NEW j \in DOMAIN t, t[i] = t[j]
                PROVE  i = j
    BY DEF IsInjective
  <2>1. i + 1 \in DOMAIN l /\ j + 1 \in DOMAIN l /\ l[i + 1] = l[j + 1]
    BY <1>3
  <2>2. i + 1 = j + 1
    BY <1>2, <2>1 DEF IsInjective
  <2>. QED  BY <1>3, <2>2
<1>5. Range(t) = Range(l) \ {c}
  <2>1. ASSUME NEW d \in Range(t)
        PROVE  d \in Range(l) \ {c}
    <3>. PICK i \in 1..(Len(l) - 1) : d = l[i + 1]
      BY <1>3 DEF Range
    <3>1. 1 \in DOMAIN l /\ i + 1 \in DOMAIN l /\ i + 1 # 1
      BY <1>3
    <3>2. l[i + 1] # l[1]
      BY <1>2, <3>1 DEF IsInjective
    <3>. QED  BY <1>3, <3>1, <3>2 DEF Range
  <2>2. ASSUME NEW d \in Range(l) \ {c}
        PROVE  d \in Range(t)
    <3>. PICK i \in DOMAIN l : d = l[i]
      BY DEF Range
    <3>1. i - 1 \in DOMAIN t /\ t[i - 1] = l[i]
      BY <1>3
    <3>. QED  BY <3>1 DEF Range
  <2>. QED  BY <2>1, <2>2
<1>. QED  BY <1>2, <1>3, <1>4, <1>5 DEF l

\* What leaves, enters or moves up changes one line and one request.
LEMMA LockLemma ==
  ASSUME TypeOK, Lines, NEW c \in Client, NEW s \in Session,
         NEW r \in Request \cup {None}, NEW l \in Seq(Client),
         request[c] # None => request[c].on = s,
         request' = [request EXCEPT ![c] = r], queue' = [queue EXCEPT ![s] = l],
         r # None => r.on = s,
         IsInjective(l),
         \A d \in Client \ {c} : d \in Range(l) <=> d \in Range(queue[s]),
         c \in Range(l) <=> r # None,
         \A d \in Client \ {c} : d \in Range(queue[s]) /\ Head(queue[s]) = d => Head(l) = d,
         r # None /\ r.inside => Head(l) = c
  PROVE  /\ queue' \in [Session -> Seq(Client)]
         /\ request' \in [Client -> Request \cup {None}]
         /\ request'[c] = r /\ \A d \in Client \ {c} : request'[d] = request[d]
         /\ \A d \in Client : InLine(d)'
         /\ Lines'
         /\ Live' = IF r = None THEN Live \ {c} ELSE Live \cup {c}
         /\ Waiting' = IF r # None /\ ~r.inside THEN Waiting \cup {c} ELSE Waiting \ {c}
<1>1. /\ queue' \in [Session -> Seq(Client)]
      /\ request' \in [Client -> Request \cup {None}]
      /\ request'[c] = r /\ \A d \in Client \ {c} : request'[d] = request[d]
      /\ queue'[s] = l /\ \A x \in Session \ {s} : queue'[x] = queue[x]
  BY DEF TypeOK
<1>2. ASSUME NEW d \in Client
      PROVE  InLine(d)'
  <2>. SUFFICES ASSUME request'[d] # None
                PROVE  /\ d \in Range(queue'[request'[d].on])
                       /\ request'[d].inside => Head(queue'[request'[d].on]) = d
    BY DEF InLine
  <2>1. CASE d = c
    BY <1>1, <2>1
  <2>2. CASE d # c
    <3>1. /\ request[d] # None /\ request'[d] = request[d] /\ request[d].on \in Session
          /\ d \in Range(queue[request[d].on])
          /\ request[d].inside => Head(queue[request[d].on]) = d
      BY <1>1, <2>2 DEF TypeOK, Request
    <3>2. CASE request[d].on = s
      BY <1>1, <2>2, <3>1, <3>2
    <3>3. CASE request[d].on # s
      BY <1>1, <3>1, <3>3
    <3>. QED  BY <3>2, <3>3
  <2>. QED  BY <2>1, <2>2
<1>3. Lines'
  <2>. SUFFICES ASSUME NEW x \in Session
                PROVE  /\ IsInjective(queue'[x])
                       /\ \A i \in DOMAIN queue'[x] :
                              /\ request'[queue'[x][i]] # None
                              /\ request'[queue'[x][i]].on = x
    BY DEF Lines
  <2>1. IsInjective(queue'[x])
    BY <1>1 DEF Lines
  <2>2. ASSUME NEW i \in DOMAIN queue'[x]
        PROVE  request'[queue'[x][i]] # None /\ request'[queue'[x][i]].on = x
    <3>. DEFINE d == queue'[x][i]
    <3>1. d \in Range(queue'[x]) /\ d \in Client
      BY <1>1 DEF Range
    <3>2. \A y \in Session : \A e \in Range(queue[y]) : request[e] # None /\ request[e].on = y
      BY DEF Lines, Range
    <3>3. CASE x = s
      BY <1>1, <3>1, <3>2, <3>3
    <3>4. CASE x # s
      BY <1>1, <3>1, <3>2, <3>4
    <3>. QED  BY <3>3, <3>4
  <2>. QED  BY <2>1, <2>2
<1>4. Live' = IF r = None THEN Live \ {c} ELSE Live \cup {c}
  BY <1>1 DEF Live
<1>5. Waiting' = IF r # None /\ ~r.inside THEN Waiting \cup {c} ELSE Waiting \ {c}
  BY <1>1 DEF Waiting, Live
<1>. QED  BY <1>1, <1>2, <1>3, <1>4, <1>5

LEMMA TypesLemma ==
  ASSUME Inv
  PROVE  /\ \A d \in Client : InLine(d)
         /\ \A d \in Client : request[d] # None => request[d] \in Request
         /\ \A s \in Session : session[s] \in EstateSession
         /\ current \in Session
  BY DEF Inv, TypeOK, InLine

\* The handler goes inside.
LEMMA HoldLemma ==
  ASSUME Inv, NEW c \in Client, NEW q \in Request, Turn(c, q.on), Hold(c, q)
  PROVE  /\ queue' \in [Session -> Seq(Client)]
         /\ request' \in [Client -> Request \cup {None}]
         /\ request'[c] = [q EXCEPT !.inside = TRUE] /\ request'[c] # None
         /\ \A d \in Client \ {c} : request'[d] = request[d]
         /\ \A d \in Client : InLine(d)'
         /\ Lines'
         /\ Live' = Live \cup {c} /\ Waiting' = Waiting \ {c}
<1>. DEFINE r == [q EXCEPT !.inside = TRUE]  s == q.on  l == Line(c, s)
<1>1. /\ r \in Request /\ r.inside /\ r.on = s /\ s \in Session
      /\ r # None
  BY NoneIsNoRecord DEF Request
<1>2. l \in Seq(Client) /\ IsInjective(l) /\ Head(l) = c /\ Range(l) = Range(queue[s]) \cup {c}
  BY <1>1, LineLemma DEF Inv
<1>3. \A d \in Client \ {c} : d \in Range(queue[s]) /\ Head(queue[s]) = d => Head(l) = d
  BY DEF Turn, Range
<1>4. request' = [request EXCEPT ![c] = r] /\ queue' = [queue EXCEPT ![s] = l]
  BY DEF Hold
<1>5. request[c] # None => request[c].on = s
  BY DEF Turn
<1>. HIDE DEF r, s, l
<1>6. /\ \A d \in Client \ {c} : d \in Range(l) <=> d \in Range(queue[s])
      /\ c \in Range(l)
  BY <1>2
<1>7. TypeOK /\ Lines
  BY DEF Inv
<1>8. /\ TypeOK /\ Lines
      /\ r \in Request \cup {None} /\ l \in Seq(Client) /\ s \in Session
      /\ request[c] # None => request[c].on = s
      /\ request' = [request EXCEPT ![c] = r] /\ queue' = [queue EXCEPT ![s] = l]
      /\ r # None => r.on = s
      /\ IsInjective(l)
      /\ \A d \in Client \ {c} : d \in Range(l) <=> d \in Range(queue[s])
      /\ c \in Range(l) <=> r # None
      /\ \A d \in Client \ {c} : d \in Range(queue[s]) /\ Head(queue[s]) = d => Head(l) = d
      /\ r # None /\ r.inside => Head(l) = c
  BY <1>1, <1>2, <1>3, <1>4, <1>5, <1>6, <1>7
<1>9. /\ queue' \in [Session -> Seq(Client)]
      /\ request' \in [Client -> Request \cup {None}]
      /\ request'[c] = r /\ \A d \in Client \ {c} : request'[d] = request[d]
      /\ \A d \in Client : InLine(d)'
      /\ Lines'
  BY <1>8, LockLemma
<1>10. Live' = Live \cup {c} /\ Waiting' = Waiting \ {c}
  BY <1>1, <1>8, LockLemma
<1>. QED  BY <1>1, <1>9, <1>10 DEF r

\* The handler leaves the locked block; the next in line gets the lock.
LEMMA LeaveLemma ==
  ASSUME Inv, NEW c \in Client, NEW s \in Session, Turn(c, s),
         Leave(c, s) \/ LeaveRaising(c, s)
  PROVE  /\ queue' \in [Session -> Seq(Client)]
         /\ request' \in [Client -> Request \cup {None}]
         /\ request'[c] = None
         /\ \A d \in Client \ {c} : request'[d] = request[d]
         /\ \A d \in Client : InLine(d)'
         /\ Lines'
         /\ Live' = Live \ {c} /\ Waiting' = Waiting \ {c}
<1>. DEFINE t == Tail(Line(c, s))
<1>1. t \in Seq(Client) /\ IsInjective(t) /\ Range(t) = Range(queue[s]) \ {c}
  BY LineLemma DEF Inv
<1>2. \A d \in Client \ {c} : d \in Range(queue[s]) /\ Head(queue[s]) = d => FALSE
  BY DEF Turn, Range
<1>3. request' = [request EXCEPT ![c] = None] /\ queue' = [queue EXCEPT ![s] = t]
  BY DEF Leave, LeaveRaising
<1>4. request[c] # None => request[c].on = s
  BY DEF Turn
<1>. HIDE DEF t
<1>. QED  BY <1>1, <1>2, <1>3, <1>4, LockLemma DEF Inv

\* The handler waits at the end of the line.
LEMMA WaitLemma ==
  ASSUME Inv, NEW c \in Client, NEW q \in Request, request[c] = None, ~q.inside,
         queue[q.on] # <<>>,
         queue' = [queue EXCEPT ![q.on] = Append(@, c)],
         request' = [request EXCEPT ![c] = q]
  PROVE  /\ queue' \in [Session -> Seq(Client)]
         /\ request' \in [Client -> Request \cup {None}]
         /\ request'[c] = q /\ request'[c] # None
         /\ \A d \in Client \ {c} : request'[d] = request[d]
         /\ \A d \in Client : InLine(d)'
         /\ Lines'
         /\ Live' = Live \cup {c} /\ Waiting' = Waiting \cup {c}
<1>. DEFINE s == q.on  k == queue[s]  l == Append(k, c)
<1>1. /\ s \in Session /\ q # None /\ k \in Seq(Client) /\ k # <<>>
      /\ IsInjective(k)
  BY NoneIsNoRecord DEF Inv, TypeOK, Lines, Request
<1>2. c \notin Range(k)
  BY <1>1 DEF Inv, Lines, Range
<1>. HIDE DEF k
<1>3. /\ l \in Seq(Client)
      /\ DOMAIN k = 1..Len(k) /\ Len(k) \in Nat \ {0}
      /\ DOMAIN l = 1..(Len(k) + 1)
      /\ \A i \in 1..Len(k) : l[i] = k[i]
      /\ l[Len(k) + 1] = c
      /\ Head(l) = l[1] /\ Head(k) = k[1]
  BY <1>1
<1>4. IsInjective(l)
  <2>. SUFFICES ASSUME NEW i \in DOMAIN l, NEW j \in DOMAIN l, l[i] = l[j]
                PROVE  i = j
    BY DEF IsInjective
  <2>1. CASE i \in DOMAIN k /\ j \in DOMAIN k
    BY <1>1, <1>3, <2>1 DEF IsInjective
  <2>2. CASE ~(i \in DOMAIN k /\ j \in DOMAIN k)
    BY <1>2, <1>3, <2>2 DEF Range
  <2>. QED  BY <2>1, <2>2
<1>5. Range(l) = Range(k) \cup {c}
  BY <1>3 DEF Range
<1>6. Head(l) = Head(k)
  BY <1>3
<1>. HIDE DEF s, l
<1>7. request' = [request EXCEPT ![c] = q] /\ queue' = [queue EXCEPT ![s] = l]
  BY DEF l, k, s
<1>8. /\ \A d \in Client \ {c} : d \in Range(l) <=> d \in Range(queue[s])
      /\ c \in Range(l) /\ Head(l) = Head(queue[s])
      /\ q.on = s
  BY <1>5, <1>6 DEF k, s
<1>9. TypeOK /\ Lines
  BY DEF Inv
<1>10. /\ q \in Request \cup {None} /\ l \in Seq(Client) /\ s \in Session
       /\ request[c] # None => request[c].on = s
       /\ q # None => q.on = s
       /\ IsInjective(l)
       /\ \A d \in Client \ {c} : d \in Range(l) <=> d \in Range(queue[s])
       /\ c \in Range(l) <=> q # None
       /\ \A d \in Client \ {c} : d \in Range(queue[s]) /\ Head(queue[s]) = d => Head(l) = d
       /\ q # None /\ q.inside => Head(l) = c
  BY <1>1, <1>3, <1>4, <1>8
<1>11. /\ queue' \in [Session -> Seq(Client)]
       /\ request' \in [Client -> Request \cup {None}]
       /\ request'[c] = q /\ \A d \in Client \ {c} : request'[d] = request[d]
       /\ \A d \in Client : InLine(d)'
       /\ Lines'
  BY <1>7, <1>9, <1>10, LockLemma
<1>12. Live' = Live \cup {c} /\ Waiting' = Waiting \cup {c}
  BY <1>1, <1>7, <1>9, <1>10, LockLemma
<1>. QED  BY <1>1, <1>11, <1>12

-----------------------------------------------------------------------------
(* Counting requests.                                                      *)

LEMMA CountLemma ==
  ASSUME Inv, NEW c \in Client
  PROVE  /\ IsFiniteSet(Live) /\ Cardinality(Live) \in Nat /\ Cardinality(Waiting) \in Nat
         /\ IsFiniteSet(Live \cup {c}) /\ IsFiniteSet(Live \ {c})
         /\ Cardinality(Live \cup {c}) = Cardinality(Live) + (IF c \in Live THEN 0 ELSE 1)
         /\ Cardinality(Live \ {c}) = Cardinality(Live) - (IF c \in Live THEN 1 ELSE 0)
         /\ Cardinality(Waiting \cup {c}) = Cardinality(Waiting) + (IF c \in Waiting THEN 0 ELSE 1)
         /\ Cardinality(Waiting \ {c}) = Cardinality(Waiting) - (IF c \in Waiting THEN 1 ELSE 0)
<1>1. IsFiniteSet(Live)
  BY DEF Inv, Accounts
<1>2. IsFiniteSet(Waiting)
  BY <1>1, FS_Subset DEF Waiting
<1>3. Cardinality(Live) \in Nat /\ Cardinality(Waiting) \in Nat
  BY <1>1, <1>2, FS_CardinalityType
<1>4. /\ IsFiniteSet(Live \cup {c})
      /\ Cardinality(Live \cup {c}) = Cardinality(Live) + (IF c \in Live THEN 0 ELSE 1)
      /\ Cardinality(Waiting \cup {c}) = Cardinality(Waiting) + (IF c \in Waiting THEN 0 ELSE 1)
  <2>1. c \in Live => Live \cup {c} = Live
    OBVIOUS
  <2>2. c \in Waiting => Waiting \cup {c} = Waiting
    OBVIOUS
  <2>3. c \notin Live => /\ IsFiniteSet(Live \cup {c})
                          /\ Cardinality(Live \cup {c}) = Cardinality(Live) + 1
    BY <1>1, FS_AddElement
  <2>4. c \notin Waiting => Cardinality(Waiting \cup {c}) = Cardinality(Waiting) + 1
    BY <1>2, FS_AddElement
  <2>5. CASE c \in Live
    BY <1>1, <1>3, <2>1, <2>2, <2>4, <2>5
  <2>6. CASE c \notin Live
    <3>1. c \notin Waiting
      BY <2>6 DEF Waiting
    <3>. QED  BY <1>3, <2>3, <2>4, <2>6, <3>1
  <2>. QED  BY <2>5, <2>6
<1>5. /\ IsFiniteSet(Live \ {c})
      /\ Cardinality(Live \ {c}) = Cardinality(Live) - (IF c \in Live THEN 1 ELSE 0)
      /\ Cardinality(Waiting \ {c}) = Cardinality(Waiting) - (IF c \in Waiting THEN 1 ELSE 0)
  BY <1>1, <1>2, <1>3, FS_RemoveElement
<1>. QED  BY <1>1, <1>3, <1>4, <1>5

\* What is drawn and written so far has been paid for.
LEMMA PaidLemma ==
  ASSUME Inv
  PROVE  /\ Cardinality(Live) \in Nat /\ Cardinality(Waiting) \in Nat
         /\ calls \in Nat /\ calls <= MaxCalls
         /\ \A s \in Session :
              /\ session[s].sequence \in Nat /\ target[s] \in Nat
              /\ session[s].sequence + 2 * Cardinality(Waiting) <= 2 * calls
              /\ target[s] + Cardinality(Live) <= calls
<1>1. IsFiniteSet(Live) /\ IsFiniteSet(Waiting)
  BY FS_Subset DEF Inv, Accounts, Waiting
<1>2. Cardinality(Live) \in Nat /\ Cardinality(Waiting) \in Nat
  BY <1>1, FS_CardinalityType
<1>3. \A s \in Session : session[s].sequence \in Nat /\ target[s] \in Nat
  BY WorkspaceAssumption DEF Inv, TypeOK, EstateSession, Content
<1>. QED  BY <1>2, <1>3, WorkspaceAssumption DEF Inv, TypeOK, Accounts

-----------------------------------------------------------------------------
(* A step is settled by the locks, what it makes of the sessions, and what *)
(* the requests it touches carry afterwards.                               *)

FreshSession(x) ==
    /\ x.assessment \in {None, x.snapshot}
    /\ x.transform # None => x.snapshot # None /\ x.transform = Profile[x.snapshot]
    /\ x.plan # None => x.plan.of = Effective(x)

LEMMA StepLemma ==
  ASSUME Inv, NEW D \in SUBSET Client,
         queue' \in [Session -> Seq(Client)],
         request' \in [Client -> Request \cup {None}],
         \A d \in Client : InLine(d)', Lines',
         \A d \in Client \ D : request'[d] = request[d],
         \A d \in D : request'[d] # None => Sound(request[d])',
         \A s \in Session : previewed[s] \subseteq previewed'[s],
         previewed' \in [Session -> SUBSET Version],
         session' \in [Session -> EstateSession],
         \A s \in Session : /\ FreshSession(session'[s])
                            /\ session'[s].receipt \in previewed'[s] \cup {None},
         current' \in Session, calls' \in 0..MaxCalls, raised' \subseteq Session,
         target' \in [Session -> Content], runs' \in [Id -> RunRecord \cup {None}],
         Accounts', CacheIsCurrent'
  PROVE  Inv'
<1>1. TypeOK'
  BY DEF TypeOK, InLine
<1>2. ASSUME NEW d \in Live'
      PROVE  Sound(request[d])'
  <2>1. CASE d \in D
    BY <1>2, <2>1 DEF Live
  <2>2. CASE d \notin D
    <3>1. d \in Client /\ d \in Live /\ request'[d] = request[d]
      BY <1>2, <2>2 DEF Live
    <3>2. request[d] \in Request
      BY <3>1, TypesLemma DEF Live
    <3>3. previewed[request[d].on] \subseteq previewed'[request[d].on]
      BY <3>2 DEF Request
    <3>4. Sound(request[d])
      BY <3>1 DEF Inv
    <3>. QED  BY <3>1, <3>3, <3>4 DEF Sound
  <2>. QED  BY <2>1, <2>2
<1>3. Receipts'
  BY DEF Receipts
<1>4. DownstreamIsFresh'
  BY DEF DownstreamIsFresh, FreshSession
<1>. QED  BY <1>1, <1>2, <1>3, <1>4 DEF Inv

\* What a client does to the platform of a session.
Writes(c, s) == (Inside(c, "execute") \/ Inside(c, "rollback")) /\ request[c].on = s

LEMMA CacheLemma ==
  ASSUME Inv, NEW D \in SUBSET Client,
         \A d \in Client \ D : request'[d] = request[d],
         \A s \in Session :
            \/ session'[s].cached = None
            \/ Reference => Current(s)'
            \/ s \in raised'
            \/ \E d \in D : Writes(d, s)'
            \/ /\ session'[s].cached = session[s].cached
               /\ Reference => target'[s] = target[s]
               /\ s \in raised => s \in raised'
               /\ \A d \in D : ~Writes(d, s)
  PROVE  CacheIsCurrent'
<1>. SUFFICES ASSUME Reference, NEW s \in Session
              PROVE  (s \in raised \/ Writing(s) \/ Current(s))'
  BY DEF CacheIsCurrent
<1>1. Home(s) = s
  BY DEF Home
<1>2. CASE session'[s].cached = None \/ Current(s)' \/ s \in raised'
  BY <1>2 DEF Current
<1>3. CASE \E d \in D : Writes(d, s)'
  BY <1>3 DEF Writes, Writing
<1>4. CASE /\ session'[s].cached = session[s].cached
           /\ target'[s] = target[s]
           /\ s \in raised => s \in raised'
           /\ \A d \in D : ~Writes(d, s)
  <2>1. s \in raised \/ Writing(s) \/ Current(s)
    BY DEF Inv, CacheIsCurrent
  <2>2. CASE s \in raised \/ Current(s)
    BY <1>1, <1>4, <2>2 DEF Current, Home
  <2>3. CASE Writing(s)
    <3>. PICK d \in Client : Writes(d, s)
      BY <2>3 DEF Writing, Writes
    <3>1. request'[d] = request[d]
      BY <1>4
    <3>. QED  BY <3>1 DEF Writes, Writing, Inside
  <2>. QED  BY <2>1, <2>2, <2>3
<1>. QED  BY <1>2, <1>3, <1>4

LEMMA InitInv == Init => Inv
<1>. SUFFICES ASSUME Init PROVE Inv
  OBVIOUS
<1>. USE WorkspaceAssumption DEF Init
<1>0. Fresh \in EstateSession
  BY DEF Fresh, EstateSession
<1>1. TypeOK
  <2>1. session \in [Session -> EstateSession]
    BY <1>0
  <2>. QED  BY <2>1 DEF TypeOK, Session, Content
<1>2. Lines
  BY DEF Lines, IsInjective
<1>3. Live = {} /\ Waiting = {}
  BY DEF Live, Waiting
<1>4. Receipts /\ DownstreamIsFresh
  BY DEF Receipts, DownstreamIsFresh, Fresh
<1>5. Accounts
  BY <1>3, FS_EmptySet DEF Accounts, Fresh
<1>6. CacheIsCurrent
  BY DEF CacheIsCurrent, Current, Fresh
<1>. QED  BY <1>1, <1>2, <1>3, <1>4, <1>5, <1>6 DEF Inv

-----------------------------------------------------------------------------
(* Handlers that do not suspend.                                           *)

LEMMA IdleLemma ==
  ASSUME Inv, UNCHANGED <<current, queue, request, target, runs, previewed, raised>>,
         Call, NEW x \in EstateSession,
         session' = [session EXCEPT ![current] = x],
         FreshSession(x),
         x.receipt \in {session[current].receipt, None},
         x.cached = session[current].cached,
         x.sequence <= session[current].sequence + 2
  PROVE  Inv'
<1>. USE WorkspaceAssumption
<1>1. /\ current \in Session /\ session'[current] = x
      /\ \A s \in Session \ {current} : session'[s] = session[s]
      /\ session' \in [Session -> EstateSession]
      /\ \A s \in Session : session[s].sequence \in Nat /\ x.sequence \in Nat
  BY DEF Inv, TypeOK, EstateSession
<1>2. /\ Live' = Live /\ Waiting' = Waiting /\ Lines'
      /\ \A d \in Client : InLine(d)'
  BY TypesLemma DEF Inv, Live, Waiting, Lines, InLine
<1>3. calls \in Nat /\ calls' = calls + 1 /\ calls' \in 0..MaxCalls
  BY DEF Call, Inv, TypeOK
<1>4. Accounts'
  <2>1. \A s \in Session : session'[s].sequence <= session[s].sequence + 2
                           /\ session'[s].sequence \in Nat
    BY <1>1
  <2>2. IsFiniteSet(Live)
    BY DEF Inv, Accounts
  <2>3. ASSUME NEW s \in Session
        PROVE  /\ session'[s].sequence + 2 * Cardinality(Waiting) <= 2 * calls'
               /\ target'[s] + Cardinality(Live) <= calls'
    BY <1>3, <2>1, PaidLemma
  <2>4. /\ IsFiniteSet(Live')
        /\ \A s \in Session :
             /\ session'[s].sequence + 2 * Cardinality(Waiting') <= 2 * calls'
             /\ target'[s] + Cardinality(Live') <= calls'
    BY <1>2, <2>2, <2>3
  <2>. QED  BY <2>4 DEF Accounts
<1>5. CacheIsCurrent'
  <2>. DEFINE D == {}
  <2>1. /\ D \in SUBSET Client
        /\ \A d \in Client \ D : request'[d] = request[d]
        /\ \A s \in Session : /\ session'[s].cached = session[s].cached
                              /\ target'[s] = target[s]
                              /\ s \in raised => s \in raised'
                              /\ \A d \in D : ~Writes(d, s)
    BY <1>1
  <2>. HIDE DEF D
  <2>. QED  BY <2>1, CacheLemma
<1>6. \A s \in Session : /\ FreshSession(session'[s])
                         /\ session'[s].receipt \in previewed'[s] \cup {None}
  <2>1. \A s \in Session : /\ FreshSession(session[s])
                           /\ session[s].receipt \in previewed[s] \cup {None}
    BY DEF Inv, DownstreamIsFresh, FreshSession, Receipts
  <2>. QED  BY <1>1, <2>1
<1>. DEFINE D == {}
<1>7. D \in SUBSET Client
  OBVIOUS
<1>. QED  BY <1>1, <1>2, <1>3, <1>4, <1>5, <1>6, <1>7, StepLemma DEF Inv, TypeOK

LEMMA AssessInv == ASSUME Inv, Assess PROVE Inv'
<1>. DEFINE x == [session[current] EXCEPT !.assessment = Here.snapshot]
<1>1. session[current] \in EstateSession /\ FreshSession(session[current])
  BY TypesLemma DEF Inv, DownstreamIsFresh, FreshSession
<1>2. /\ x \in EstateSession /\ FreshSession(x)
      /\ x.receipt = session[current].receipt /\ x.cached = session[current].cached
      /\ x.sequence <= session[current].sequence + 2
  BY <1>1 DEF EstateSession, FreshSession, Here, Effective
<1>3. session' = [session EXCEPT ![current] = x]
  BY DEF Assess
<1>. HIDE DEF x
<1>8. Call /\ UNCHANGED <<current, queue, request, target, runs, previewed, raised>>
  BY DEF Assess
<1>. QED  BY <1>2, <1>3, <1>8, IdleLemma

\* The mapping is of the snapshot the session holds, and the plan, which was
\* not, goes.
LEMMA MapInv == ASSUME Inv, Map PROVE Inv'
<1>. DEFINE x == [session[current] EXCEPT !.transform = Profile[Here.snapshot],
                                         !.plan = None, !.receipt = None]
<1>1. session[current] \in EstateSession /\ FreshSession(session[current])
  BY TypesLemma DEF Inv, DownstreamIsFresh, FreshSession
<1>2. Profile[Here.snapshot] \in Version
  BY <1>1, WorkspaceAssumption DEF Map, Here, EstateSession
<1>3. /\ x \in EstateSession /\ FreshSession(x)
      /\ x.receipt = None /\ x.cached = session[current].cached
      /\ x.sequence <= session[current].sequence + 2
  <2>1. x \in EstateSession
    BY <1>1, <1>2 DEF EstateSession
  <2>2. /\ x.transform = Profile[Here.snapshot] /\ x.plan = None /\ x.receipt = None
        /\ x.snapshot = Here.snapshot /\ x.assessment = Here.assessment
        /\ x.cached = Here.cached /\ x.sequence = Here.sequence
    BY <1>1 DEF EstateSession, Here
  <2>3. Here = session[current] /\ Here.sequence \in Nat /\ Here.snapshot # None
    BY <1>1 DEF EstateSession, Here, Map
  <2>. HIDE DEF x
  <2>. QED  BY <1>1, <2>1, <2>2, <2>3 DEF FreshSession
<1>4. session' = [session EXCEPT ![current] = x]
  BY DEF Map
<1>. HIDE DEF x
<1>8. Call /\ UNCHANGED <<current, queue, request, target, runs, previewed, raised>>
  BY DEF Map
<1>. QED  BY <1>3, <1>4, <1>8, IdleLemma

LEMMA PlanWavesInv == ASSUME Inv, PlanWaves PROVE Inv'
<1>. DEFINE x == [session[current] EXCEPT !.wave_plan = Effective(Here)]
<1>1. session[current] \in EstateSession /\ FreshSession(session[current])
  BY TypesLemma DEF Inv, DownstreamIsFresh, FreshSession
<1>2. /\ x \in EstateSession /\ FreshSession(x)
      /\ x.receipt = session[current].receipt /\ x.cached = session[current].cached
      /\ x.sequence <= session[current].sequence + 2
  BY <1>1 DEF EstateSession, FreshSession, Here, Effective
<1>3. session' = [session EXCEPT ![current] = x]
  BY DEF PlanWaves
<1>. HIDE DEF x
<1>8. Call /\ UNCHANGED <<current, queue, request, target, runs, previewed, raised>>
  BY DEF PlanWaves
<1>. QED  BY <1>2, <1>3, <1>8, IdleLemma

\* The plan is of the estate that planning starts from.
LEMMA BuildPlanInv == ASSUME Inv, BuildPlan PROVE Inv'
<1>. DEFINE id == Here.sequence + 1
            x == [session[current] EXCEPT
                    !.plan = [id |-> id, of |-> Effective(Here)],
                    !.sequence = id, !.receipt = None]
<1>1. session[current] \in EstateSession /\ FreshSession(session[current])
  BY TypesLemma DEF Inv, DownstreamIsFresh, FreshSession
<1>2. id \in Id /\ id \in 0..2 * MaxCalls /\ id = session[current].sequence + 1
  <2>. USE WorkspaceAssumption
  <2>1. session[current].sequence \in Nat /\ calls \in Nat
    BY <1>1 DEF EstateSession, Inv, TypeOK
  <2>2. session[current].sequence <= 2 * calls
    BY PaidLemma, TypesLemma
  <2>. QED  BY <2>1, <2>2 DEF Here, Id, BuildPlan, Call
<1>3. Effective(Here) \in Version
  BY <1>1 DEF BuildPlan, Here, Effective, EstateSession
<1>4. [id |-> id, of |-> Effective(Here)] \in Plan
  BY <1>2, <1>3 DEF Plan
<1>5. session[current].sequence \in Nat
  BY <1>1 DEF EstateSession
<1>6. /\ x \in EstateSession /\ FreshSession(x)
      /\ x.receipt = None /\ x.cached = session[current].cached
      /\ x.sequence <= session[current].sequence + 2
  <2>1. x \in EstateSession
    BY <1>1, <1>2, <1>4 DEF EstateSession
  <2>2. /\ x.plan = [id |-> id, of |-> Effective(Here)] /\ x.receipt = None
        /\ x.snapshot = Here.snapshot /\ x.assessment = Here.assessment
        /\ x.transform = Here.transform
        /\ x.cached = Here.cached /\ x.sequence = id
    BY <1>1 DEF EstateSession, Here
  <2>3. Here = session[current]
    BY DEF Here
  <2>. HIDE DEF x
  <2>. QED  BY <1>1, <1>2, <1>5, <2>1, <2>2, <2>3 DEF FreshSession, Effective
<1>7. session' = [session EXCEPT ![current] = x]
  BY DEF BuildPlan
<1>. HIDE DEF x
<1>8. Call /\ UNCHANGED <<current, queue, request, target, runs, previewed, raised>>
  BY DEF BuildPlan
<1>. QED  BY <1>5, <1>6, <1>7, <1>8, IdleLemma

\* The old session stays, with its requests.
LEMMA ResetInv == ASSUME Inv, Reset PROVE Inv'
<1>. USE WorkspaceAssumption
<1>. DEFINE D == {}
<1>1. UNCHANGED <<session, queue, request, target, runs, calls, previewed, raised>>
  BY DEF Reset
<1>2. current' \in Session
  BY TypesLemma DEF Reset, Session
<1>3. \A d \in Client : InLine(d)'
  BY <1>1, TypesLemma DEF InLine
<1>4. Lines' /\ Accounts' /\ CacheIsCurrent'
  <2>1. Lines' /\ Live' = Live /\ Waiting' = Waiting
    BY <1>1 DEF Inv, Lines, Live, Waiting
  <2>2. Accounts'
    BY <1>1, <2>1 DEF Inv, Accounts
  <2>3. CacheIsCurrent'
    BY <1>1 DEF Inv, CacheIsCurrent, Current, Writing, Inside, Home
  <2>. QED  BY <2>1, <2>2, <2>3
<1>5. \A s \in Session : /\ FreshSession(session'[s])
                         /\ session'[s].receipt \in previewed'[s] \cup {None}
  BY <1>1 DEF Inv, DownstreamIsFresh, FreshSession, Receipts
<1>6. D \in SUBSET Client
  OBVIOUS
<1>. QED  BY <1>1, <1>2, <1>3, <1>4, <1>5, <1>6, StepLemma DEF Inv, TypeOK

\* Nothing of the sessions is left; of the platforms, what a run or rollback
\* that was cut short made of them.
LEMMA RestartInv == ASSUME Inv, Restart PROVE Inv'
<1>. USE WorkspaceAssumption
<1>1. /\ request' = [c \in Client |-> None] /\ queue' = [s \in Session |-> <<>>]
      /\ session' = [s \in Session |-> Fresh] /\ previewed' = [s \in Session |-> {}]
      /\ raised' = {} /\ calls' = calls
  BY DEF Restart
<1>2. current' \in Session
  BY TypesLemma DEF Restart, Session
<1>3. Fresh \in EstateSession
  BY DEF Fresh, EstateSession
<1>4. Live' = {} /\ Waiting' = {} /\ Lines'
  BY <1>1 DEF Live, Waiting, Lines, IsInjective
<1>5. \A s \in Session : target'[s] \in Nat /\ target'[s] <= calls
  <2>. SUFFICES ASSUME NEW s \in Session PROVE target'[s] \in Nat /\ target'[s] <= calls
    OBVIOUS
  <2>1. target'[s] \in {target[s], target[s] + 1}
    BY DEF Restart
  <2>2. CASE target'[s] = target[s]
    BY <2>2, PaidLemma
  <2>3. CASE target'[s] # target[s]
    <3>1. Live # {}
      BY <2>3 DEF Restart, Inside, Live
    <3>2. Cardinality(Live) # 0
      BY <3>1, FS_EmptySet DEF Inv, Accounts
    <3>. QED  BY <2>1, <2>3, <3>2, PaidLemma
  <2>. QED  BY <2>2, <2>3
<1>6. target' \in [Session -> Content]
  <2>1. target' = [s \in Session |-> target'[s]]
    BY DEF Restart
  <2>. QED  BY <1>5, <2>1, PaidLemma DEF Content
<1>7. runs' \in [Id -> RunRecord \cup {None}]
  BY DEF Restart, Inv, TypeOK
<1>8. TypeOK'
  BY <1>1, <1>2, <1>3, <1>6, <1>7 DEF TypeOK, Inv
<1>9. Receipts' /\ DownstreamIsFresh' /\ CacheIsCurrent'
  BY <1>1 DEF Receipts, DownstreamIsFresh, CacheIsCurrent, Current, Fresh
<1>10. Accounts'
  <2>1. \A s \in Session : session'[s].sequence = 0
    BY <1>1 DEF Fresh
  <2>. QED  BY <1>1, <1>4, <1>5, <2>1, PaidLemma, FS_EmptySet DEF Accounts
<1>. QED  BY <1>4, <1>8, <1>9, <1>10 DEF Inv

-----------------------------------------------------------------------------
(* Handlers that suspend.                                                  *)

\* What happens to one session, and leaves its artefacts together.
LEMMA SessionLemma ==
  ASSUME Inv, NEW s \in Session, NEW x \in EstateSession,
         session' = [session EXCEPT ![s] = x],
         \A z \in Session : previewed[z] \subseteq previewed'[z],
         FreshSession(x), x.receipt \in previewed'[s] \cup {None}
  PROVE  /\ session' \in [Session -> EstateSession]
         /\ session'[s] = x
         /\ \A z \in Session \ {s} : session'[z] = session[z]
         /\ \A z \in Session : /\ FreshSession(session'[z])
                               /\ session'[z].receipt \in previewed'[z] \cup {None}
<1>1. /\ session' \in [Session -> EstateSession] /\ session'[s] = x
      /\ \A z \in Session \ {s} : session'[z] = session[z]
  BY DEF Inv, TypeOK
<1>2. ASSUME NEW z \in Session
      PROVE  FreshSession(session'[z]) /\ session'[z].receipt \in previewed'[z] \cup {None}
  <2>1. FreshSession(session[z]) /\ session[z].receipt \in previewed[z] \cup {None}
    BY DEF Inv, DownstreamIsFresh, FreshSession, Receipts
  <2>. QED  BY <1>1, <2>1
<1>. QED  BY <1>1, <1>2

\* A call that arrives, or stops waiting, pays for two identifiers and for
\* one change of the platform.
Room(c) ==
    /\ calls' \in 0..MaxCalls
    /\ \A s \in Session :
         /\ session[s].sequence + 2 * Cardinality(Waiting \ {c}) + 2 <= 2 * calls'
         /\ target[s] + Cardinality(Live \cup {c}) <= calls'

LEMMA RoomLemma ==
  ASSUME Inv, NEW c \in Client, NEW s \in Session, Room(c),
         Live' \in {Live \cup {c}, Live \ {c}}, Waiting' = Waiting \ {c},
         UNCHANGED target,
         session'[s].sequence \in Nat, session'[s].sequence <= session[s].sequence + 2,
         \A z \in Session \ {s} : session'[z] = session[z]
  PROVE  Accounts'
<1>. DEFINE w == Cardinality(Waiting \ {c})  m == Cardinality(Live')
            n == Cardinality(Live \cup {c})
<1>1. IsFiniteSet(Live') /\ m \in Nat /\ n \in Nat /\ w \in Nat
  <2>1. IsFiniteSet(Live') /\ IsFiniteSet(Live \cup {c})
    BY CountLemma
  <2>2. IsFiniteSet(Waiting \ {c})
    BY FS_Subset DEF Inv, Accounts, Waiting
  <2>. QED  BY <2>1, <2>2, FS_CardinalityType
<1>2. m <= n
  <2>1. Live' \subseteq Live \cup {c}
    OBVIOUS
  <2>. QED  BY <2>1, CountLemma, FS_Subset
<1>3. Cardinality(Waiting') = w
  OBVIOUS
<1>4. ASSUME NEW z \in Session
      PROVE  session'[z].sequence + 2 * w <= 2 * calls' /\ target'[z] + m <= calls'
  <2>1. /\ session[z].sequence + 2 * w + 2 <= 2 * calls' /\ target[z] + n <= calls'
        /\ calls' \in Nat /\ session[z].sequence \in Nat /\ target[z] \in Nat
    <3>1. calls' \in Nat
      BY WorkspaceAssumption DEF Room
    <3>2. session[z].sequence \in Nat /\ target[z] \in Nat
      BY PaidLemma
    <3>. QED  BY <3>1, <3>2 DEF Room
  <2>2. session'[z].sequence \in Nat /\ session'[z].sequence <= session[z].sequence + 2
    BY <2>1
  <2>. HIDE DEF w, m, n
  <2>. QED  BY <1>1, <1>2, <2>1, <2>2
<1>. QED  BY <1>1, <1>3, <1>4 DEF Accounts

\* The artefacts of a session are what they were.
Alike(x, e) ==
    /\ x.snapshot = e.snapshot /\ x.assessment = e.assessment
    /\ x.transform = e.transform /\ x.plan = e.plan /\ x.receipt = e.receipt
    /\ x.cached \in {e.cached, None}
    /\ x.sequence <= e.sequence + 2

\* A step that goes on from there with the lock, or without it.
LEMMA BeginLemma ==
  ASSUME Inv, NEW c \in Client, NEW s \in Session, NEW x \in EstateSession, Room(c),
         UNCHANGED <<current, target, previewed, raised>>,
         session' = [session EXCEPT ![s] = x],
         Alike(x, session[s]),
         runs' \in [Id -> RunRecord \cup {None}],
         queue' \in [Session -> Seq(Client)],
         request' \in [Client -> Request \cup {None}],
         \A d \in Client \ {c} : request'[d] = request[d],
         \A d \in Client : InLine(d)', Lines',
         Live' \in {Live \cup {c}, Live \ {c}}, Waiting' = Waiting \ {c},
         request[c] = None \/ ~request[c].inside,
         request'[c] # None => Sound(request[c])'
  PROVE  Inv'
<1>. USE WorkspaceAssumption
<1>1. FreshSession(x) /\ x.receipt \in previewed'[s] \cup {None}
  <2>1. FreshSession(session[s]) /\ session[s].receipt \in previewed[s] \cup {None}
    BY DEF Inv, DownstreamIsFresh, FreshSession, Receipts
  <2>. QED  BY <2>1 DEF FreshSession, Effective, Alike
<1>2. /\ session' \in [Session -> EstateSession]
      /\ session'[s] = x
      /\ \A z \in Session \ {s} : session'[z] = session[z]
      /\ \A z \in Session : /\ FreshSession(session'[z])
                            /\ session'[z].receipt \in previewed'[z] \cup {None}
  BY <1>1, SessionLemma
<1>3. Accounts'
  <2>1. session'[s].sequence \in Nat /\ session'[s].sequence <= session[s].sequence + 2
    BY <1>2, WorkspaceAssumption DEF EstateSession, Alike
  <2>. QED  BY <1>2, <2>1, RoomLemma
<1>4. CacheIsCurrent'
  <2>. DEFINE D == {c}
  <2>1. \A z \in Session : session'[z].cached \in {session[z].cached, None}
    BY <1>2 DEF Alike
  <2>2. \A z \in Session : ~Writes(c, z)
    BY DEF Writes, Inside
  <2>3. /\ D \in SUBSET Client
        /\ \A d \in Client \ D : request'[d] = request[d]
        /\ \A z \in Session :
             \/ session'[z].cached = None
             \/ /\ session'[z].cached = session[z].cached
                /\ target'[z] = target[z]
                /\ z \in raised => z \in raised'
                /\ \A d \in D : ~Writes(d, z)
    BY <2>1, <2>2
  <2>. HIDE DEF D
  <2>. QED  BY <2>3, CacheLemma
<1>. DEFINE D == {c}
<1>5. /\ D \in SUBSET Client /\ \A d \in Client \ D : request'[d] = request[d]
      /\ \A d \in D : request'[d] # None => Sound(request[d])'
      /\ calls' \in 0..MaxCalls
  BY DEF Room
<1>6. /\ \A z \in Session : previewed[z] \subseteq previewed'[z]
      /\ previewed' \in [Session -> SUBSET Version]
      /\ current' \in Session /\ raised' \subseteq Session
      /\ target' \in [Session -> Content]
  BY DEF Inv, TypeOK
<1>. HIDE DEF D
<1>. QED  BY <1>2, <1>3, <1>4, <1>5, <1>6, StepLemma

LEMMA BeginHoldLemma ==
  ASSUME Inv, NEW c \in Client, NEW q \in Request, Room(c), Turn(c, q.on),
         UNCHANGED <<current, target, previewed, raised>>,
         request[c] = None \/ ~request[c].inside,
         Sound(q), q.kind = "execute" => q.run # None,
         Hold(c, q),
         runs' \in [Id -> RunRecord \cup {None}],
         NEW x \in EstateSession, session' = [session EXCEPT ![q.on] = x],
         Alike(x, session[q.on])
  PROVE  Inv'
<1>1. /\ queue' \in [Session -> Seq(Client)]
      /\ request' \in [Client -> Request \cup {None}]
      /\ request'[c] = [q EXCEPT !.inside = TRUE]
      /\ \A d \in Client \ {c} : request'[d] = request[d]
      /\ \A d \in Client : InLine(d)'
      /\ Lines'
      /\ Live' = Live \cup {c} /\ Waiting' = Waiting \ {c}
  BY HoldLemma
<1>2. /\ request'[c].kind = q.kind /\ request'[c].plan = q.plan /\ request'[c].source = q.source
      /\ request'[c].run = q.run /\ request'[c].receipt = q.receipt /\ request'[c].on = q.on
  BY <1>1 DEF Request
<1>3. Sound(request[c])'
  BY <1>2 DEF Sound
<1>4. q.on \in Session
  BY DEF Request
<1>. QED  BY <1>1, <1>3, <1>4, BeginLemma

LEMMA BeginLeaveLemma ==
  ASSUME Inv, NEW c \in Client, NEW s \in Session, Room(c), Turn(c, s),
         UNCHANGED <<current, target, previewed, raised>>,
         request[c] = None \/ ~request[c].inside,
         Leave(c, s) \/ LeaveRaising(c, s),
         runs' \in [Id -> RunRecord \cup {None}],
         NEW x \in EstateSession, session' = [session EXCEPT ![s] = x],
         Alike(x, session[s])
  PROVE  Inv'
<1>1. /\ queue' \in [Session -> Seq(Client)]
      /\ request' \in [Client -> Request \cup {None}]
      /\ request'[c] = None
      /\ \A d \in Client \ {c} : request'[d] = request[d]
      /\ \A d \in Client : InLine(d)'
      /\ Lines'
      /\ Live' = Live \ {c} /\ Waiting' = Waiting \ {c}
  BY LeaveLemma
<1>. QED  BY <1>1, BeginLemma

\* The locked call begins, for a request whose turn has come.
LEMMA BeginInv ==
  ASSUME Inv, NEW c \in Client, NEW q \in Request, Room(c), Turn(c, q.on),
         UNCHANGED <<current, target, previewed, raised>>,
         request[c] = None \/ ~request[c].inside,
         Sound(q), ~q.inside,
         Begin(c, q)
  PROVE  Inv'
<1>. USE WorkspaceAssumption
<1>. DEFINE s == q.on  e == session[s]
<1>1. /\ s \in Session /\ e \in EstateSession /\ e.sequence \in Nat
      /\ e.runs \in SUBSET Id /\ q.run \in Id \cup {None}
      /\ q.kind = "execute" => q.plan \in Plan
  BY TypesLemma DEF Request, EstateSession, Sound
<1>2. e.sequence + 2 <= 2 * MaxCalls
  <2>1. IsFiniteSet(Waiting \ {c})
    BY FS_Subset DEF Inv, Accounts, Waiting
  <2>2. Cardinality(Waiting \ {c}) \in Nat
    BY <2>1, FS_CardinalityType
  <2>. QED  BY <1>1, <2>2 DEF Room
<1>. HIDE DEF s, e
<1>3. CASE q.kind # "execute"
  <2>. DEFINE n == Draws(q.kind)  x == [e EXCEPT !.sequence = e.sequence + n]
  <2>1. n \in {0, 1, 2}
    BY DEF Draws
  <2>2. Hold(c, q) /\ UNCHANGED runs /\ session' = [session EXCEPT ![s] = x]
    BY <1>3 DEF Begin, s, e
  <2>3. x.sequence \in 0..2 * MaxCalls
    BY <1>1, <1>2, <2>1 DEF EstateSession
  <2>. HIDE DEF n
  <2>4. /\ x \in EstateSession
        /\ Alike(x, e)
    <3>1. x \in EstateSession /\ x.sequence = e.sequence + n
      BY <1>1, <2>3 DEF EstateSession
    <3>. QED  BY <1>1, <2>1, <3>1 DEF EstateSession, Alike
  <2>. HIDE DEF x
  <2>5. runs' \in [Id -> RunRecord \cup {None}]
    BY <2>2 DEF Inv, TypeOK
  <2>. QED  BY <1>3, <2>2, <2>4, <2>5, BeginHoldLemma DEF s, e
<1>4. CASE q.kind = "execute"
  <2>. DEFINE id == RunId(q)  old == runs[id]
              x == [e EXCEPT !.sequence = Drawn(q)]
              y == [e EXCEPT !.runs = @ \cup {id}, !.sequence = Drawn(q), !.cached = None]
  <2>1. /\ id \in Id /\ Drawn(q) \in {e.sequence, e.sequence + 1}
        /\ Drawn(q) \in 0..2 * MaxCalls
    BY <1>1, <1>2 DEF RunId, Drawn, Id, s, e, EstateSession
  <2>2. q.plan \in Plan /\ q.plan.id \in Id
    BY <1>1, <1>4 DEF Plan
  <2>3. x \in EstateSession /\ Alike(x, e)
    <3>1. x \in EstateSession /\ x.sequence = Drawn(q)
      BY <1>1, <2>1 DEF EstateSession
    <3>. QED  BY <1>1, <2>1, <3>1 DEF EstateSession, Alike
  <2>4. y \in EstateSession /\ Alike(y, e)
    <3>1. y \in EstateSession
      BY <1>1, <2>1 DEF EstateSession
    <3>2. y.sequence = Drawn(q) /\ y.cached = None
      BY <1>1 DEF EstateSession
    <3>. QED  BY <1>1, <2>1, <3>1, <3>2 DEF EstateSession, Alike
  <2>5. \A state \in {"RUNNING", "FAILED"} : RunState(q, state) \in RunRecord
    BY <2>2 DEF RunState, RunRecord
  <2>. HIDE DEF id, x, y
  <2>6. CASE LeaveRaising(c, s) /\ session' = [session EXCEPT ![s].sequence = Drawn(q)]
             /\ (UNCHANGED runs \/ runs' = [runs EXCEPT ![id] = RunState(q, "FAILED")])
    <3>1. session' = [session EXCEPT ![s] = x]
      BY <2>6 DEF x, e
    <3>2. runs' \in [Id -> RunRecord \cup {None}]
      BY <2>1, <2>5, <2>6 DEF Inv, TypeOK
    <3>. QED  BY <1>1, <2>3, <2>6, <3>1, <3>2, BeginLeaveLemma DEF s, e
  <2>7. CASE Leave(c, s) /\ UNCHANGED runs
             /\ session' = [session EXCEPT ![s].runs = @ \cup {id},
                                           ![s].sequence = Drawn(q),
                                           ![s].cached = None]
    <3>1. session' = [session EXCEPT ![s] = y]
      BY <2>7 DEF y, e
    <3>2. runs' \in [Id -> RunRecord \cup {None}]
      BY <2>7 DEF Inv, TypeOK
    <3>. QED  BY <1>1, <2>4, <2>7, <3>1, <3>2, BeginLeaveLemma DEF s, e
  <2>8. CASE Hold(c, [q EXCEPT !.run = id])
             /\ session' = [session EXCEPT ![s].sequence = Drawn(q)]
             /\ runs' = [runs EXCEPT ![id] = RunState(q, "RUNNING")]
    <3>. DEFINE r == [q EXCEPT !.run = id]
    <3>1. session' = [session EXCEPT ![s] = x]
      BY <2>8 DEF x, e
    <3>2. runs' \in [Id -> RunRecord \cup {None}]
      BY <2>1, <2>5, <2>8 DEF Inv, TypeOK
    <3>3. /\ r \in Request /\ r.on = s /\ r.run = id /\ r.kind = q.kind /\ r.plan = q.plan
          /\ r.source = q.source /\ r.receipt = q.receipt /\ r.inside = q.inside
      BY <2>1 DEF Request, s
    <3>4. id # None
      BY <2>1 DEF Id
    <3>. HIDE DEF r
    <3>5. Sound(r)
      BY <3>3, <3>4 DEF Sound, s
    <3>. QED  BY <2>3, <2>8, <3>1, <3>2, <3>3, <3>4, <3>5, BeginHoldLemma DEF s, e, r
  <2>. QED  BY <1>4, <2>6, <2>7, <2>8 DEF Begin, BeginExecute, s, id
<1>. QED  BY <1>3, <1>4

LEMMA AskedLemma ==
  ASSUME Inv, NEW kind \in Kind, NEW run \in Id \cup {None}, NEW resume \in BOOLEAN,
         Ready(kind, run)
  PROVE  LET q == Asked(kind, run, resume)
         IN  q \in Request /\ Sound(q) /\ ~q.inside /\ q.on = current
<1>. DEFINE q == Asked(kind, run, resume)
<1>1. session[current] \in EstateSession /\ current \in Session
  BY TypesLemma
<1>2. q \in Request /\ ~q.inside /\ q.on = current
  BY <1>1 DEF Asked, Request, Here, Effective, EstateSession
<1>3. session[current].receipt \in previewed[current] \cup {None}
  BY <1>1 DEF Inv, Receipts
<1>4. Sound(q)
  BY <1>1, <1>3 DEF Asked, Sound, Ready, Here
<1>. QED  BY <1>2, <1>4

LEMMA AskInv ==
  ASSUME Inv, NEW c \in Client, NEW kind \in Kind, NEW run \in Id \cup {None},
         NEW resume \in BOOLEAN, Ask(c, Asked(kind, run, resume))
  PROVE  Inv'
<1>. USE WorkspaceAssumption
<1>. DEFINE q == Asked(kind, run, resume)
<1>1. /\ request[c] = None /\ calls < MaxCalls /\ calls' = calls + 1
      /\ UNCHANGED <<current, target, previewed, raised>>
      /\ Ready(kind, run)
  BY DEF Ask, Call, Asked
<1>2. q \in Request /\ Sound(q) /\ ~q.inside /\ q.on \in Session
  BY <1>1, AskedLemma, TypesLemma
<1>3. c \notin Live /\ c \notin Waiting
  BY <1>1 DEF Live, Waiting
<1>4. CASE queue[q.on] = <<>> /\ Begin(c, q)
  <2>1. Waiting \ {c} = Waiting
    BY <1>3
  <2>2. Cardinality(Live \cup {c}) = Cardinality(Live) + 1
    BY <1>3, CountLemma
  <2>3. Room(c)
    <3>1. ASSUME NEW z \in Session
          PROVE  /\ session[z].sequence + 2 * Cardinality(Waiting) + 2 <= 2 * calls'
                 /\ target[z] + (Cardinality(Live) + 1) <= calls'
      BY <1>1, PaidLemma
    <3>2. calls' \in 0..MaxCalls
      BY <1>1, PaidLemma
    <3>. QED  BY <2>1, <2>2, <3>1, <3>2 DEF Room
  <2>4. Turn(c, q.on)
    BY <1>1, <1>4 DEF Turn
  <2>. HIDE DEF q
  <2>. QED  BY <1>1, <1>2, <1>4, <2>3, <2>4, BeginInv
<1>5. CASE /\ queue[q.on] # <<>>
           /\ queue' = [queue EXCEPT ![q.on] = Append(@, c)]
           /\ request' = [request EXCEPT ![c] = q]
           /\ UNCHANGED <<session, runs>>
  <2>. HIDE DEF q
  <2>1. /\ queue' \in [Session -> Seq(Client)]
        /\ request' \in [Client -> Request \cup {None}]
        /\ request'[c] = q
        /\ \A d \in Client \ {c} : request'[d] = request[d]
        /\ \A d \in Client : InLine(d)'
        /\ Lines'
        /\ Live' = Live \cup {c} /\ Waiting' = Waiting \cup {c}
    BY <1>1, <1>2, <1>5, WaitLemma
  <2>2. Accounts'
    <3>1. /\ IsFiniteSet(Live') /\ Cardinality(Live') = Cardinality(Live) + 1
          /\ Cardinality(Waiting') = Cardinality(Waiting) + 1
      BY <1>3, <2>1, CountLemma
    <3>2. ASSUME NEW z \in Session
          PROVE  /\ session'[z].sequence + 2 * Cardinality(Waiting') <= 2 * calls'
                 /\ target'[z] + Cardinality(Live') <= calls'
      <4>1. session'[z] = session[z] /\ target'[z] = target[z] /\ calls' = calls + 1
        BY <1>1, <1>5
      <4>2. /\ session[z].sequence + 2 * (Cardinality(Waiting) + 1) <= 2 * (calls + 1)
            /\ target[z] + (Cardinality(Live) + 1) <= calls + 1
        BY PaidLemma
      <4>. QED  BY <3>1, <4>1, <4>2
    <3>. QED  BY <3>1, <3>2 DEF Accounts
  <2>. DEFINE D == {c}
  <2>3. /\ D \in SUBSET Client /\ \A d \in Client \ D : request'[d] = request[d]
        /\ \A d \in D : request'[d] # None => Sound(request[d])'
        /\ \A z \in Session : \A d \in D : ~Writes(d, z)
    BY <1>1, <1>2, <2>1 DEF Sound, Writes, Inside
  <2>. HIDE DEF D
  <2>4. CacheIsCurrent'
    BY <1>1, <1>5, <2>3, CacheLemma
  <2>5. /\ \A z \in Session : previewed[z] \subseteq previewed'[z]
        /\ previewed' \in [Session -> SUBSET Version]
        /\ current' \in Session /\ raised' \subseteq Session
        /\ target' \in [Session -> Content]
        /\ session' \in [Session -> EstateSession]
        /\ runs' \in [Id -> RunRecord \cup {None}]
    BY <1>1, <1>5 DEF Inv, TypeOK
  <2>6. calls' \in 0..MaxCalls
    BY <1>1, PaidLemma
  <2>7. \A z \in Session : /\ FreshSession(session'[z])
                           /\ session'[z].receipt \in previewed'[z] \cup {None}
    BY <1>1, <1>5 DEF Inv, DownstreamIsFresh, FreshSession, Receipts
  <2>. QED  BY <2>1, <2>2, <2>3, <2>4, <2>5, <2>6, <2>7, StepLemma
<1>. QED  BY <1>4, <1>5 DEF Ask

\* The request that waited brought two identifiers with it.
LEMMA WakeInv == ASSUME Inv, NEW c \in Client, Wake(c) PROVE Inv'
<1>. DEFINE q == request[c]
<1>1. /\ q \in Request /\ q # None /\ ~q.inside /\ Head(queue[q.on]) = c
      /\ Begin(c, q) /\ UNCHANGED <<current, target, calls, previewed, raised>>
  BY TypesLemma DEF Wake
<1>2. c \in Live /\ c \in Waiting
  BY <1>1 DEF Live, Waiting
<1>3. Sound(q) /\ Turn(c, q.on)
  BY <1>1, <1>2 DEF Inv, Turn
<1>4. Room(c)
  <2>1. Cardinality(Waiting \ {c}) = Cardinality(Waiting) - 1
    BY <1>2, CountLemma
  <2>2. Live \cup {c} = Live
    BY <1>2
  <2>3. calls' \in 0..MaxCalls
    BY <1>1 DEF Inv, TypeOK
  <2>4. ASSUME NEW z \in Session
        PROVE  /\ session[z].sequence + 2 * (Cardinality(Waiting) - 1) + 2 <= 2 * calls
               /\ target[z] + Cardinality(Live) <= calls
    BY PaidLemma
  <2>5. calls' = calls
    BY <1>1
  <2>. QED  BY <2>1, <2>2, <2>3, <2>4, <2>5 DEF Room
<1>. HIDE DEF q
<1>5. request[c] = None \/ ~request[c].inside
  BY <1>1 DEF q
<1>. QED  BY <1>1, <1>3, <1>4, <1>5, BeginInv

\* The answer of the connector: the client leaves, and what it made of its
\* session and platform is paid for.
LEMMA ReturnLemma ==
  ASSUME Inv, NEW c \in Client, NEW s \in Session,
         request[c] # None, request[c].inside, request[c].on = s,
         Leave(c, s) \/ LeaveRaising(c, s),
         UNCHANGED <<current, calls>>,
         runs' \in [Id -> RunRecord \cup {None}],
         target' = target \/ Written(s),
         raised' \subseteq Session, raised \ {s} \subseteq raised',
         previewed' \in [Session -> SUBSET Version],
         \A z \in Session : previewed[z] \subseteq previewed'[z],
         NEW x \in EstateSession, session' = [session EXCEPT ![s] = x],
         FreshSession(x), x.receipt \in previewed'[s] \cup {None},
         x.sequence = session[s].sequence,
         \/ x.cached = None
         \/ Reference => Current(s)'
         \/ s \in raised'
         \/ /\ x.cached = session[s].cached /\ target' = target /\ raised' = raised
            /\ ~Writes(c, s)
  PROVE  Inv'
<1>1. Turn(c, s) /\ c \in Live /\ c \notin Waiting
  BY TypesLemma DEF InLine, Turn, Live, Waiting
<1>2. /\ queue' \in [Session -> Seq(Client)]
      /\ request' \in [Client -> Request \cup {None}]
      /\ request'[c] = None
      /\ \A d \in Client \ {c} : request'[d] = request[d]
      /\ \A d \in Client : InLine(d)'
      /\ Lines'
      /\ Live' = Live \ {c} /\ Waiting' = Waiting \ {c}
  BY <1>1, LeaveLemma
<1>3. /\ session' \in [Session -> EstateSession]
      /\ session'[s] = x
      /\ \A z \in Session \ {s} : session'[z] = session[z]
      /\ \A z \in Session : /\ FreshSession(session'[z])
                            /\ session'[z].receipt \in previewed'[z] \cup {None}
  BY SessionLemma
<1>4. /\ \A z \in Session : target'[z] \in Nat /\ target'[z] <= target[z] + 1
      /\ Reference => \A z \in Session \ {s} : target'[z] = target[z]
      /\ target' = [z \in Session |-> target'[z]]
  <2>1. target = [z \in Session |-> target[z]] /\ \A z \in Session : target[z] \in Nat
    BY PaidLemma DEF Inv, TypeOK
  <2>2. CASE target' = target
    BY <2>1, <2>2
  <2>3. CASE target' = [target EXCEPT ![Home(s)] = @ + 1]
    BY <2>1, <2>3 DEF Home
  <2>. QED  BY <2>2, <2>3 DEF Written
<1>5. /\ IsFiniteSet(Live') /\ Cardinality(Live') = Cardinality(Live) - 1
      /\ Cardinality(Waiting') = Cardinality(Waiting)
  BY <1>1, <1>2, CountLemma
<1>6. ASSUME NEW z \in Session
      PROVE  /\ session'[z].sequence + 2 * Cardinality(Waiting') <= 2 * calls'
             /\ target'[z] + Cardinality(Live') <= calls'
  <2>1. session'[z].sequence = session[z].sequence
    BY <1>3
  <2>. QED  BY <1>4, <1>5, <2>1, PaidLemma
<1>7. Accounts'
  BY <1>5, <1>6 DEF Accounts
<1>8. target' \in [Session -> Content]
  <2>1. Cardinality(Live) # 0
    BY <1>1, FS_EmptySet DEF Inv, Accounts
  <2>2. ASSUME NEW z \in Session
        PROVE  target'[z] \in Content
    <3>1. target'[z] \in Nat /\ target'[z] <= target[z] + 1
      BY <1>4
    <3>2. /\ target[z] + Cardinality(Live) <= calls /\ calls <= MaxCalls /\ calls \in Nat
          /\ Cardinality(Live) \in Nat /\ target[z] \in Nat
      BY PaidLemma
    <3>. QED  BY <2>1, <3>1, <3>2, WorkspaceAssumption DEF Content
  <2>. QED  BY <1>4, <2>2
<1>. DEFINE D == {c}
<1>9. /\ D \in SUBSET Client /\ \A d \in Client \ D : request'[d] = request[d]
      /\ \A d \in D : request'[d] # None => Sound(request[d])'
      /\ \A z \in Session \ {s} : \A d \in D : ~Writes(d, z)
  BY <1>2 DEF Writes
<1>10. CacheIsCurrent'
  <2>1. ASSUME NEW z \in Session \ {s}
        PROVE  /\ session'[z].cached = session[z].cached
               /\ Reference => target'[z] = target[z]
               /\ z \in raised => z \in raised'
               /\ \A d \in D : ~Writes(d, z)
    BY <1>3, <1>4, <1>9
  <2>2. \/ session'[s].cached = None
        \/ Reference => Current(s)'
        \/ s \in raised'
        \/ /\ session'[s].cached = session[s].cached
           /\ Reference => target'[s] = target[s]
           /\ s \in raised => s \in raised'
           /\ \A d \in D : ~Writes(d, s)
    BY <1>3
  <2>. HIDE DEF D
  <2>. QED  BY <1>9, <2>1, <2>2, CacheLemma
<1>. HIDE DEF D
<1>11. current' \in Session /\ calls' \in 0..MaxCalls
  BY DEF Inv, TypeOK
<1>. QED  BY <1>2, <1>3, <1>7, <1>8, <1>9, <1>10, <1>11, StepLemma

LEMMA InsideLemma ==
  ASSUME Inv, NEW c \in Client, request[c] # None
  PROVE  /\ request[c] \in Request /\ request[c].on \in Session
         /\ Sound(request[c])
         /\ session[request[c].on] \in EstateSession
         /\ FreshSession(session[request[c].on])
         /\ session[request[c].on].receipt \in previewed[request[c].on] \cup {None}
         /\ session[request[c].on].sequence \in Nat
<1>1. /\ request[c] \in Request /\ request[c].on \in Session
      /\ session[request[c].on] \in EstateSession
  BY TypesLemma DEF Request
<1>2. Sound(request[c])
  BY DEF Inv, Live
<1>. QED  BY <1>1, <1>2 DEF Inv, DownstreamIsFresh, FreshSession, Receipts, EstateSession

\* Everything downstream of the new snapshot is dropped.
LEMMA DiscoverReturnsInv ==
  ASSUME Inv, NEW c \in Client, DiscoverReturns(c) PROVE Inv'
<1>. DEFINE s == request[c].on  e == session[s]
<1>. PICK found \in Discovered :
       session' = [session EXCEPT ![s] =
             [@ EXCEPT !.snapshot = found, !.assessment = None,
                       !.transform = None, !.wave_plan = None, !.plan = None,
                       !.receipt = None, !.validation = None]]
  BY DEF DiscoverReturns
<1>. DEFINE x == [e EXCEPT !.snapshot = found, !.assessment = None,
                           !.transform = None, !.wave_plan = None, !.plan = None,
                           !.receipt = None, !.validation = None]
<1>1. /\ request[c] # None /\ request[c].inside /\ request[c].kind = "discover"
      /\ Leave(c, s) /\ UNCHANGED <<current, target, runs, calls, previewed, raised>>
  BY DEF DiscoverReturns, Inside
<1>2. s \in Session /\ e \in EstateSession
  BY <1>1, InsideLemma
<1>. HIDE DEF e
<1>3. x \in EstateSession
  BY <1>2, WorkspaceAssumption DEF EstateSession
<1>4. /\ x.snapshot = found /\ x.assessment = None /\ x.transform = None /\ x.plan = None
      /\ x.receipt = None /\ x.cached = e.cached /\ x.sequence = e.sequence
  BY <1>2 DEF EstateSession
<1>5. session' = [session EXCEPT ![s] = x]
  BY DEF e
<1>. HIDE DEF x
<1>6. FreshSession(x)
  BY <1>4 DEF FreshSession
<1>7. ~Writes(c, s)
  BY <1>1 DEF Writes, Inside
<1>8. /\ runs' \in [Id -> RunRecord \cup {None}] /\ raised' \subseteq Session
      /\ previewed' \in [Session -> SUBSET Version]
      /\ \A z \in Session : previewed[z] \subseteq previewed'[z]
  BY <1>1 DEF Inv, TypeOK
<1>. HIDE DEF s
<1>. QED  BY <1>1, <1>2, <1>3, <1>4, <1>5, <1>6, <1>7, <1>8, ReturnLemma DEF s, e

\* The receipt is of the plan the handler read, which it has now previewed.
LEMMA DryRunReturnsInv ==
  ASSUME Inv, NEW c \in Client, DryRunReturns(c) PROVE Inv'
<1>. DEFINE s == request[c].on  e == session[s]  of == request[c].plan.of
            x == [e EXCEPT !.receipt = of]
<1>1. /\ request[c] # None /\ request[c].inside /\ request[c].kind = "dry_run"
      /\ Leave(c, s) /\ UNCHANGED <<current, target, runs, calls, raised>>
      /\ session' = [session EXCEPT ![s] = x]
      /\ previewed' = [previewed EXCEPT ![s] = @ \cup {of}]
  BY DEF DryRunReturns, Inside
<1>2. s \in Session /\ e \in EstateSession /\ FreshSession(e) /\ Sound(request[c])
      /\ request[c] \in Request
  BY <1>1, InsideLemma
<1>3. of \in Version
  BY <1>1, <1>2 DEF Sound, Request, Plan
<1>. HIDE DEF e, of
<1>4. /\ x \in EstateSession
      /\ x.snapshot = e.snapshot /\ x.assessment = e.assessment
      /\ x.transform = e.transform /\ x.plan = e.plan
      /\ x.receipt = of /\ x.cached = e.cached /\ x.sequence = e.sequence
  BY <1>2, <1>3 DEF EstateSession
<1>. HIDE DEF x
<1>5. FreshSession(x)
  BY <1>2, <1>4 DEF FreshSession, Effective
<1>6. ~Writes(c, s)
  BY <1>1 DEF Writes, Inside
<1>7. /\ runs' \in [Id -> RunRecord \cup {None}] /\ raised' \subseteq Session
  BY <1>1 DEF Inv, TypeOK
<1>8. /\ previewed' \in [Session -> SUBSET Version]
      /\ \A z \in Session : previewed[z] \subseteq previewed'[z]
      /\ x.receipt \in previewed'[s] \cup {None}
  BY <1>1, <1>2, <1>3, <1>4 DEF Inv, TypeOK
<1>. HIDE DEF s
<1>. QED  BY <1>1, <1>2, <1>4, <1>5, <1>6, <1>7, <1>8, ReturnLemma DEF s, e

LEMMA ExecuteReturnsInv ==
  ASSUME Inv, NEW c \in Client, ExecuteReturns(c) PROVE Inv'
<1>. DEFINE s == request[c].on  e == session[s]  id == request[c].run
            x == [e EXCEPT !.runs = @ \cup {id}, !.cached = None]
<1>1. /\ request[c] # None /\ request[c].inside /\ request[c].kind = "execute"
      /\ Leave(c, s) /\ Written(s) /\ UNCHANGED <<current, calls, previewed, raised>>
      /\ session' = [session EXCEPT ![s].runs = @ \cup {id}, ![s].cached = None]
  BY DEF ExecuteReturns, Inside
<1>2. /\ s \in Session /\ e \in EstateSession /\ FreshSession(e) /\ Sound(request[c])
      /\ request[c] \in Request /\ e.receipt \in previewed[s] \cup {None}
  BY <1>1, InsideLemma
<1>3. id \in Id /\ request[c].plan \in Plan
  BY <1>1, <1>2 DEF Sound, Request
<1>4. runs' \in [Id -> RunRecord \cup {None}]
  <2>. PICK state \in {"COMPLETED", "COMPLETED_WITH_FAILURES"} :
         runs' = [runs EXCEPT ![id] = [RunState(request[c], state) EXCEPT !.bundle = TRUE]]
    BY DEF ExecuteReturns
  <2>1. [RunState(request[c], state) EXCEPT !.bundle = TRUE] \in RunRecord
    BY <1>3 DEF RunState, RunRecord, Plan
  <2>. QED  BY <1>3, <2>1 DEF Inv, TypeOK
<1>5. session' = [session EXCEPT ![s] = x]
  BY <1>1
<1>. HIDE DEF e, id
<1>6. /\ x \in EstateSession
      /\ x.snapshot = e.snapshot /\ x.assessment = e.assessment
      /\ x.transform = e.transform /\ x.plan = e.plan
      /\ x.receipt = e.receipt /\ x.cached = None /\ x.sequence = e.sequence
  BY <1>2, <1>3 DEF EstateSession
<1>. HIDE DEF x
<1>7. FreshSession(x)
  BY <1>2, <1>6 DEF FreshSession, Effective
<1>8. /\ raised' \subseteq Session /\ raised \ {s} \subseteq raised'
      /\ previewed' \in [Session -> SUBSET Version]
      /\ \A z \in Session : previewed[z] \subseteq previewed'[z]
      /\ x.receipt \in previewed'[s] \cup {None}
  BY <1>1, <1>2, <1>6 DEF Inv, TypeOK
<1>. HIDE DEF s
<1>. QED  BY <1>1, <1>2, <1>4, <1>5, <1>6, <1>7, <1>8, ReturnLemma DEF s, e

LEMMA RollbackReturnsInv ==
  ASSUME Inv, NEW c \in Client, RollbackReturns(c) PROVE Inv'
<1>. DEFINE s == request[c].on  e == session[s]  x == [e EXCEPT !.cached = None]
<1>1. /\ request[c] # None /\ request[c].inside
      /\ Leave(c, s) /\ Written(s) /\ UNCHANGED <<current, runs, calls, previewed, raised>>
      /\ session' = [session EXCEPT ![s] = x]
  BY DEF RollbackReturns, Inside
<1>2. /\ s \in Session /\ e \in EstateSession /\ FreshSession(e)
      /\ e.receipt \in previewed[s] \cup {None}
  BY <1>1, InsideLemma
<1>. HIDE DEF e
<1>3. /\ x \in EstateSession
      /\ x.snapshot = e.snapshot /\ x.assessment = e.assessment
      /\ x.transform = e.transform /\ x.plan = e.plan
      /\ x.receipt = e.receipt /\ x.cached = None /\ x.sequence = e.sequence
  BY <1>2 DEF EstateSession
<1>. HIDE DEF x
<1>4. FreshSession(x)
  BY <1>2, <1>3 DEF FreshSession, Effective
<1>5. /\ runs' \in [Id -> RunRecord \cup {None}]
      /\ raised' \subseteq Session /\ raised \ {s} \subseteq raised'
      /\ previewed' \in [Session -> SUBSET Version]
      /\ \A z \in Session : previewed[z] \subseteq previewed'[z]
      /\ x.receipt \in previewed'[s] \cup {None}
  BY <1>1, <1>2, <1>3 DEF Inv, TypeOK
<1>. HIDE DEF s
<1>. QED  BY <1>1, <1>2, <1>3, <1>4, <1>5, ReturnLemma DEF s, e

LEMMA ValidateReturnsInv ==
  ASSUME Inv, NEW c \in Client, ValidateReturns(c) PROVE Inv'
<1>. USE WorkspaceAssumption
<1>. PICK s \in Session : s = request[c].on
  BY InsideLemma DEF ValidateReturns, Inside
<1>. DEFINE e == session[s]  n == target[Home(s)]
            report == [source |-> request[c].source, target |-> n]
            x == [e EXCEPT !.validation = report, !.cached = n]
<1>1. /\ request[c] # None /\ request[c].inside /\ request[c].kind = "validate"
      /\ Leave(c, s) /\ UNCHANGED <<current, target, runs, calls, previewed>>
      /\ session' = [session EXCEPT ![s].validation = report, ![s].cached = n]
      /\ raised' = raised \ {s}
  BY DEF ValidateReturns, Inside
<1>2. /\ e \in EstateSession /\ FreshSession(e) /\ Sound(request[c])
      /\ request[c] \in Request /\ e.receipt \in previewed[s] \cup {None}
  BY <1>1, InsideLemma
<1>3. n \in Content
  <2>1. Home(s) \in Session
    BY DEF Home, Session
  <2>. QED  BY <2>1 DEF Inv, TypeOK
<1>4. report \in Report
  BY <1>1, <1>2, <1>3 DEF Sound, Request, Report
<1>5. session' = [session EXCEPT ![s] = x]
  BY <1>1
<1>. HIDE DEF e, n, report
<1>6. /\ x \in EstateSession
      /\ x.snapshot = e.snapshot /\ x.assessment = e.assessment
      /\ x.transform = e.transform /\ x.plan = e.plan
      /\ x.receipt = e.receipt /\ x.cached = n /\ x.sequence = e.sequence
  BY <1>2, <1>3, <1>4 DEF EstateSession
<1>. HIDE DEF x
<1>7. FreshSession(x)
  BY <1>2, <1>6 DEF FreshSession, Effective
<1>8. Current(s)'
  <2>1. session'[s].cached = n /\ target' = target
    BY <1>1, <1>5, <1>6 DEF Inv, TypeOK
  <2>. QED  BY <2>1 DEF Current, n, Home
<1>9. /\ runs' \in [Id -> RunRecord \cup {None}]
      /\ raised' \subseteq Session /\ raised \ {s} \subseteq raised'
      /\ previewed' \in [Session -> SUBSET Version]
      /\ \A z \in Session : previewed[z] \subseteq previewed'[z]
      /\ x.receipt \in previewed'[s] \cup {None}
  BY <1>1, <1>2, <1>6 DEF Inv, TypeOK
<1>10. /\ request[c] # None /\ request[c].inside /\ s = request[c].on
       /\ Leave(c, s) /\ UNCHANGED <<current, target, runs, calls, previewed>>
  BY <1>1
<1>11. x.receipt = e.receipt /\ x.sequence = e.sequence
  BY <1>6
<1>. QED  BY <1>5, <1>6, <1>7, <1>8, <1>9, <1>10, <1>11, ReturnLemma DEF e

LEMMA RefreshReturnsInv ==
  ASSUME Inv, NEW c \in Client, RefreshReturns(c) PROVE Inv'
<1>. USE WorkspaceAssumption
<1>. PICK s \in Session : s = request[c].on
  BY InsideLemma DEF RefreshReturns, Inside
<1>. DEFINE e == session[s]  n == target[Home(s)]  x == [e EXCEPT !.cached = n]
<1>1. /\ request[c] # None /\ request[c].inside
      /\ Leave(c, s) /\ UNCHANGED <<current, target, runs, calls, previewed>>
      /\ session' = [session EXCEPT ![s] = x]
      /\ raised' = raised \ {s}
  BY DEF RefreshReturns, Inside
<1>2. /\ e \in EstateSession /\ FreshSession(e) /\ e.receipt \in previewed[s] \cup {None}
  BY <1>1, InsideLemma
<1>3. n \in Content
  <2>1. Home(s) \in Session
    BY DEF Home, Session
  <2>. QED  BY <2>1 DEF Inv, TypeOK
<1>. HIDE DEF e, n
<1>4. /\ x \in EstateSession
      /\ x.snapshot = e.snapshot /\ x.assessment = e.assessment
      /\ x.transform = e.transform /\ x.plan = e.plan
      /\ x.receipt = e.receipt /\ x.cached = n /\ x.sequence = e.sequence
  BY <1>2, <1>3 DEF EstateSession
<1>. HIDE DEF x
<1>5. FreshSession(x)
  BY <1>2, <1>4 DEF FreshSession, Effective
<1>6. Current(s)'
  <2>1. session'[s].cached = n /\ target' = target
    BY <1>1, <1>4 DEF Inv, TypeOK
  <2>. QED  BY <2>1 DEF Current, n, Home
<1>7. /\ runs' \in [Id -> RunRecord \cup {None}]
      /\ raised' \subseteq Session /\ raised \ {s} \subseteq raised'
      /\ previewed' \in [Session -> SUBSET Version]
      /\ \A z \in Session : previewed[z] \subseteq previewed'[z]
      /\ x.receipt \in previewed'[s] \cup {None}
  BY <1>1, <1>2, <1>4 DEF Inv, TypeOK
<1>. QED  BY <1>1, <1>4, <1>5, <1>6, <1>7, ReturnLemma DEF e

\* Only a run that raises may have written; its session's extract is excused.
LEMMA RaisesInv == ASSUME Inv, NEW c \in Client, Raises(c) PROVE Inv'
<1>. DEFINE s == request[c].on  x == session[s]
<1>1. /\ request[c] # None /\ request[c].inside /\ request[c].kind # "rollback"
      /\ LeaveRaising(c, s) /\ UNCHANGED <<current, session, runs, calls, previewed>>
  BY DEF Raises
<1>2. /\ s \in Session /\ x \in EstateSession /\ FreshSession(x)
      /\ x.receipt \in previewed[s] \cup {None}
  BY <1>1, InsideLemma
<1>3. session' = [session EXCEPT ![s] = x]
  BY <1>1 DEF Inv, TypeOK
<1>4. /\ runs' \in [Id -> RunRecord \cup {None}]
      /\ previewed' \in [Session -> SUBSET Version]
      /\ \A z \in Session : previewed[z] \subseteq previewed'[z]
      /\ x.receipt \in previewed'[s] \cup {None}
  BY <1>1, <1>2 DEF Inv, TypeOK
<1>5. \/ Written(s) /\ raised' = raised \cup {s}
      \/ UNCHANGED <<target, raised>> /\ ~Writes(c, s)
  BY <1>1 DEF Raises, Writes, Inside
<1>6. raised' \subseteq Session /\ raised \ {s} \subseteq raised'
  BY <1>2, <1>5 DEF Inv, TypeOK
<1>7. x.sequence = session[s].sequence /\ x.cached = session[s].cached
  OBVIOUS
<1>. HIDE DEF s, x
<1>. QED  BY <1>1, <1>2, <1>3, <1>4, <1>5, <1>6, <1>7, ReturnLemma DEF s

LEMMA ArriveAsks ==
  ASSUME Inv, NEW c \in Client, Arrive(c)
  PROVE  \E kind \in Kind, run \in Id \cup {None}, resume \in BOOLEAN :
             Ask(c, Asked(kind, run, resume))
BY DEF Arrive, Kind, Stored

LEMMA StepInv == Inv /\ [Next]_vars => Inv'
<1>. SUFFICES ASSUME Inv, [Next]_vars PROVE Inv'
  OBVIOUS
<1>1. CASE Assess \/ Map \/ PlanWaves \/ BuildPlan \/ Reset \/ Restart
  BY <1>1, AssessInv, MapInv, PlanWavesInv, BuildPlanInv, ResetInv, RestartInv
<1>2. ASSUME NEW c \in Client, Arrive(c)
      PROVE  Inv'
  BY <1>2, ArriveAsks, AskInv
<1>3. ASSUME NEW c \in Client, Proceed(c)
      PROVE  Inv'
  BY <1>3, WakeInv, DiscoverReturnsInv, DryRunReturnsInv, ExecuteReturnsInv,
     RollbackReturnsInv, ValidateReturnsInv, RefreshReturnsInv, RaisesInv DEF Proceed
<1>4. CASE UNCHANGED vars
  <2>1. UNCHANGED <<current, session, queue, request, target, runs, calls, previewed, raised>>
    BY <1>4 DEF vars
  <2>2. Live' = Live /\ Waiting' = Waiting
    BY <2>1 DEF Live, Waiting
  <2>3. TypeOK' /\ Lines' /\ Receipts' /\ DownstreamIsFresh'
    BY <2>1 DEF Inv, TypeOK, Lines, Receipts, DownstreamIsFresh
  <2>4. \A c \in Live' : Sound(request[c])'
    BY <2>1, <2>2 DEF Inv, Sound
  <2>5. Accounts'
    BY <2>1, <2>2 DEF Inv, Accounts
  <2>6. CacheIsCurrent'
    BY <2>1 DEF Inv, CacheIsCurrent, Current, Writing, Inside, Home
  <2>. QED  BY <2>3, <2>4, <2>5, <2>6 DEF Inv
<1>. QED  BY <1>1, <1>2, <1>3, <1>4 DEF Next

LEMMA InvHolds == Spec => []Inv
BY InitInv, StepInv, PTL DEF Spec

-----------------------------------------------------------------------------
(* Only a step that finds the plan covered lets a run go inside.           *)

StartsCovered(c) ==
    Inside(c, "execute")' /\ ~Inside(c, "execute")
        => request'[c].plan.of \in previewed[request'[c].on]

LEMMA BeginCovered ==
  ASSUME Inv, NEW c \in Client, NEW q \in Request, Sound(q), Begin(c, q)
  PROVE  \A d \in Client : StartsCovered(d)
<1>. PICK r : /\ request' = [request EXCEPT ![c] = r]
              /\ r # None /\ r.kind = "execute" =>
                    r.plan = q.plan /\ r.on = q.on /\ Covers(q) /\ q.kind = "execute"
  <2>1. CASE q.kind # "execute"
    <3>1. [q EXCEPT !.inside = TRUE].kind = q.kind
      BY DEF Request
    <3>2. request' = [request EXCEPT ![c] = [q EXCEPT !.inside = TRUE]]
      BY <2>1 DEF Begin, Hold
    <3>. QED  BY <2>1, <3>1, <3>2
  <2>2. CASE q.kind = "execute"
    <3>. DEFINE p == [[q EXCEPT !.run = RunId(q)] EXCEPT !.inside = TRUE]
    <3>1. p.plan = q.plan /\ p.on = q.on
      BY DEF Request
    <3>2. \/ request' = [request EXCEPT ![c] = None]
          \/ Covers(q) /\ request' = [request EXCEPT ![c] = p]
      BY <2>2 DEF Begin, BeginExecute, Hold, Leave, LeaveRaising
    <3>. HIDE DEF p
    <3>. QED  BY <2>2, <3>1, <3>2
  <2>. QED  BY <2>1, <2>2
<1>1. /\ request'[c] = r /\ \A d \in Client \ {c} : request'[d] = request[d]
  BY DEF Inv, TypeOK
<1>2. ASSUME NEW d \in Client \ {c}
      PROVE  StartsCovered(d)
  BY <1>1 DEF StartsCovered, Inside
<1>3. StartsCovered(c)
  <2>. SUFFICES ASSUME r # None, r.kind = "execute"
                PROVE  r.plan.of \in previewed[r.on]
    BY <1>1 DEF StartsCovered, Inside
  <2>1. /\ q.receipt = q.plan.of /\ q.receipt \in previewed[q.on] \cup {None}
        /\ q.plan \in Plan /\ r.plan = q.plan /\ r.on = q.on
    BY DEF Covers, Sound, Request
  <2>2. q.plan.of # None
    BY <2>1, WorkspaceAssumption DEF Plan
  <2>. QED  BY <2>1, <2>2
<1>. QED  BY <1>2, <1>3

LEMMA StepCovered == Inv /\ [Next]_vars => \A d \in Client : StartsCovered(d)
<1>. SUFFICES ASSUME Inv, [Next]_vars PROVE \A d \in Client : StartsCovered(d)
  OBVIOUS
<1>1. ASSUME UNCHANGED request
      PROVE  \A d \in Client : StartsCovered(d)
  BY <1>1 DEF StartsCovered, Inside
<1>2. ASSUME NEW c \in Client, NEW s, Leave(c, s) \/ LeaveRaising(c, s)
      PROVE  \A d \in Client : StartsCovered(d)
  <2>1. \A d \in Client : request'[d] \in {request[d], None}
    BY <1>2 DEF Leave, LeaveRaising, Inv, TypeOK
  <2>. QED  BY <2>1 DEF StartsCovered, Inside
<1>3. CASE UNCHANGED vars
  BY <1>1, <1>3 DEF vars
<1>4. CASE Assess \/ Map \/ PlanWaves \/ BuildPlan \/ Reset
  BY <1>1, <1>4 DEF Assess, Map, PlanWaves, BuildPlan, Reset
<1>5. CASE Restart
  <2>1. \A d \in Client : request'[d] = None
    BY <1>5 DEF Restart
  <2>. QED  BY <2>1 DEF StartsCovered, Inside
<1>6. ASSUME NEW c \in Client, Arrive(c)
      PROVE  \A d \in Client : StartsCovered(d)
  <2>. PICK kind \in Kind, run \in Id \cup {None}, resume \in BOOLEAN :
         Ask(c, Asked(kind, run, resume))
    BY <1>6, ArriveAsks
  <2>. DEFINE q == Asked(kind, run, resume)
  <2>1. q \in Request /\ Sound(q) /\ ~q.inside
    BY AskedLemma DEF Ask, Asked
  <2>. HIDE DEF q
  <2>2. CASE Begin(c, q)
    BY <2>1, <2>2, BeginCovered
  <2>3. CASE request' = [request EXCEPT ![c] = q]
    <3>1. request'[c] = q /\ \A d \in Client \ {c} : request'[d] = request[d]
      BY <2>3 DEF Inv, TypeOK
    <3>. QED  BY <2>1, <3>1 DEF StartsCovered, Inside
  <2>. QED  BY <2>2, <2>3 DEF Ask, q
<1>7. ASSUME NEW c \in Client, Wake(c)
      PROVE  \A d \in Client : StartsCovered(d)
  BY <1>7, InsideLemma, BeginCovered DEF Wake
<1>8. ASSUME NEW c \in Client, Proceed(c), ~Wake(c)
      PROVE  \A d \in Client : StartsCovered(d)
  BY <1>2, <1>8 DEF Proceed, DiscoverReturns, DryRunReturns, ExecuteReturns,
     RollbackReturns, ValidateReturns, RefreshReturns, Raises
<1>. QED  BY <1>3, <1>4, <1>5, <1>6, <1>7, <1>8 DEF Next

-----------------------------------------------------------------------------
(* Every variable keeps its type within the bounds, and whoever is inside  *)
(* a session's locked block is the first in its line.                      *)
THEOREM TypesAndLocks == Spec => []TypeOK
BY InvHolds, PTL DEF Inv

(* A session's assessment, mapping and plan are of the snapshot it holds,  *)
(* whatever requests finish in whatever order.                             *)
THEOREM DownstreamStaysFresh == Spec => []DownstreamIsFresh
BY InvHolds, PTL DEF Inv

(* Where sessions own their platform, a cached extract is what the platform*)
(* holds, unless a run is writing or has raised.                           *)
THEOREM CacheStaysCurrent == Spec => []CacheIsCurrent
BY InvHolds, PTL DEF Inv

(* A run that gets as far as writing applies a plan whose operations were  *)
(* previewed on that session, however replans, discoveries and resets fall *)
(* between the preview, the request and the lock.                          *)
THEOREM OnlyPreviewedPlansAreWritten == Spec => OnlyPreviewedPlansWritten
<1>1. Inv /\ [Next]_vars =>
        [\A c \in Client :
           Inside(c, "execute")' /\ ~Inside(c, "execute")
               => request'[c].plan.of \in previewed[request'[c].on]]_vars
  BY StepCovered DEF StartsCovered
<1>. QED  BY <1>1, InvHolds, PTL DEF Spec, OnlyPreviewedPlansWritten
=============================================================================
