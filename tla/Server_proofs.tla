---------------------------- MODULE Server_proofs ----------------------------
(***************************************************************************)
(* Proofs about Server, for every set of requests, batch size, address     *)
(* list and origin latency; and about the loop of envSlice, which reads    *)
(* the address list, for every string.                                     *)
(***************************************************************************)
EXTENDS Server, WellFoundedInduction, SequenceTheorems, TLAPS

\* How far main, the shutdown goroutine, the two servers and the Redis client
\* can be apart.
Phases ==
  /\ main \in {"load", "newl2", "again", "local"} => l2 = "none"
  /\ main \in {"grpc", "client"} => l2 \in {"nil", "open"}
  /\ main \in {"listen", "serve"} => l2 = "open"
  /\ main \in Booting \ {"listen"} => stop = "absent"
  /\ main = "listen" => stop # "absent"
  /\ l2 \in {"none", "nil"} => stop = "absent"
  /\ stop = "absent" => http = "off"
  /\ main \in {"load", "newl2", "again", "local", "grpc"} => grpc = "off"
  /\ http = "closed" => stop = "done"
  /\ main \in {"return", "close", "exit0"} => http = "closed"
  /\ l2 = "closed" => http = "closed"
  /\ stop \in {"close", "done"} => grpc = "stopped"
  /\ stop = "absent" => grpc \in {"off", "serving"}

\* no RPC outlives the gRPC server
RpcsServed == grpc \in {"off", "stopped"} => \A r \in Reqs : ~BusyRpc(r)

Inv == TypeOK /\ Phases /\ RpcsServed

-----------------------------------------------------------------------------
(* What the steps do to the requests *)

\* A request that comes in is well formed and runs.
LEMMA ArriveFacts ==
  ASSUME req \in [Reqs -> Request], NEW r \in Reqs, NEW api \in APIs, NEW op \in Ops,
         NEW size \in Nat, Arrive(r, api, op, size)
  PROVE  /\ req' \in [Reqs -> Request]
         /\ \A q \in Reqs \ {r} : req'[q] = req[q]
         /\ req'[r].api = api /\ req'[r].st = "run"
<1> DEFINE x == Fresh(api, op, size, "run")
<1>2. x \in Request
  BY DEF Fresh, Request
<1>3. x.api = api /\ x.st = "run"
  BY DEF Fresh
<1>4. req' = [req EXCEPT ![r] = x]
  BY DEF Arrive
<1> HIDE DEF x
<1> QED BY <1>2, <1>3, <1>4

\* Counting a key leaves the request well formed and running.
LEMMA CountedFacts ==
  ASSUME req \in [Reqs -> Request], NEW r \in Reqs, NEW good \in BOOLEAN,
         req[r].todo > 0, req' = Counted(r, good)
  PROVE  /\ req' \in [Reqs -> Request]
         /\ \A q \in Reqs \ {r} : req'[q] = req[q]
         /\ req'[r].api = req[r].api /\ req'[r].st = req[r].st
<1> DEFINE a == IF good THEN req[r].ok + 1 ELSE req[r].ok
           b == IF good THEN req[r].fail ELSE req[r].fail + 1
           t == req[r].todo - 1
           x == [req[r] EXCEPT !.todo = t, !.ok = a, !.fail = b]
<1>1. req[r] \in Request
  OBVIOUS
<1>2. req[r].ok \in Nat /\ req[r].fail \in Nat /\ req[r].todo \in Nat
  BY <1>1 DEF Request
<1>3. a \in Nat /\ b \in Nat /\ t \in Nat
  BY <1>2
<1>4. req' = [req EXCEPT ![r] = x]
  BY <1>1 DEF Counted, Request
<1> HIDE DEF a, b, t
<1>5. x \in Request /\ x.api = req[r].api /\ x.st = req[r].st
  BY <1>1, <1>3 DEF Request
<1> HIDE DEF x
<1> QED BY <1>4, <1>5

LEMMA StatusFacts ==
  ASSUME req \in [Reqs -> Request], NEW r \in Reqs, NEW st \in {"answered", "error"},
         req' = [req EXCEPT ![r].st = st]
  PROVE  /\ req' \in [Reqs -> Request]
         /\ \A q \in Reqs \ {r} : req'[q] = req[q]
         /\ req'[r].st = st
<1> DEFINE x == [req[r] EXCEPT !.st = st]
<1>1. req[r] \in Request
  OBVIOUS
<1>2. x \in Request /\ x.st = st
  BY <1>1 DEF Request
<1>3. req' = [req EXCEPT ![r] = x]
  OBVIOUS
<1> HIDE DEF x
<1> QED BY <1>2, <1>3

\* CloseHTTP touches nothing of a request but its context.
LEMMA CloseHTTPFacts ==
  ASSUME req \in [Reqs -> Request], CloseHTTP
  PROVE  /\ req' \in [Reqs -> Request]
         /\ \A q \in Reqs : req'[q].api = req[q].api /\ req'[q].st = req[q].st
<1> DEFINE cut(q) == [req[q] EXCEPT !.live = FALSE]
<1>1. \A q \in Reqs : /\ cut(q) \in Request
                      /\ cut(q).api = req[q].api /\ cut(q).st = req[q].st
  <2> SUFFICES ASSUME NEW q \in Reqs
               PROVE  /\ cut(q) \in Request
                      /\ cut(q).api = req[q].api /\ cut(q).st = req[q].st
    OBVIOUS
  <2>1. req[q] \in Request
    OBVIOUS
  <2> QED BY <2>1 DEF Request
<1>2. req' = [q \in Reqs |-> IF Working(q, "get") /\ req[q].api = "http"
                            THEN cut(q) ELSE req[q]]
  BY DEF CloseHTTP
<1> HIDE DEF cut
<1> QED BY <1>1, <1>2

LEMMA CancelFacts ==
  ASSUME req \in [Reqs -> Request], NEW r \in Reqs, Cancel(r)
  PROVE  /\ req' \in [Reqs -> Request]
         /\ \A q \in Reqs : req'[q].api = req[q].api /\ req'[q].st = req[q].st
<1> DEFINE x == [req[r] EXCEPT !.live = FALSE]
<1>1. req[r] \in Request
  OBVIOUS
<1>2. x \in Request /\ x.api = req[r].api /\ x.st = req[r].st
  BY <1>1 DEF Request
<1>3. req' = [req EXCEPT ![r] = x]
  BY DEF Cancel
<1> HIDE DEF x
<1> QED BY <1>2, <1>3

-----------------------------------------------------------------------------
(* The invariant *)

LEMMA InitInv == Init => Inv
<1> SUFFICES ASSUME Init PROVE Inv
  OBVIOUS
<1> DEFINE x == Fresh("http", "other", 0, "free")
<1>1. x \in Request /\ x.st = "free"
  BY DEF Fresh, Request, APIs, Ops
<1>2. req = [r \in Reqs |-> x]
  BY DEF Init
<1>3. jitter \in Int
  BY ServerAssumption DEF Init
<1> HIDE DEF x
<1>4. TypeOK
  BY <1>1, <1>2, <1>3 DEF Init, TypeOK, Running, Booting
<1>5. Phases
  BY DEF Init, Phases
<1>6. RpcsServed
  BY <1>1, <1>2 DEF RpcsServed, BusyRpc, Busy
<1> QED BY <1>4, <1>5, <1>6 DEF Inv

\* A step that leaves the requests as they are, or touches their contexts only,
\* keeps what is said of them if it keeps the phases.
LEMMA RequestsKept ==
  ASSUME Inv,
         \A q \in Reqs : req'[q].api = req[q].api /\ req'[q].st = req[q].st,
         \/ grpc' \in {"serving", "draining"}
         \/ grpc' = grpc
         \/ \A q \in Reqs : ~BusyRpc(q)
  PROVE  RpcsServed'
  BY DEF Inv, RpcsServed, BusyRpc, Busy

\* The steps of main keep the invariant.
LEMMA MainInv == ASSUME Inv, MainStep PROVE Inv'
<1> USE DEF Inv
<1>1. UNCHANGED req
  BY DEF MainStep, Load, Connected, Settle, PingFails, NoRedis, StartGRPC, ListenFails,
         BuildHTTP, ListenAndServe, ServerClosed, CloseRedis, Exit
<1>2. TypeOK'
  BY <1>1 DEF TypeOK, MainStep, Load, Connected, Settle, PingFails, NoRedis, StartGRPC,
         ListenFails, BuildHTTP, ListenAndServe, ServerClosed, CloseRedis, Exit,
         Running, Booting, Ended
<1>3. Phases'
  <2>1. CASE Load \/ Connected \/ PingFails \/ NoRedis
    BY <2>1 DEF TypeOK, Phases, Booting, Load, Connected, Settle, PingFails, NoRedis
  <2>2. CASE StartGRPC \/ ListenFails \/ BuildHTTP
    BY <2>2 DEF TypeOK, Phases, Booting, StartGRPC, ListenFails, BuildHTTP
  <2>3. CASE ListenAndServe \/ ServerClosed \/ CloseRedis \/ Exit
    BY <2>3 DEF TypeOK, Phases, Booting, ListenAndServe, ServerClosed, CloseRedis, Exit
  <2> QED BY <2>1, <2>2, <2>3 DEF MainStep
<1>4. grpc' \in {"serving", "draining"} \/ grpc' = grpc
  BY DEF MainStep, Load, Connected, Settle, PingFails, NoRedis, StartGRPC, ListenFails,
         BuildHTTP, ListenAndServe, ServerClosed, CloseRedis, Exit
<1>5. RpcsServed'
  BY <1>1, <1>4, RequestsKept
<1> QED BY <1>2, <1>3, <1>5

\* The steps of the shutdown goroutine keep the invariant.
LEMMA StopInv == ASSUME Inv, StopStep PROVE Inv'
<1>1. /\ req' \in [Reqs -> Request]
      /\ \A q \in Reqs : req'[q].api = req[q].api /\ req'[q].st = req[q].st
  <2>1. CASE CloseHTTP
    BY <2>1, CloseHTTPFacts DEF Inv, TypeOK
  <2>2. CASE Notify \/ GracefulStop \/ Drained
    BY <2>2 DEF Inv, TypeOK, Notify, GracefulStop, Drained
  <2> QED BY <2>1, <2>2 DEF StopStep
<1>2. TypeOK'
  BY <1>1 DEF Inv, TypeOK, StopStep, Notify, GracefulStop, Drained, CloseHTTP
<1>3. Phases'
  BY DEF Inv, TypeOK, Phases, Booting, Alive, Running,
         StopStep, Notify, GracefulStop, Drained, CloseHTTP
<1>4. \/ grpc' \in {"serving", "draining"}
      \/ grpc' = grpc
      \/ \A q \in Reqs : ~BusyRpc(q)
  BY DEF StopStep, Notify, GracefulStop, Drained, CloseHTTP
<1>5. RpcsServed'
  BY <1>1, <1>4, RequestsKept
<1> QED BY <1>2, <1>3, <1>5 DEF Inv

\* The steps of a handler keep the invariant.
LEMMA HandleInv == ASSUME Inv, NEW r \in Reqs, Handle(r) PROVE Inv'
<1> DEFINE Key == GetOk(r) \/ GetFail(r) \/ SetOk(r) \/ SetFail(r) \/ StatsOk(r)
<1>0. req \in [Reqs -> Request] /\ Busy(r)
  BY DEF Inv, TypeOK, Handle, GetOk, GetFail, SetOk, SetFail, StatsOk, Panic, Answer, Working
<1>1. UNCHANGED <<env, addrs, jitter, l2, grpc, http, stop, sig>>
  BY DEF Handle, GetOk, GetFail, SetOk, SetFail, StatsOk, Panic, Answer
<1>2. main' \in {main, "panic"}
  BY DEF Handle, GetOk, GetFail, SetOk, SetFail, StatsOk, Panic, Answer
<1>3. Phases'
  BY <1>1, <1>2 DEF Inv, Phases, Booting
<1>4. CASE Key
  <2>1. PICK good \in BOOLEAN : req' = Counted(r, good)
    BY <1>4 DEF GetOk, GetFail, SetOk, SetFail, StatsOk
  <2>2. req[r].todo > 0
    BY <1>4 DEF GetOk, GetFail, SetOk, SetFail, StatsOk, Working
  <2>3. /\ req' \in [Reqs -> Request]
        /\ \A q \in Reqs \ {r} : req'[q] = req[q]
        /\ req'[r].api = req[r].api /\ req'[r].st = req[r].st
    BY <1>0, <2>1, <2>2, CountedFacts
  <2>4. TypeOK'
    BY <1>1, <1>2, <2>3 DEF Inv, TypeOK, Ended
  <2>5. RpcsServed'
    BY <1>1, <2>3 DEF Inv, RpcsServed, BusyRpc, Busy
  <2> QED BY <1>3, <2>4, <2>5 DEF Inv
<1>5. CASE Answer(r) \/ (Panic(r) /\ req[r].api = "http")
  <2>1. PICK st \in {"answered", "error"} : req' = [req EXCEPT ![r].st = st]
    BY <1>5 DEF Answer, Panic
  <2>2. /\ req' \in [Reqs -> Request]
        /\ \A q \in Reqs \ {r} : req'[q] = req[q]
        /\ req'[r].st = st
    BY <1>0, <2>1, StatusFacts
  <2>3. TypeOK'
    BY <1>1, <1>2, <2>2 DEF Inv, TypeOK, Ended
  <2>4. RpcsServed'
    BY <1>1, <2>1, <2>2 DEF Inv, RpcsServed, BusyRpc, Busy
  <2> QED BY <1>3, <2>3, <2>4 DEF Inv
<1>6. CASE Panic(r) /\ req[r].api # "http"
  <2>1. UNCHANGED req
    BY <1>0, <1>6 DEF Panic, Request, APIs
  <2>2. TypeOK'
    BY <1>1, <1>2, <2>1 DEF Inv, TypeOK, Ended
  <2>3. RpcsServed'
    BY <1>1, <2>1, RequestsKept
  <2> QED BY <1>3, <2>2, <2>3 DEF Inv
<1> QED BY <1>4, <1>5, <1>6 DEF Handle

\* What clients, signals and the network do keeps the invariant.
LEMMA EnvironmentInv == ASSUME Inv, Environment PROVE Inv'
<1>1. CASE Signal \/ AcceptFails
  <2>1. UNCHANGED <<req, grpc>>
    BY <1>1 DEF Signal, AcceptFails
  <2>2. TypeOK'
    BY <1>1 DEF Inv, TypeOK, Ended, Signal, AcceptFails
  <2>3. Phases'
    BY <1>1 DEF Inv, Phases, Booting, Signal, AcceptFails
  <2>4. RpcsServed'
    BY <2>1, RequestsKept
  <2> QED BY <2>2, <2>3, <2>4 DEF Inv
<1>2. ASSUME NEW r \in Reqs, Cancel(r) PROVE Inv'
  <2>1. UNCHANGED <<main, env, addrs, jitter, l2, grpc, http, stop, sig>>
    BY <1>2 DEF Cancel
  <2>2. req \in [Reqs -> Request]
    BY DEF Inv, TypeOK
  <2>3. TypeOK'
    BY <1>2, <2>1, <2>2, CancelFacts DEF Inv, TypeOK
  <2>4. Phases'
    BY <2>1 DEF Inv, Phases
  <2>5. RpcsServed'
    BY <1>2, <2>1, <2>2, CancelFacts, RequestsKept
  <2> QED BY <2>3, <2>4, <2>5 DEF Inv
<1>3. ASSUME NEW r \in Reqs, NEW api \in APIs, NEW op \in Ops, NEW size \in Sizes(api, op),
             Arrive(r, api, op, size)
      PROVE  Inv'
  <2>1. UNCHANGED <<main, env, addrs, jitter, l2, grpc, http, stop, sig>>
    BY <1>3 DEF Arrive
  <2>2. req \in [Reqs -> Request] /\ size \in Nat
    BY <1>3, ServerAssumption DEF Inv, TypeOK, Sizes, Ops
  <2>3. /\ req' \in [Reqs -> Request]
        /\ \A q \in Reqs \ {r} : req'[q] = req[q]
        /\ req'[r].api = api /\ req'[r].st = "run"
    BY <1>3, <2>2, ArriveFacts
  <2>4. TypeOK'
    BY <2>1, <2>3 DEF Inv, TypeOK
  <2>5. Phases'
    BY <2>1 DEF Inv, Phases
  <2>6. RpcsServed'
    <3>1. api = "grpc" => grpc = "serving"
      BY <1>3 DEF Arrive
    <3> QED BY <2>1, <2>3, <3>1 DEF Inv, RpcsServed, BusyRpc, Busy
  <2> QED BY <2>4, <2>5, <2>6 DEF Inv
<1> QED BY <1>1, <1>2, <1>3 DEF Environment

LEMMA StutterInv == ASSUME Inv, UNCHANGED vars PROVE Inv'
<1>1. TypeOK' /\ Phases'
  BY DEF Inv, TypeOK, Phases, vars
<1>2. RpcsServed'
  BY RequestsKept DEF vars
<1> QED BY <1>1, <1>2 DEF Inv

LEMMA SpecInv == Spec => []Inv
<1>1. Inv /\ [Next]_vars => Inv'
  BY MainInv, StopInv, HandleInv, EnvironmentInv, StutterInv DEF Next
<1> QED BY <1>1, InitInv, PTL DEF Spec

-----------------------------------------------------------------------------
(* The theorems *)

\* Every reachable state of the process is well typed: the counts of a batch stay
\* natural numbers.
THEOREM ServerTypeCorrect == Spec => []TypeOK
<1>1. Inv => TypeOK
  BY DEF Inv
<1> QED BY <1>1, SpecInv, PTL

\* HTTP requests are cut, Redis is closed and the process ends in order only after
\* every RPC has returned.
THEOREM ServerDrainedBeforeClose == Spec => []DrainedBeforeClose
<1>1. Inv => DrainedBeforeClose
  BY DEF Inv, Phases, RpcsServed, DrainedBeforeClose
<1> QED BY <1>1, SpecInv, PTL

-----------------------------------------------------------------------------
(* What envSlice reads, for every string *)

\* Induction, over a set in place of a predicate.
LEMMA SetInduction ==
  ASSUME NEW S, 0 \in S, \A n \in Nat : n \in S => n + 1 \in S
  PROVE  Nat \subseteq S
<1> DEFINE T == Nat \ S
           R == OpToRel(<, Nat)
<1> SUFFICES ASSUME T # {} PROVE FALSE
  OBVIOUS
<1>1. PICK m \in T : \A y \in T : ~(<<y, m>> \in R)
  <2>1. IsWellFoundedOn(R, Nat) /\ T \subseteq Nat
    BY NatLessThanWellFounded
  <2> HIDE DEF T, R
  <2> QED BY <2>1, WFMin
<1>2. m # 0 /\ m - 1 \in Nat
  OBVIOUS
<1>3. <<m - 1, m>> \in R
  BY <1>2 DEF OpToRel
<1>4. m - 1 \notin T
  <2> HIDE DEF T, R
  <2> QED BY <1>1, <1>3
<1>5. m - 1 \in S /\ m \notin S
  BY <1>2, <1>4
<1>6. (m - 1) + 1 \in S /\ (m - 1) + 1 = m
  BY <1>2, <1>5
<1> QED BY <1>5, <1>6

Empty == [result |-> <<>>, current |-> <<>>]

\* The loop has a state after each character, got from the one before.
LEMMA ScannedDef ==
  ASSUME NEW v, Len(v) \in Nat
  PROVE  Scanned(v) = [i \in 0 .. Len(v) |-> IF i = 0 THEN Empty
                                             ELSE Scan(Scanned(v)[i - 1], v[i])]
<1> DEFINE Is(g, n) == g = [i \in 0 .. n |-> IF i = 0 THEN Empty ELSE Scan(g[i - 1], v[i])]
           S == {n \in Nat : \E g : Is(g, n)}
<1>1. 0 \in S
  <2> DEFINE g == [i \in 0 .. 0 |-> Empty]
  <2>1. Is(g, 0)
    OBVIOUS
  <2> QED BY <2>1
<1>2. ASSUME NEW n \in Nat, n \in S PROVE n + 1 \in S
  <2>1. PICK g : Is(g, n)
    BY <1>2
  <2> DEFINE h == [i \in 0 .. n + 1 |-> IF i = n + 1 THEN Scan(g[n], v[n + 1]) ELSE g[i]]
  <2>2. ASSUME NEW i \in 0 .. n + 1
        PROVE  h[i] = IF i = 0 THEN Empty ELSE Scan(h[i - 1], v[i])
    <3>1. CASE i = n + 1
      <4>1. h[i] = Scan(g[n], v[n + 1]) /\ h[n] = g[n] /\ i - 1 = n
        BY <3>1
      <4> QED BY <3>1, <4>1
    <3>2. CASE i # n + 1
      <4>1. i \in 0 .. n /\ h[i] = g[i] /\ (i # 0 => h[i - 1] = g[i - 1])
        BY <3>2
      <4> HIDE DEF h
      <4> QED BY <2>1, <4>1
    <3> QED BY <3>1, <3>2
  <2>3. h = [i \in 0 .. n + 1 |-> h[i]]
    OBVIOUS
  <2>4. Is(h, n + 1)
    <3> HIDE DEF h
    <3> QED BY <2>2, <2>3
  <2> HIDE DEF Is, h
  <2>5. \E x : Is(x, n + 1)
    BY <2>4
  <2> QED BY <2>5
<1>3. Len(v) \in S
  <2> HIDE DEF S
  <2> QED BY <1>1, <1>2, SetInduction
<1>4. \E g : Is(g, Len(v))
  BY <1>3
<1>5. Scanned(v) = CHOOSE g : Is(g, Len(v))
  BY DEF Scanned, Empty
<1>6. Is(Scanned(v), Len(v))
  <2> HIDE DEF Is
  <2> QED BY <1>4, <1>5
<1> QED BY <1>6

-----------------------------------------------------------------------------
(* What the loop has collected after i characters *)

\* list holds the items of v that start in P, in their order
Matches(v, list, P) ==
  \E at \in [1 .. Len(list) -> DOMAIN v] :
    /\ \A m \in DOMAIN list : list[m] = ItemAt(v, at[m])
    /\ \A m, o \in DOMAIN list : m < o => at[m] < at[o]
    /\ {at[m] : m \in DOMAIN list} = P

Upto(v, i) == {t \in Starts(v) : t <= i}

\* the item that starts at s goes on until i at least
Open(v, s, i) == s \in Starts(v) /\ s <= i /\ \A j \in s .. i : v[j] # Comma

Reading == [result : Seq(Seq(STRING)), current : Seq(STRING)]

\* between two items, or within one
Collected(v, i, x) ==
  /\ x \in Reading
  /\ \/ /\ (i = 0) \/ (v[i] = Comma)
        /\ x.current = <<>>
        /\ Matches(v, x.result, Upto(v, i))
     \/ \E s \in DOMAIN v : /\ Open(v, s, i)
                            /\ x.current = SubSeq(v, s, i)
                            /\ Matches(v, x.result, Upto(v, s - 1))

\* An item ends before the next comma.
LEMMA ItemEnds ==
  ASSUME NEW v \in Seq(STRING), NEW s \in 1 .. Len(v), NEW i \in 1 .. Len(v), Open(v, s, i),
         (i = Len(v)) \/ (v[i + 1] = Comma)
  PROVE  ItemAt(v, s) = SubSeq(v, s, i)
<1> DEFINE n == Len(v)
           ends == {j \in s .. n : (j = n) \/ (v[j + 1] = Comma)}
<1>1. n \in Nat
  BY LenProperties
<1>2. \A j : j \in ends <=> (j \in s .. n /\ ((j = n) \/ (v[j + 1] = Comma)))
  BY Zenon
<1>3. s \in 1 .. n /\ i \in 1 .. n /\ s <= i /\ ((i = n) \/ (v[i + 1] = Comma))
  BY DEF Open
<1>4. \A j \in s .. i : v[j] # Comma
  BY DEF Open
<1>5. (CHOOSE j \in ends : \A e \in ends : j <= e) = i
  <2> HIDE DEF ends, n
  <2>1. i \in s .. n
    BY <1>1, <1>3
  <2>2. i \in ends
    BY <1>2, <1>3, <2>1
  <2>3. \A e \in ends : i <= e
    <3> SUFFICES ASSUME NEW e \in ends, ~(i <= e) PROVE FALSE
      OBVIOUS
    <3>1. e \in s .. n /\ ((e = n) \/ (v[e + 1] = Comma))
      BY <1>2
    <3>2. e # n /\ e + 1 \in s .. i
      BY <1>1, <1>3, <3>1
    <3> QED BY <1>4, <3>1, <3>2
  <2>4. \A j \in ends : (\A e \in ends : j <= e) => j = i
    <3> SUFFICES ASSUME NEW j \in ends, \A e \in ends : j <= e PROVE j = i
      OBVIOUS
    <3>1. j <= i /\ i <= j /\ j \in s .. n
      BY <1>2, <2>2, <2>3
    <3> QED BY <1>1, <1>3, <3>1
  <2> QED BY <2>2, <2>3, <2>4
<1>6. ItemAt(v, s) = SubSeq(v, s, CHOOSE j \in ends : \A e \in ends : j <= e)
  BY DEF ItemAt
<1> QED BY <1>5, <1>6

\* A part of v between two of its positions.
LEMMA PartOf ==
  ASSUME NEW v \in Seq(STRING), NEW s \in 1 .. Len(v), NEW i \in 1 .. Len(v), s <= i
  PROVE  /\ SubSeq(v, s, i) \in Seq(STRING)
         /\ Len(SubSeq(v, s, i)) = i - s + 1
         /\ SubSeq(v, s, i) # <<>>
         /\ \A j \in 1 .. i - s + 1 : SubSeq(v, s, i)[j] = v[s + j - 1]
<1>1. DOMAIN v = 1 .. Len(v) /\ Len(v) \in Nat /\ s \in Int /\ i \in Int
  BY LenProperties
<1>2. \A j \in s .. i : v[j] \in STRING
  BY <1>1, ElementOfSeq
<1>3. /\ SubSeq(v, s, i) \in Seq(STRING)
      /\ Len(SubSeq(v, s, i)) = IF s <= i THEN i - s + 1 ELSE 0
      /\ \A j \in 1 .. i - s + 1 : SubSeq(v, s, i)[j] = v[s + j - 1]
  BY <1>1, <1>2, SubSeqProperties
<1>4. Len(SubSeq(v, s, i)) > 0
  BY <1>1, <1>3
<1>5. SubSeq(v, s, i) # <<>>
  BY <1>4
<1> QED BY <1>3, <1>5

\* One character more.
LEMMA PartGrows ==
  ASSUME NEW v \in Seq(STRING), NEW s \in 1 .. Len(v), NEW i \in 1 .. Len(v),
         i + 1 \in 1 .. Len(v), s <= i
  PROVE  Append(SubSeq(v, s, i), v[i + 1]) = SubSeq(v, s, i + 1)
<1>1. DOMAIN v = 1 .. Len(v) /\ Len(v) \in Nat /\ s \in Int /\ i \in Int
  BY LenProperties
<1>2. v[i + 1] \in STRING
  BY <1>1, ElementOfSeq
<1> DEFINE x == SubSeq(v, s, i)
           y == SubSeq(v, s, i + 1)
           z == Append(x, v[i + 1])
<1>3. x \in Seq(STRING) /\ Len(x) = i - s + 1 /\ \A j \in 1 .. i - s + 1 : x[j] = v[s + j - 1]
  BY PartOf
<1>4. /\ y \in Seq(STRING) /\ Len(y) = (i + 1) - s + 1
      /\ \A j \in 1 .. (i + 1) - s + 1 : y[j] = v[s + j - 1]
  <2>1. s <= i + 1
    BY <1>1
  <2> HIDE DEF x, y, z
  <2> QED BY <1>1, <2>1, PartOf DEF y
<1> HIDE DEF x, y
<1>5. /\ z \in Seq(STRING) /\ Len(z) = Len(x) + 1
      /\ \A j \in 1 .. Len(x) : z[j] = x[j]
      /\ z[Len(x) + 1] = v[i + 1]
  BY <1>2, <1>3, AppendProperties
<1> HIDE DEF z
<1>6. Len(z) = Len(y) /\ \A j \in 1 .. Len(z) : z[j] = y[j]
  <2>1. Len(z) = Len(y) /\ Len(x) + 1 = i - s + 2
    BY <1>1, <1>3, <1>4, <1>5
  <2>2. ASSUME NEW j \in 1 .. Len(z) PROVE z[j] = y[j]
    <3>1. CASE j <= Len(x)
      <4>1. j \in 1 .. Len(x) /\ j \in 1 .. i - s + 1 /\ j \in 1 .. (i + 1) - s + 1
        BY <1>1, <1>3, <1>5, <2>1, <3>1
      <4> QED BY <4>1, <1>3, <1>4, <1>5
    <3>2. CASE ~(j <= Len(x))
      <4>1. j = Len(x) + 1 /\ j \in 1 .. (i + 1) - s + 1 /\ s + j - 1 = i + 1
        BY <1>1, <1>3, <1>5, <2>1, <3>2
      <4> QED BY <4>1, <1>4, <1>5
    <3> QED BY <3>1, <3>2
  <2> QED BY <2>1, <2>2
<1>7. z = y
  BY <1>4, <1>5, <1>6, SeqEqual
<1> QED BY <1>7 DEF z, x, y

\* A later item appended.
LEMMA MatchesAppend ==
  ASSUME NEW v \in Seq(STRING), NEW list \in Seq(Seq(STRING)), NEW P, Matches(v, list, P),
         NEW s \in 1 .. Len(v), \A p \in P : p < s, ItemAt(v, s) \in Seq(STRING)
  PROVE  Matches(v, Append(list, ItemAt(v, s)), P \cup {s})
<1> DEFINE n == Len(list)
           new == Append(list, ItemAt(v, s))
<1>1. PICK at \in [1 .. n -> DOMAIN v] :
         /\ \A m \in DOMAIN list : list[m] = ItemAt(v, at[m])
         /\ \A m, o \in DOMAIN list : m < o => at[m] < at[o]
         /\ {at[m] : m \in DOMAIN list} = P
  BY DEF Matches
<1>2. n \in Nat /\ DOMAIN list = 1 .. n
  BY LenProperties
<1>3. /\ new \in Seq(Seq(STRING)) /\ Len(new) = n + 1
      /\ \A m \in 1 .. n : new[m] = list[m]
      /\ new[n + 1] = ItemAt(v, s)
  BY AppendProperties
<1>4. DOMAIN new = 1 .. n + 1
  <2> HIDE DEF new, n
  <2> QED BY <1>3, LenProperties
<1> DEFINE to == [m \in 1 .. n + 1 |-> IF m = n + 1 THEN s ELSE at[m]]
<1> HIDE DEF n, new
<1>5. to \in [1 .. n + 1 -> DOMAIN v]
  BY <1>1, <1>2
<1>6. to[n + 1] = s /\ \A m \in 1 .. n : to[m] = at[m]
  BY <1>2
<1> HIDE DEF to
<1>7. \A m \in 1 .. n + 1 : m = n + 1 \/ m \in 1 .. n
  BY <1>2
<1>8. \A m \in 1 .. n : m \in 1 .. n + 1
  BY <1>2
<1>9. n + 1 \in 1 .. n + 1
  BY <1>2
<1>10. \A m \in DOMAIN new : new[m] = ItemAt(v, to[m])
  BY <1>1, <1>2, <1>3, <1>4, <1>6, <1>7
<1>11. \A m, o \in DOMAIN new : m < o => to[m] < to[o]
  <2> SUFFICES ASSUME NEW m \in 1 .. n + 1, NEW o \in 1 .. n + 1, m < o
               PROVE  to[m] < to[o]
    BY <1>4
  <2>1. m \in 1 .. n
    BY <1>2
  <2>2. to[m] = at[m] /\ at[m] \in P /\ at[m] < s
    BY <1>1, <1>2, <1>6, <2>1
  <2>3. CASE o = n + 1
    BY <1>6, <2>2, <2>3
  <2>4. CASE o \in 1 .. n
    BY <1>1, <1>2, <1>6, <2>1, <2>2, <2>4
  <2> QED BY <1>7, <2>3, <2>4
<1>12. {to[m] : m \in DOMAIN new} = P \cup {s}
  <2>1. \A m \in 1 .. n + 1 : to[m] \in P \cup {s}
    BY <1>1, <1>2, <1>6, <1>7
  <2>2. \A p \in P : \E m \in 1 .. n + 1 : to[m] = p
    BY <1>1, <1>2, <1>6, <1>8
  <2> QED BY <1>4, <1>6, <1>9, <2>1, <2>2
<1>13. Matches(v, new, P \cup {s})
  BY <1>3, <1>5, <1>10, <1>11, <1>12 DEF Matches
<1> QED BY <1>13 DEF new

\* The first character of an item.
LEMMA FirstCharacter ==
  ASSUME NEW c \in STRING
  PROVE  /\ Append(<<>>, c) \in Seq(STRING)
         /\ Len(Append(<<>>, c)) = 1
         /\ Append(<<>>, c)[1] = c
<1> DEFINE none == <<>>
           one == Append(none, c)
<1>1. none \in Seq(STRING) /\ Len(none) = 0
  BY EmptySeq
<1> HIDE DEF none
<1>2. one \in Seq(STRING) /\ Len(one) = Len(none) + 1 /\ one[Len(none) + 1] = c
  BY <1>1, AppendProperties
<1> HIDE DEF one
<1>3. Len(none) + 1 = 1
  BY <1>1
<1>4. one \in Seq(STRING) /\ Len(one) = 1 /\ one[1] = c
  BY <1>2, <1>3, Zenon
<1> QED BY <1>4 DEF one, none

\* No other item starts while one is open.
LEMMA UptoOpen ==
  ASSUME NEW v \in Seq(STRING), NEW s \in 1 .. Len(v), NEW i \in 1 .. Len(v), Open(v, s, i)
  PROVE  /\ Upto(v, i) = Upto(v, s - 1) \cup {s}
         /\ \A p \in Upto(v, s - 1) : p < s
<1>1. DOMAIN v = 1 .. Len(v) /\ Len(v) \in Nat /\ s \in Nat /\ i \in Nat /\ s <= i
  BY LenProperties DEF Open
<1>2. \A t \in Starts(v) : t \in 1 .. Len(v)
  BY <1>1 DEF Starts
<1>3. ASSUME NEW t \in Starts(v), t <= i, s < t PROVE FALSE
  <2>1. t - 1 \in s .. i /\ t # 1
    BY <1>1, <1>2, <1>3
  <2>2. v[t - 1] = Comma
    BY <2>1 DEF Starts
  <2> QED BY <2>1, <2>2 DEF Open
<1>4. s \in Starts(v)
  BY DEF Open
<1>5. \A t \in Starts(v) : t <= i <=> ((t <= s - 1) \/ (t = s))
  <2> SUFFICES ASSUME NEW t \in Starts(v) PROVE t <= i <=> ((t <= s - 1) \/ (t = s))
    OBVIOUS
  <2>1. t \in Nat /\ ~(t <= i /\ s < t)
    BY <1>1, <1>2, <1>3
  <2> QED BY <1>1, <2>1
<1>6. Upto(v, i) = Upto(v, s - 1) \cup {s}
  BY <1>4, <1>5 DEF Upto
<1>7. \A p \in Upto(v, s - 1) : p < s
  <2> SUFFICES ASSUME NEW p \in Upto(v, s - 1) PROVE p < s
    OBVIOUS
  <2>1. p \in Nat /\ p <= s - 1
    BY <1>2 DEF Upto
  <2> QED BY <1>1, <2>1
<1> QED BY <1>6, <1>7

\* What one character does.
LEMMA ScanFacts ==
  ASSUME NEW x \in Reading, NEW c \in STRING
  PROVE  /\ Scan(x, c) \in Reading
         /\ c # Comma => /\ Scan(x, c).result = x.result
                         /\ Scan(x, c).current = Append(x.current, c)
         /\ c = Comma => /\ Scan(x, c).current = <<>>
                         /\ x.current = <<>> => Scan(x, c).result = x.result
                         /\ x.current # <<>> =>
                              Scan(x, c).result = Append(x.result, x.current)
<1>1. /\ x.result \in Seq(Seq(STRING)) /\ x.current \in Seq(STRING)
      /\ Append(x.current, c) \in Seq(STRING) /\ <<>> \in Seq(STRING)
      /\ Append(x.result, x.current) \in Seq(Seq(STRING))
  BY AppendProperties, EmptySeq DEF Reading
<1>2. CASE c # Comma
  <2>1. Scan(x, c) = [x EXCEPT !.current = Append(x.current, c)]
    BY <1>2 DEF Scan
  <2> QED BY <1>1, <1>2, <2>1 DEF Reading
<1>3. CASE c = Comma
  <2>1. Scan(x, c) = [result |-> IF x.current = <<>> THEN x.result
                                 ELSE Append(x.result, x.current), current |-> <<>>]
    BY <1>3 DEF Scan
  <2> DEFINE new == IF x.current = <<>> THEN x.result ELSE Append(x.result, x.current)
  <2>2. new \in Seq(Seq(STRING))
    BY <1>1
  <2>3. /\ x.current = <<>> => new = x.result
        /\ x.current # <<>> => new = Append(x.result, x.current)
    OBVIOUS
  <2>4. Scan(x, c) = [result |-> new, current |-> <<>>]
    BY <2>1
  <2> HIDE DEF new
  <2> QED BY <1>1, <1>3, <2>2, <2>3, <2>4 DEF Reading
<1> QED BY <1>2, <1>3

\* One character more leaves the loop in order.
LEMMA ScanCollects ==
  ASSUME NEW v \in Seq(STRING), NEW i \in Nat, i < Len(v), NEW x, Collected(v, i, x)
  PROVE  Collected(v, i + 1, Scan(x, v[i + 1]))
<1> DEFINE n == Len(v)
           k == i + 1
           y == Scan(x, v[k])
<1>1. /\ n \in Nat /\ DOMAIN v = 1 .. n /\ k \in 1 .. n
      /\ k \in Nat /\ k - 1 = i /\ i < k
  BY LenProperties
<1>2. v[k] \in STRING
  BY <1>1, ElementOfSeq
<1>3. x \in Reading /\ x.result \in Seq(Seq(STRING)) /\ x.current \in Seq(STRING)
  BY DEF Collected, Reading
<1>4. /\ y \in Reading
      /\ v[k] # Comma => y.result = x.result /\ y.current = Append(x.current, v[k])
      /\ v[k] = Comma => /\ y.current = <<>>
                         /\ x.current = <<>> => y.result = x.result
                         /\ x.current # <<>> => y.result = Append(x.result, x.current)
  BY <1>2, <1>3, ScanFacts
<1>5. CASE ((i = 0) \/ (v[i] = Comma)) /\ x.current = <<>> /\ Matches(v, x.result, Upto(v, i))
  <2>1. CASE v[k] = Comma
    <3>1. \A t \in Starts(v) : t <= k <=> t <= i
      BY <1>1, <2>1 DEF Starts
    <3>2. Upto(v, k) = Upto(v, i)
      BY <3>1 DEF Upto
    <3> HIDE DEF k, y, n
    <3>3. Collected(v, k, y)
      BY <1>4, <1>5, <2>1, <3>2 DEF Collected
    <3> QED BY <3>3 DEF k, y
  <2>2. CASE v[k] # Comma
    <3>1. Open(v, k, k)
      BY <1>1, <1>5, <2>2 DEF Open, Starts
    <3>2. Append(<<>>, v[k]) = SubSeq(v, k, k)
      <4> DEFINE c == v[k]
                 one == Append(<<>>, c)
                 part == SubSeq(v, k, k)
      <4>1. one \in Seq(STRING) /\ Len(one) = 1 /\ one[1] = c
        <5> HIDE DEF c
        <5>1. c \in STRING
          BY <1>2 DEF c
        <5> QED BY <5>1, FirstCharacter
      <4>2. part \in Seq(STRING) /\ Len(part) = 1 /\ part[1] = c
        <5>1. /\ part \in Seq(STRING) /\ Len(part) = k - k + 1
              /\ \A j \in 1 .. k - k + 1 : part[j] = v[k + j - 1]
          <6>1. k \in 1 .. Len(v) /\ k <= k
            BY <1>1
          <6> HIDE DEF k
          <6> QED BY <6>1, PartOf
        <5>2. k - k + 1 = 1 /\ k + 1 - 1 = k
          BY <1>1
        <5> HIDE DEF k, part
        <5> QED BY <5>1, <5>2
      <4> HIDE DEF one, part, c
      <4>3. one = part
        BY <4>1, <4>2, SeqEqual
      <4> QED BY <4>3 DEF one, part, c
    <3> HIDE DEF k, y, n
    <3>3. Collected(v, k, y)
      BY <1>1, <1>4, <1>5, <2>2, <3>1, <3>2 DEF Collected
    <3> QED BY <3>3 DEF k, y
  <2> QED BY <2>1, <2>2
<1>6. CASE \E s \in DOMAIN v : /\ Open(v, s, i)
                               /\ x.current = SubSeq(v, s, i)
                               /\ Matches(v, x.result, Upto(v, s - 1))
  <2>1. PICK s \in DOMAIN v : /\ Open(v, s, i)
                              /\ x.current = SubSeq(v, s, i)
                              /\ Matches(v, x.result, Upto(v, s - 1))
    BY <1>6
  <2>2. s \in 1 .. Len(v) /\ s \in 1 .. n /\ i \in 1 .. n /\ s <= i
    BY <1>1, <2>1 DEF Open
  <2>3. x.current # <<>> /\ x.current \in Seq(STRING)
    BY <1>1, <2>1, <2>2, PartOf
  <2>4. CASE v[k] = Comma
    <3>1. ItemAt(v, s) = SubSeq(v, s, i)
      BY <2>1, <2>2, <2>4, ItemEnds
    <3>2. Upto(v, i) = Upto(v, s - 1) \cup {s} /\ \A p \in Upto(v, s - 1) : p < s
      BY <2>1, <2>2, UptoOpen
    <3>3. \A t \in Starts(v) : t <= k <=> t <= i
      BY <1>1, <2>4 DEF Starts
    <3>4. Upto(v, k) = Upto(v, s - 1) \cup {s}
      BY <3>2, <3>3 DEF Upto
    <3> HIDE DEF k, y, n
    <3>5. y.result = Append(x.result, ItemAt(v, s)) /\ ItemAt(v, s) \in Seq(STRING)
      BY <1>4, <2>1, <2>3, <2>4, <3>1
    <3>6. Matches(v, y.result, Upto(v, k))
      <4>1. Matches(v, Append(x.result, ItemAt(v, s)), Upto(v, s - 1) \cup {s})
        <5>1. x.result \in Seq(Seq(STRING)) /\ s \in 1 .. Len(v)
          BY <1>3, <2>2
        <5> QED BY <2>1, <3>2, <3>5, <5>1, MatchesAppend
      <4> QED BY <3>4, <3>5, <4>1
    <3>7. Collected(v, k, y)
      BY <1>4, <2>4, <3>6 DEF Collected
    <3> QED BY <3>7 DEF k, y
  <2>5. CASE v[k] # Comma
    <3>1. Open(v, s, k)
      <4>1. \A j \in s .. k : (j = k) \/ (j \in s .. i)
        BY <1>1, <2>2
      <4>2. s <= k
        BY <1>1, <2>2
      <4> HIDE DEF k
      <4> QED BY <2>1, <2>5, <4>1, <4>2 DEF Open
    <3>2. Append(x.current, v[k]) = SubSeq(v, s, k)
      BY <1>1, <2>1, <2>2, PartGrows
    <3> HIDE DEF k, y, n
    <3>3. Collected(v, k, y)
      BY <1>4, <2>1, <2>5, <3>1, <3>2 DEF Collected
    <3> QED BY <3>3 DEF k, y
  <2> QED BY <2>4, <2>5
<1>7. QED
  BY <1>5, <1>6 DEF Collected

\* So the loop is in order wherever it is.
LEMMA LoopCollects ==
  ASSUME NEW v \in Seq(STRING)
  PROVE  Collected(v, Len(v), Scanned(v)[Len(v)])
<1> DEFINE n == Len(v)
           s == Scanned(v)
           S == {i \in Nat : i <= n => Collected(v, i, s[i])}
<1>1. n \in Nat
  BY LenProperties
<1>2. s = [i \in 0 .. n |-> IF i = 0 THEN Empty ELSE Scan(s[i - 1], v[i])]
  BY <1>1, ScannedDef
<1>3. 0 \in S
  <2>1. s[0] = Empty
    <3> HIDE DEF s, n
    <3> QED BY <1>1, <1>2
  <2>2. Empty \in Reading /\ Empty.current = <<>> /\ Empty.result = <<>>
    BY EmptySeq DEF Empty, Reading
  <2>3. Upto(v, 0) = {}
    BY <1>1, LenProperties DEF Upto, Starts
  <2>4. Matches(v, <<>>, {})
    <3> DEFINE at == [m \in 1 .. 0 |-> 1]
    <3>1. at \in [1 .. Len(<<>>) -> DOMAIN v] /\ DOMAIN <<>> = {}
      OBVIOUS
    <3> HIDE DEF at
    <3> QED BY <3>1 DEF Matches
  <2>5. Collected(v, 0, Empty)
    BY <2>2, <2>3, <2>4 DEF Collected
  <2> QED BY <2>1, <2>5
<1>4. ASSUME NEW i \in Nat, i \in S PROVE i + 1 \in S
  <2> SUFFICES ASSUME i + 1 <= n PROVE Collected(v, i + 1, s[i + 1])
    OBVIOUS
  <2>1. i < n /\ i + 1 \in 0 .. n /\ i + 1 # 0 /\ (i + 1) - 1 = i
    BY <1>1
  <2>2. Collected(v, i, s[i])
    BY <1>1, <1>4, <2>1
  <2>3. s[i + 1] = Scan(s[i], v[i + 1])
    <3> HIDE DEF s, n
    <3> QED BY <1>2, <2>1
  <2> HIDE DEF s
  <2> QED BY <2>1, <2>2, <2>3, ScanCollects
<1>5. n \in S
  <2> HIDE DEF S
  <2> QED BY <1>1, <1>3, <1>4, SetInduction
<1> QED BY <1>1, <1>5

\* A list without items is the fallback, any other one has the items of v.
LEMMA EnvSliceItems ==
  ASSUME NEW v \in Seq(STRING), NEW fallback
  PROVE  IF Starts(v) = {} THEN envSlice(v, fallback) = fallback
         ELSE IsItems(envSlice(v, fallback), v)
<1> DEFINE n == Len(v)
           end == Scanned(v)[n]
           list == ListOf(end)
<1>1. Collected(v, n, end)
  BY LoopCollects
<1>2. n \in Nat /\ DOMAIN v = 1 .. n
  BY LenProperties
<1>3. Upto(v, n) = Starts(v)
  BY <1>2 DEF Upto, Starts
<1>4. list \in Seq(Seq(STRING)) /\ Matches(v, list, Starts(v))
  <2> HIDE DEF end
  <2>1. end.result \in Seq(Seq(STRING))
    BY <1>1 DEF Collected, Reading
  <2>2. CASE end.current = <<>> /\ Matches(v, end.result, Upto(v, n))
    BY <1>3, <2>1, <2>2 DEF ListOf
  <2>3. CASE \E s \in DOMAIN v : /\ Open(v, s, n)
                                 /\ end.current = SubSeq(v, s, n)
                                 /\ Matches(v, end.result, Upto(v, s - 1))
    <3>1. PICK s \in DOMAIN v : /\ Open(v, s, n)
                                /\ end.current = SubSeq(v, s, n)
                                /\ Matches(v, end.result, Upto(v, s - 1))
      BY <2>3
    <3>2. s \in 1 .. Len(v) /\ n \in 1 .. Len(v) /\ s <= n /\ n = Len(v)
      BY <1>2
    <3>3. end.current # <<>> /\ end.current \in Seq(STRING)
      <4>1. SubSeq(v, s, n) # <<>> /\ SubSeq(v, s, n) \in Seq(STRING)
        <5> HIDE DEF n
        <5> QED BY <3>2, PartOf
      <4> QED BY <3>1, <4>1
    <3>8. ItemAt(v, s) = end.current
      <4> HIDE DEF n
      <4> QED BY <3>1, <3>2, ItemEnds
    <3>4. list = Append(end.result, ItemAt(v, s))
      BY <3>3, <3>8 DEF ListOf
    <3>5. Upto(v, n) = Upto(v, s - 1) \cup {s} /\ \A p \in Upto(v, s - 1) : p < s
      BY <3>1, <3>2, UptoOpen
    <3>6. Matches(v, Append(end.result, ItemAt(v, s)), Upto(v, s - 1) \cup {s})
      BY <2>1, <3>1, <3>2, <3>3, <3>5, <3>8, MatchesAppend
    <3>7. list \in Seq(Seq(STRING))
      BY <2>1, <3>3, <3>4, <3>8, AppendProperties
    <3> HIDE DEF list, n
    <3> QED BY <1>3, <3>4, <3>5, <3>6, <3>7
  <2> HIDE DEF n
  <2> QED BY <1>1, <2>2, <2>3 DEF Collected
<1>5. envSlice(v, fallback) = IF list = <<>> THEN fallback ELSE list
  BY DEF envSlice
<1> HIDE DEF list
<1>6. IsItems(list, v)
  BY <1>4 DEF Matches, IsItems
<1>7. list = <<>> <=> Starts(v) = {}
  <2>1. PICK at \in [1 .. Len(list) -> DOMAIN v] : {at[m] : m \in DOMAIN list} = Starts(v)
    BY <1>6 DEF IsItems
  <2>2. list = <<>> <=> DOMAIN list = {}
    <3>1. list # <<>> => Len(list) \in Nat \ {0} /\ DOMAIN list = 1 .. Len(list)
      BY <1>4, EmptySeq, LenProperties
    <3>2. list # <<>> => 1 \in DOMAIN list
      BY <3>1
    <3> QED BY <3>2
  <2> QED BY <2>1, <2>2
<1> QED BY <1>5, <1>6, <1>7

-----------------------------------------------------------------------------
(* The addresses NewL2 is given *)

Dialing == {"newl2", "again", "local"}

\* Once they have been read, the addresses and what they were read from stay.
LEMMA AddrsKept ==
  ASSUME Next \/ UNCHANGED vars, ~Load
  PROVE  main' \in Dialing => main \in Dialing /\ env' = env /\ addrs' = addrs
<1> USE DEF Dialing
<1>1. CASE MainStep
  BY <1>1 DEF MainStep, Connected, Settle, PingFails, NoRedis, StartGRPC, ListenFails,
     BuildHTTP, ListenAndServe, ServerClosed, CloseRedis, Exit
<1>2. CASE StopStep
  BY <1>2 DEF StopStep, Notify, GracefulStop, Drained, CloseHTTP
<1>3. CASE \E r \in Reqs : Handle(r)
  <2>1. PICK r \in Reqs : Handle(r)
    BY <1>3
  <2> QED BY <2>1 DEF Handle, GetOk, GetFail, SetOk, SetFail, StatsOk, Panic, Answer
<1>4. CASE Environment
  <2>1. CASE Signal \/ AcceptFails
    BY <2>1 DEF Signal, AcceptFails
  <2>2. ASSUME NEW r \in Reqs, Cancel(r)
        PROVE  main' = main /\ env' = env /\ addrs' = addrs
    BY <2>2 DEF Cancel
  <2>3. ASSUME NEW r \in Reqs, NEW api \in APIs, NEW op \in Ops,
               NEW size \in Sizes(api, op), Arrive(r, api, op, size)
        PROVE  main' = main /\ env' = env /\ addrs' = addrs
    BY <2>3 DEF Arrive
  <2> QED BY <1>4, <2>1, <2>2, <2>3 DEF Environment
<1>5. CASE UNCHANGED vars
  BY <1>5 DEF vars
<1> QED BY <1>1, <1>2, <1>3, <1>4, <1>5 DEF Next

LEMMA AddrsStep == ASSUME TypeOK, AddrsRead, [Next]_vars PROVE AddrsRead'
<1>1. CASE Load
  <2>1. env \in Seq(STRING)
    BY ServerAssumption, EmptySeq DEF TypeOK
  <2>2. addrs' = envSlice(env, LocalRedis) /\ env' = env
    BY <1>1 DEF Load
  <2>3. IF Starts(env) = {} THEN addrs' = LocalRedis ELSE IsItems(addrs', env)
    BY <2>1, <2>2, EnvSliceItems
  <2>4. IF Starts(env') = {} THEN addrs' = LocalRedis ELSE IsItems(addrs', env')
    BY <2>2, <2>3
  <2> QED BY <2>4 DEF AddrsRead
<1>2. CASE ~Load
  <2>1. main' \in Dialing => main \in Dialing /\ env' = env /\ addrs' = addrs
    BY <1>2, AddrsKept
  <2>2. ASSUME main' \in Dialing
        PROVE  IF Starts(env') = {} THEN addrs' = LocalRedis ELSE IsItems(addrs', env')
    BY <2>1, <2>2 DEF AddrsRead, Dialing
  <2> QED BY <2>2 DEF AddrsRead, Dialing
<1> QED BY <1>1, <1>2

\* NewL2 is given what REDIS_ADDRS lists, in its order, or the default if it lists
\* nothing (envSlice, and Load and PingFails, which leave the list alone).
THEOREM ServerAddrsRead == Spec => []AddrsRead
<1>1. Init => AddrsRead
  BY DEF Init, AddrsRead
<1>2. TypeOK /\ AddrsRead /\ [Next]_vars => AddrsRead'
  BY AddrsStep
<1> QED BY <1>1, <1>2, ServerTypeCorrect, PTL DEF Spec
=============================================================================
