---------------------- MODULE HpaeManagerThread_proofs ----------------------
(***************************************************************************)
(* Proofs about the request queue of the audio engine and the threads that *)
(* use it, for any number of producers, any capacity and any interleaving. *)
(* The lists are described by ghosts that the invariant quantifies over:   *)
(* the place of each node, its rank in its list, the length of each list   *)
(* and the flag of each node.                                              *)
(***************************************************************************)
EXTENDS HpaeManagerThread, FiniteSetTheorems, FunctionTheorems, SequenceTheorems, TLAPS

Handled == {"putload", "putlink", "putcas"}
ProducerLabels == {"idle", "get", "getnext", "getcas", "returned"} \cup Handled
HandlerLabels == {"idle", "while", "wait", "asleep", "handle", "handlecas", "walk",
                  "handled", "ended"} \cup Handled

\* A number of a request that nobody else has, or Nothing.
Item == (Producers \X Nat) \cup {Nothing}

QueueType ==
    /\ freeHead \in Word /\ requestHead \in Word
    /\ next \in [Nodes -> Word]
    /\ seen \in [Threads -> Word] /\ link \in [Threads -> Word]
    /\ own \in [Threads -> Word]
    /\ request \in [Nodes -> Item]
    /\ pushed \in [Producers -> Nat]
    /\ qpc \in [Threads -> ProducerLabels \cup HandlerLabels]
    /\ \A p \in Producers : qpc[p] \in ProducerLabels
    /\ qpc[Handler] \in HandlerLabels
    /\ \A t \in Threads :
          /\ qpc[t] \in {"getnext", "getcas"} => seen[t].index # None
          /\ qpc[t] \in Handled => own[t].index # None

LEMMA Basics ==
    /\ Size \in Nat /\ Size > 0 /\ None \notin Nodes /\ None \in 0 .. Size
    /\ Nodes \subseteq 0 .. Size /\ Nodes \subseteq Nat
    /\ Handler \in Threads /\ Producers \subseteq Threads
    /\ \A p \in Producers : p # Handler
    /\ Flags \in Nat /\ Flags > 1 /\ 0 \in 0 .. Flags - 1
    /\ NoWord \in Word
  BY QueueAssumption DEF QueueAssumption, Nodes, None, Threads, NoWord, Word

LEMMA TypeInit == Init => QueueType
  <1> SUFFICES ASSUME Init PROVE QueueType
    OBVIOUS
  <1>1. QueueInit
    BY DEF Init
  <1>2. freeHead \in Word /\ requestHead \in Word
    BY <1>1, Basics DEF QueueInit, Word
  <1>3. next \in [Nodes -> Word]
    <2>1. \A i \in Nodes : i + 1 \in 0 .. Size
      BY Basics DEF Nodes
    <2> QED
      BY <1>1, <2>1, Basics DEF QueueInit, Word
  <1>4. seen \in [Threads -> Word] /\ link \in [Threads -> Word] /\ own \in [Threads -> Word]
    BY <1>1, Basics DEF QueueInit
  <1>5. request \in [Nodes -> Item] /\ pushed \in [Producers -> Nat]
    BY <1>1 DEF QueueInit, Item
  <1>6. \A t \in Threads : qpc[t] = "idle" /\ "idle" \notin Handled \cup {"getnext", "getcas"}
    BY <1>1 DEF QueueInit, Handled
  <1>7. qpc \in [Threads -> ProducerLabels \cup HandlerLabels]
    BY <1>1 DEF QueueInit, ProducerLabels
  <1> QED
    BY <1>2, <1>3, <1>4, <1>5, <1>6, <1>7, Basics DEF QueueType, ProducerLabels, HandlerLabels

LEMMA PutType ==
    ASSUME NEW S, NEW T, NEW r \in [S -> T], NEW t \in S, NEW v \in T
    PROVE Put(r, t, v) \in [S -> T] /\ Put(r, t, v)[t] = v /\ \A u \in S \ {t} : Put(r, t, v)[u] = r[u]
  BY DEF Put

LEMMA WordType ==
    ASSUME NEW w \in Word
    PROVE /\ w.flag \in 0 .. Flags - 1 /\ w.index \in 0 .. Size
          /\ IncRequsetIndex(w) \in Word /\ IncRequsetIndex(w).index = w.index
          /\ IncRequsetIndex(w).flag = (w.flag + 1) % Flags
          /\ [w EXCEPT !.index = None] \in Word
          /\ w.index # None => w.index \in Nodes
          /\ w = [flag |-> w.flag, index |-> w.index]
  <1>1. w.flag \in 0 .. Flags - 1 /\ w.index \in 0 .. Size
    BY DEF Word
  <1>2. (w.flag + 1) % Flags \in 0 .. Flags - 1
    BY <1>1, Basics
  <1>3. w.index # None => w.index \in Nodes
    BY <1>1, Basics DEF Nodes, None
  <1> QED
    BY <1>1, <1>2, <1>3, Basics DEF Word, IncRequsetIndex

\* A step of one thread: the registers and the label of the others stay.
LEMMA StepType ==
    ASSUME QueueType, NEW t \in Threads,
           freeHead' \in Word, requestHead' \in Word, next' \in [Nodes -> Word],
           request' \in [Nodes -> Item],
           pushed' \in [Producers -> Nat],
           seen' \in [Threads -> Word], link' \in [Threads -> Word], own' \in [Threads -> Word],
           \A u \in Threads \ {t} : seen'[u] = seen[u] /\ own'[u] = own[u],
           NEW l, qpc' = [qpc EXCEPT ![t] = l],
           l \in IF t = Handler THEN HandlerLabels ELSE ProducerLabels,
           l \in {"getnext", "getcas"} => seen'[t].index # None,
           l \in Handled => own'[t].index # None
    PROVE QueueType'
  <1>0. t = Handler \/ t \in Producers
    BY DEF Threads
  <1>1. qpc'[t] = l /\ \A u \in Threads \ {t} : qpc'[u] = qpc[u]
    BY DEF QueueType
  <1>2. /\ qpc' \in [Threads -> ProducerLabels \cup HandlerLabels]
        /\ \A p \in Producers : qpc'[p] \in ProducerLabels
        /\ qpc'[Handler] \in HandlerLabels
    BY <1>0, Basics DEF QueueType
  <1>3. \A u \in Threads :
          /\ qpc'[u] \in {"getnext", "getcas"} => seen'[u].index # None
          /\ qpc'[u] \in Handled => own'[u].index # None
    <2>1. TAKE u \in Threads
    <2> QED
      BY <1>1 DEF QueueType
  <1> QED
    BY <1>2, <1>3 DEF QueueType

LEMMA ProducerType ==
    ASSUME QueueType, NEW p \in Producers, Producer(p)
    PROVE QueueType'
  <1>0. /\ p \in Threads /\ p # Handler
        /\ seen[p] \in Word /\ own[p] \in Word /\ link[p] \in Word /\ NoWord \in Word
    BY Basics DEF QueueType
  <1> USE DEF lists, regs, counts, Handled
  <1>1. CASE Full(p)
    <2>1. Goto(p, "returned") /\ UNCHANGED <<lists, regs, counts>>
      BY <1>1 DEF Full
    <2> QED
      BY <1>0, <2>1, StepType DEF QueueType, Put, Goto, ProducerLabels
  <1>2. CASE GetLoad(p)
    <2>1. Goto(p, "getnext") /\ UNCHANGED <<lists, link, own, counts>> /\ seen' = Put(seen, p, freeHead)
          /\ freeHead.index # None
      BY <1>2 DEF GetLoad
    <2> QED
      BY <1>0, <2>1, StepType DEF QueueType, Put, Goto, ProducerLabels, Clear
  <1>3. CASE GetNext(p)
    <2>1. Goto(p, "getcas") /\ UNCHANGED <<lists, seen, own, counts>> /\ link' = Put(link, p, next[seen[p].index])
          /\ seen[p].index # None
      BY <1>0, <1>3 DEF GetNext, QueueType
    <2>2. next[seen[p].index] \in Word
      BY <1>0, <2>1, WordType DEF QueueType
    <2> QED
      BY <1>0, <2>1, <2>2, StepType DEF QueueType, Put, Goto, ProducerLabels, Clear
  <1>4. CASE GetCas(p)
    <2>1. /\ Goto(p, "putload") /\ UNCHANGED <<requestHead, next, temp, counts>>
          /\ freeHead' = link[p] /\ own' = Put(own, p, IncRequsetIndex(seen[p]))
          /\ request' = Put(request, seen[p].index, <<p, pushed[p]>>)
          /\ seen' = Put(seen, p, NoWord) /\ link' = Put(link, p, NoWord)
          /\ seen[p].index # None
      BY <1>0, <1>4 DEF GetCas, QueueType
    <2>2. seen[p].index \in Nodes /\ <<p, pushed[p]>> \in Item
      BY <1>0, <2>1, WordType DEF QueueType, Item
    <2>3. request' \in [Nodes -> Item]
      BY <2>1, <2>2, PutType DEF QueueType
    <2>4. IncRequsetIndex(seen[p]) \in Word /\ IncRequsetIndex(seen[p]).index # None
      BY <1>0, <2>1, WordType
    <2> QED
      BY <1>0, <2>1, <2>3, <2>4, StepType DEF QueueType, Put, Goto, ProducerLabels, Clear
  <1>5. CASE GetAgain(p)
    <2>1. Goto(p, "get") /\ UNCHANGED <<lists, own, counts>>
          /\ seen' = Put(seen, p, NoWord) /\ link' = Put(link, p, NoWord)
      BY <1>5 DEF GetAgain
    <2> QED
      BY <1>0, <2>1, StepType DEF QueueType, Put, Goto, ProducerLabels, Clear
  <1>6. CASE PutLoad(p)
    <2>1. Goto(p, "putlink") /\ UNCHANGED <<lists, link, own, counts>> /\ seen' = Put(seen, p, Target(p))
          /\ own[p].index # None
      BY <1>0, <1>6 DEF PutLoad, QueueType
    <2>2. Target(p) \in Word
      BY DEF Target, QueueType
    <2> QED
      BY <1>0, <2>1, <2>2, StepType DEF QueueType, Put, Goto, ProducerLabels, Clear
  <1>7. CASE PutLink(p)
    <2>1. /\ Goto(p, "putcas") /\ UNCHANGED <<freeHead, requestHead, request, temp, regs, counts>>
          /\ next' = Put(next, own[p].index, seen[p])
          /\ own[p].index # None
      BY <1>0, <1>7 DEF PutLink, QueueType
    <2>2. own[p].index \in Nodes
      BY <1>0, <2>1, WordType
    <2> QED
      BY <1>0, <2>1, <2>2, StepType DEF QueueType, Put, Goto, ProducerLabels, Clear
  <1>8. CASE PutAgain(p)
    <2>1. Goto(p, "putload") /\ UNCHANGED <<lists, link, own, counts>> /\ seen' = Put(seen, p, NoWord)
          /\ own[p].index # None
      BY <1>0, <1>8 DEF PutAgain, QueueType
    <2> QED
      BY <1>0, <2>1, StepType DEF QueueType, Put, Goto, ProducerLabels, Clear
  <1>9. CASE PutRequest(p)
    <2>1. /\ Goto(p, "returned") /\ UNCHANGED <<freeHead, next, request, temp, counts>>
          /\ requestHead' = own[p] /\ Clear(p)
      BY <1>9 DEF PutRequest
    <2> QED
      BY <1>0, <2>1, StepType DEF QueueType, Put, Goto, ProducerLabels, Clear
  <1> QED
    BY <1>1, <1>2, <1>3, <1>4, <1>5, <1>6, <1>7, <1>8, <1>9 DEF Producer

\* A step of the handler that only moves it on, or of DeInit.
LEMMA GotoType ==
    ASSUME QueueType, NEW t \in Threads, NEW l, Goto(t, l), UNCHANGED <<lists, regs>>,
           pushed' \in [Producers -> Nat],
           l \in IF t = Handler THEN HandlerLabels ELSE ProducerLabels,
           l \notin Handled \cup {"getnext", "getcas"}
    PROVE QueueType'
  BY StepType DEF QueueType, Goto, lists, regs

LEMMA HandlingType ==
    ASSUME QueueType, Handling
    PROVE QueueType'
  <1>0. /\ Handler \in Threads
        /\ seen[Handler] \in Word /\ own[Handler] \in Word /\ link[Handler] \in Word /\ NoWord \in Word
    BY Basics DEF QueueType
  <1> USE DEF lists, regs, counts, Handled
  <1>1. CASE HandleLoad
    <2>1. /\ Goto(Handler, "handlecas") /\ UNCHANGED <<lists, link, own, counts>>
          /\ seen' = Put(seen, Handler, requestHead)
      BY <1>1 DEF HandleLoad
    <2> QED
      BY <1>0, <2>1, StepType DEF QueueType, Put, Goto, HandlerLabels
  <1>2. CASE HandleCas
    <2>1. /\ Goto(Handler, "walk") /\ UNCHANGED <<freeHead, next, request, temp, link, counts>>
          /\ requestHead' = [seen[Handler] EXCEPT !.index = None]
          /\ own' = Put(own, Handler, seen[Handler]) /\ seen' = Put(seen, Handler, NoWord)
      BY <1>2 DEF HandleCas
    <2>2. requestHead' \in Word
      BY <1>0, <2>1, WordType
    <2> QED
      BY <1>0, <2>1, <2>2, StepType DEF QueueType, Put, Goto, HandlerLabels
  <1>3. CASE HandleAgain
    <2>1. /\ Goto(Handler, "handle") /\ UNCHANGED <<lists, link, own, counts>>
          /\ seen' = Put(seen, Handler, NoWord)
      BY <1>3 DEF HandleAgain
    <2> QED
      BY <1>0, <2>1, StepType DEF QueueType, Put, Goto, HandlerLabels
  <1>4. CASE Walk
    <2>1. /\ Goto(Handler, "putload") /\ UNCHANGED <<freeHead, requestHead, next, seen, own, counts>>
          /\ link' = Put(link, Handler, next[own[Handler].index])
          /\ request' = Put(request, own[Handler].index, Nothing)
          /\ own[Handler].index # None
      BY <1>4 DEF Walk
    <2>2. own[Handler].index \in Nodes
      BY <1>0, <2>1, WordType
    <2>3. next[own[Handler].index] \in Word /\ request' \in [Nodes -> Item]
      BY <2>1, <2>2 DEF QueueType, Item, Put
    <2> QED
      BY <1>0, <2>1, <2>3, StepType DEF QueueType, Put, Goto, HandlerLabels
  <1>5. CASE PutLoad(Handler)
    <2>1. /\ Goto(Handler, "putlink") /\ UNCHANGED <<lists, link, own, counts>>
          /\ seen' = Put(seen, Handler, freeHead)
          /\ own[Handler].index # None
      BY <1>0, <1>5 DEF PutLoad, Target, QueueType
    <2> QED
      BY <1>0, <2>1, StepType DEF QueueType, Put, Goto, HandlerLabels
  <1>6. CASE PutLink(Handler)
    <2>1. /\ Goto(Handler, "putcas") /\ UNCHANGED <<freeHead, requestHead, request, temp, regs, counts>>
          /\ next' = Put(next, own[Handler].index, seen[Handler])
          /\ own[Handler].index # None
      BY <1>0, <1>6 DEF PutLink, QueueType
    <2>2. own[Handler].index \in Nodes
      BY <1>0, <2>1, WordType
    <2> QED
      BY <1>0, <2>1, <2>2, StepType DEF QueueType, Put, Goto, HandlerLabels
  <1>7. CASE PutAgain(Handler)
    <2>1. /\ Goto(Handler, "putload") /\ UNCHANGED <<lists, link, own, counts>>
          /\ seen' = Put(seen, Handler, NoWord)
          /\ own[Handler].index # None
      BY <1>0, <1>7 DEF PutAgain, QueueType
    <2> QED
      BY <1>0, <2>1, StepType DEF QueueType, Put, Goto, HandlerLabels
  <1>8. CASE GiveBack
    <2>1. /\ Goto(Handler, "walk") /\ UNCHANGED <<requestHead, next, request, temp, counts>>
          /\ freeHead' = own[Handler] /\ own' = Put(own, Handler, link[Handler])
          /\ seen' = Put(seen, Handler, NoWord) /\ link' = Put(link, Handler, NoWord)
      BY <1>8 DEF GiveBack
    <2> QED
      BY <1>0, <2>1, StepType DEF QueueType, Put, Goto, HandlerLabels
  <1>9. CASE RunEnd
    <2>1. Goto(Handler, "handled") /\ Clear(Handler) /\ UNCHANGED <<lists, counts>>
      BY <1>9 DEF RunEnd
    <2> QED
      BY <1>0, <2>1, StepType DEF QueueType, Put, Goto, HandlerLabels, Clear
  <1>10. CASE Run
    <2>1. UNCHANGED <<freeHead, requestHead, next, request, qpc, regs, pushed>>
      BY <1>10 DEF Run
    <2> QED
      BY <2>1 DEF QueueType
  <1> QED
    BY <1>1, <1>2, <1>3, <1>4, <1>5, <1>6, <1>7, <1>8, <1>9, <1>10 DEF Handling

\* What a step does to the queue is one of the operations, or a change of the
\* handler's label while it has no node.
Away == {"idle", "while", "wait", "asleep", "handle", "handled", "ended"}

OnlyMoves ==
    /\ UNCHANGED <<lists, regs, counts>>
    /\ \A t \in Threads :
          \/ qpc'[t] = qpc[t]
          \/ t = Handler /\ qpc[t] \in Away /\ qpc'[t] \in Away
          \/ t \in Producers /\ qpc[t] = "returned" /\ qpc'[t] = "idle"
    /\ qpc' \in [Threads -> ProducerLabels \cup HandlerLabels]

LEMMA StepOnQueue ==
    ASSUME QueueType, [Next]_vars
    PROVE \/ OnlyMoves
          \/ \E p \in Producers : Push(p) \/ Producer(p)
          \/ Handling
  <1>0. /\ qpc \in [Threads -> ProducerLabels \cup HandlerLabels]
        /\ Handler \in Threads /\ \A p \in Producers : p \in Threads /\ p # Handler
    BY Basics DEF QueueType
  <1>1. ASSUME NEW l \in Away, OnlyGoto(l), qpc[Handler] \in Away
        PROVE OnlyMoves
    BY <1>0, <1>1 DEF OnlyGoto, Goto, OnlyMoves, HandlerLabels, Away
  <1>2. CASE RunBegin \/ While \/ Wait \/ ClearSignal
    <2>1. \E l \in Away : OnlyGoto(l) /\ qpc[Handler] \in Away
      BY <1>2 DEF RunBegin, While, Wait, ClearSignal, At, Away
    <2> QED
      BY <1>1, <2>1
  <1>3. CASE WakeUp \/ JoinThread
    <2>1. \E l \in Away : OnlyGoto(l) /\ qpc[Handler] \in Away
      BY <1>3 DEF WakeUp, JoinThread, At, Away
    <2> QED
      BY <1>1, <2>1
  <1>4. CASE StopThread \/ DeInitEnd \/ UNCHANGED vars
    BY <1>0, <1>4 DEF StopThread, DeInitEnd, vars, queueVars, OnlyMoves, lists, regs, counts
  <1>5. CASE NotifyThread
    BY <1>0, <1>5 DEF NotifyThread, Signals, At, OnlyMoves, Away, HandlerLabels
  <1>6. ASSUME NEW p \in Producers, Notify(p)
        PROVE OnlyMoves
    <2>1. qpc[p] = "returned" /\ UNCHANGED <<lists, regs, counts>>
      BY <1>6 DEF Notify
    <2>2. \/ qpc' = [qpc EXCEPT ![p] = "idle"]
          \/ qpc' = [qpc EXCEPT ![p] = "idle", ![Handler] = IF @ = "asleep" THEN "wait" ELSE @]
      BY <1>6 DEF Notify, Goto
    <2>3. /\ qpc'[p] = "idle" /\ \A t \in Threads \ {p, Handler} : qpc'[t] = qpc[t]
          /\ qpc'[Handler] = qpc[Handler] \/ (qpc[Handler] = "asleep" /\ qpc'[Handler] = "wait")
          /\ qpc' \in [Threads -> ProducerLabels \cup HandlerLabels]
      BY <1>0, <2>2 DEF ProducerLabels, HandlerLabels
    <2> QED
      BY <1>0, <2>1, <2>3 DEF OnlyMoves, Away
  <1> QED
    BY <1>2, <1>3, <1>4, <1>5, <1>6 DEF Next, Sender, Thread, DeInit

LEMMA OnlyMovesType ==
    ASSUME QueueType, OnlyMoves
    PROVE QueueType'
  <1>1. \A p \in Producers : qpc'[p] \in ProducerLabels
    BY Basics DEF QueueType, OnlyMoves, ProducerLabels
  <1>2. qpc'[Handler] \in HandlerLabels
    BY Basics DEF QueueType, OnlyMoves, HandlerLabels, Away
  <1>3. \A t \in Threads :
          /\ qpc'[t] \in {"getnext", "getcas"} => seen'[t].index # None
          /\ qpc'[t] \in Handled => own'[t].index # None
    BY DEF QueueType, OnlyMoves, Away, Handled, regs
  <1> QED
    BY <1>1, <1>2, <1>3 DEF QueueType, OnlyMoves, lists, regs, counts

LEMMA PushType ==
    ASSUME QueueType, NEW p \in Producers, Push(p)
    PROVE QueueType'
  <1>1. pushed' \in [Producers -> Nat]
    BY DEF QueueType, Push, Put
  <1> QED
    BY <1>1, Basics, GotoType DEF Push, ProducerLabels, Handled

LEMMA TypeStep == ASSUME QueueType, [Next]_vars PROVE QueueType'
  BY StepOnQueue, OnlyMovesType, PushType, ProducerType, HandlingType

-----------------------------------------------------------------------------
(* The lists.                                                               *)

Classes == {"free", "requested", "taken"}
Places == Classes \cup {"held"}

Getting(p) == qpc[p] \in {"getnext", "getcas"}

\* The word that names the first node of the handler's batch.
BatchHead ==
    IF qpc[Handler] = "walk" THEN own[Handler]
    ELSE IF GivingBack THEN link[Handler] ELSE NoWord

HeadOf(c) ==
    IF c = "free" THEN freeHead ELSE IF c = "requested" THEN requestHead ELSE BatchHead

NameOf(i, uses) == [flag |-> uses[i], index |-> i]

\* The word w names the node of rank k of the list c, or no node for rank 0.
Points(w, c, k, place, rank, uses) ==
    IF k = 0 THEN w.index = None
    ELSE \E j \in Nodes : place[j] = c /\ rank[j] = k /\ w = NameOf(j, uses)

\* The nodes of a list have the ranks from 1 to its length, each once, ...
Ranked(place, rank, len) ==
    /\ \A i \in Nodes : place[i] \in Classes => rank[i] \in 1 .. len[place[i]]
    /\ \A i, j \in Nodes : place[i] \in Classes /\ place[i] = place[j] /\ rank[i] = rank[j] => i = j
    /\ \A c \in Classes : \A k \in 1 .. len[c] : \E i \in Nodes : place[i] = c /\ rank[i] = k

\* ... its head names the node of the highest rank, ...
HeadsPoint(place, rank, len, uses) ==
    \A c \in Classes : Points(HeadOf(c), c, len[c], place, rank, uses)

\* ... and each node the one below it.
NodesPoint(place, rank, uses) ==
    \A i \in Nodes : place[i] \in Classes => Points(next[i], place[i], rank[i] - 1, place, rank, uses)

\* A node on no list is held by one thread, which knows its flag; it points to
\* the head that the thread has loaded, when it is about to become the head.
HeldByOne(place, uses) ==
    /\ \A t \in Holders : \E i \in Nodes : place[i] = "held" /\ own[t] = NameOf(i, uses)
    /\ \A t, u \in Holders : own[t].index = own[u].index => t = u
    /\ \A i \in Nodes : place[i] = "held" => \E t \in Holders : own[t].index = i
    /\ \A t \in Holders : qpc[t] = "putcas" => next[own[t].index] = seen[t]

\* What a producer has loaded of a node that it does not have: as long as its
\* flag is the node's, the node has not left the free list since.
Loaded(place, uses) ==
    \A p \in Producers : Getting(p) =>
        /\ seen[p].flag <= uses[seen[p].index]
        /\ seen[p].flag = uses[seen[p].index] =>
              /\ place[seen[p].index] = "free"
              /\ qpc[p] = "getcas" => link[p] = next[seen[p].index]

LinkedAs(place, rank, len, uses) ==
    /\ Ranked(place, rank, len)
    /\ HeadsPoint(place, rank, len, uses)
    /\ NodesPoint(place, rank, uses)
    /\ HeldByOne(place, uses)
    /\ Loaded(place, uses)

Linked ==
    \E place \in [Nodes -> Places], rank \in [Nodes -> Nat], len \in [Classes -> Nat],
       uses \in [Nodes -> 0 .. Flags - 1] : LinkedAs(place, rank, len, uses)

\* No node's flag has come back to 0.
NoFlagWraps == \A p \in Producers : qpc[p] \in Handled => own[p].flag # 0

LEMMA PointsNowhere ==
    ASSUME NEW w, NEW c, NEW k, NEW place, NEW rank, NEW uses,
           Points(w, c, k, place, rank, uses), w.index = None
    PROVE k = 0
  <1>1. CASE k # 0
    <2>1. PICK j \in Nodes : w = NameOf(j, uses)
      BY <1>1 DEF Points
    <2>2. w.index = j
      BY <2>1 DEF NameOf
    <2> QED
      BY <2>2, Basics
  <1> QED
    BY <1>1

\* Taking the node me, the first one, off the list c.
Pops(place, rank, len, uses, c, me, P, L, U) ==
    /\ place \in [Nodes -> Places] /\ rank \in [Nodes -> Nat] /\ len \in [Classes -> Nat]
    /\ c \in Classes /\ me \in Nodes
    /\ Ranked(place, rank, len) /\ place[me] = c /\ rank[me] = len[c]
    /\ \A i \in Nodes \ {me} : U[i] = uses[i]
    /\ P = [place EXCEPT ![me] = "held"]
    /\ L = [len EXCEPT ![c] = len[c] - 1]

Popped(place, rank, len, uses, c, me, P, L, U) ==
    /\ place \in [Nodes -> Places] /\ rank \in [Nodes -> Nat] /\ len \in [Classes -> Nat]
    /\ Ranked(place, rank, len) /\ c \in Classes
    /\ P \in [Nodes -> Places] /\ L \in [Classes -> Nat] /\ len[c] \in Nat \ {0}
    /\ Ranked(P, rank, L)
    /\ \A w : \A d \in Classes : \A k \in 0 .. L[d] :
          Points(w, d, k, place, rank, uses) => Points(w, d, k, P, rank, U)
    /\ \A d \in Classes \ {c} : L[d] = len[d]
    /\ L[c] = len[c] - 1
    /\ \A i \in Nodes : P[i] \in Classes => P[i] = place[i] /\ rank[i] - 1 \in 0 .. L[P[i]]
    /\ \A i \in Nodes : P[i] = "held" <=> place[i] = "held" \/ i = me
    /\ place[me] = c /\ rank[me] = len[c] /\ me \in Nodes
    /\ P[me] = "held" /\ \A i \in Nodes \ {me} : P[i] = place[i]

LEMMA PopRanks ==
    ASSUME NEW place, NEW rank, NEW len, NEW uses, NEW c, NEW me, NEW P, NEW L, NEW U,
           Pops(place, rank, len, uses, c, me, P, L, U)
    PROVE Popped(place, rank, len, uses, c, me, P, L, U)
  <1> USE DEF Pops
  <1>1. "held" \notin Classes /\ "held" \in Places
    BY DEF Classes, Places
  <1>2. len[c] \in Nat \ {0}
    BY DEF Ranked
  <1>3. P \in [Nodes -> Places] /\ P[me] = "held" /\ \A i \in Nodes \ {me} : P[i] = place[i]
    BY <1>1
  <1>4. L \in [Classes -> Nat] /\ L[c] = len[c] - 1 /\ \A d \in Classes \ {c} : L[d] = len[d]
    BY <1>2
  <1>5. ASSUME NEW i \in Nodes, P[i] \in Classes
        PROVE i # me /\ P[i] = place[i] /\ rank[i] \in 1 .. L[P[i]]
    <2>1. i # me /\ P[i] = place[i]
      BY <1>1, <1>3, <1>5
    <2>2. rank[i] \in 1 .. len[place[i]] /\ (place[i] = c => rank[i] # len[c])
      BY <1>5, <2>1 DEF Ranked
    <2> QED
      BY <1>2, <1>4, <1>5, <2>1, <2>2
  <1>6. \A i, j \in Nodes : P[i] \in Classes /\ P[i] = P[j] /\ rank[i] = rank[j] => i = j
    BY <1>5 DEF Ranked
  <1>7. ASSUME NEW d \in Classes, NEW k \in 1 .. L[d]
        PROVE \E i \in Nodes : P[i] = d /\ rank[i] = k
    <2>1. k \in 1 .. len[d] /\ (d = c => k # len[c])
      BY <1>2, <1>4
    <2>2. PICK i \in Nodes : place[i] = d /\ rank[i] = k
      BY <2>1 DEF Ranked
    <2>3. i # me
      BY <2>1, <2>2
    <2> QED
      BY <1>3, <2>2, <2>3
  <1>8. Ranked(P, rank, L)
    BY <1>5, <1>6, <1>7 DEF Ranked
  <1>9. ASSUME NEW w, NEW d \in Classes, NEW k \in 0 .. L[d], Points(w, d, k, place, rank, uses)
        PROVE Points(w, d, k, P, rank, U)
    <2>1. CASE k = 0
      BY <1>9, <2>1 DEF Points
    <2>2. CASE k # 0
      <3>1. PICK j \in Nodes : place[j] = d /\ rank[j] = k /\ w = NameOf(j, uses)
        BY <1>9, <2>2 DEF Points
      <3>2. j # me
        BY <1>2, <1>4, <3>1
      <3> QED
        BY <1>3, <2>2, <3>1, <3>2 DEF Points, NameOf
    <2> QED
      BY <2>1, <2>2
  <1>10. \A i \in Nodes : P[i] \in Classes => rank[i] - 1 \in 0 .. L[P[i]]
    BY <1>4, <1>5
  <1> QED
    BY <1>1, <1>2, <1>3, <1>4, <1>5, <1>8, <1>9, <1>10 DEF Popped

\* Putting the node me at the head of the list c.
Pushes(place, rank, len, c, me, P, R, L) ==
    /\ place \in [Nodes -> Places] /\ rank \in [Nodes -> Nat] /\ len \in [Classes -> Nat]
    /\ c \in Classes /\ me \in Nodes
    /\ Ranked(place, rank, len) /\ place[me] = "held"
    /\ P = [place EXCEPT ![me] = c]
    /\ R = [rank EXCEPT ![me] = len[c] + 1]
    /\ L = [len EXCEPT ![c] = len[c] + 1]

Pushed(place, rank, len, c, me, P, R, L) ==
    /\ place \in [Nodes -> Places] /\ rank \in [Nodes -> Nat] /\ len \in [Classes -> Nat]
    /\ Ranked(place, rank, len) /\ c \in Classes
    /\ P \in [Nodes -> Places] /\ R \in [Nodes -> Nat] /\ L \in [Classes -> Nat]
    /\ Ranked(P, R, L)
    /\ \A w, uses : \A d \in Classes : \A k \in Nat :
          Points(w, d, k, place, rank, uses) => Points(w, d, k, P, R, uses)
    /\ \A uses : Points(NameOf(me, uses), c, L[c], P, R, uses)
    /\ \A d \in Classes \ {c} : L[d] = len[d]
    /\ len[c] \in Nat /\ L[c] = len[c] + 1
    /\ \A i \in Nodes \ {me} : P[i] = place[i] /\ R[i] = rank[i]
    /\ place[me] = "held" /\ me \in Nodes /\ P[me] = c /\ R[me] = len[c] + 1

LEMMA PushRanks ==
    ASSUME NEW place, NEW rank, NEW len, NEW c, NEW me, NEW P, NEW R, NEW L,
           Pushes(place, rank, len, c, me, P, R, L)
    PROVE Pushed(place, rank, len, c, me, P, R, L)
  <1> USE DEF Pushes
  <1>1. "held" \notin Classes /\ Classes \subseteq Places
    BY DEF Classes, Places
  <1>2. /\ P \in [Nodes -> Places] /\ P[me] = c /\ R \in [Nodes -> Nat] /\ R[me] = len[c] + 1
        /\ \A i \in Nodes \ {me} : P[i] = place[i] /\ R[i] = rank[i]
    BY <1>1
  <1>3. /\ L \in [Classes -> Nat] /\ L[c] = len[c] + 1 /\ len[c] \in Nat
        /\ \A d \in Classes \ {c} : L[d] = len[d]
    OBVIOUS
  <1>4. ASSUME NEW i \in Nodes, P[i] \in Classes
        PROVE /\ R[i] \in 1 .. L[P[i]]
              /\ i # me => R[i] \in 1 .. len[P[i]]
    <2>1. CASE i = me
      BY <1>2, <1>3, <2>1
    <2>2. CASE i # me
      <3>1. rank[i] \in 1 .. len[place[i]] /\ P[i] = place[i] /\ R[i] = rank[i]
        BY <1>2, <1>4, <2>2 DEF Ranked
      <3> QED
        BY <1>3, <1>4, <3>1
    <2> QED
      BY <2>1, <2>2
  <1>5. ASSUME NEW i \in Nodes, NEW j \in Nodes, P[i] \in Classes, P[i] = P[j], R[i] = R[j]
        PROVE i = j
    <2>1. CASE i # me /\ j # me
      BY <1>2, <1>5, <2>1 DEF Ranked
    <2>2. CASE i = me /\ j # me
      BY <1>2, <1>3, <1>4, <1>5, <2>2
    <2>3. CASE j = me /\ i # me
      BY <1>2, <1>3, <1>4, <1>5, <2>3
    <2> QED
      BY <2>1, <2>2, <2>3
  <1>6. ASSUME NEW d \in Classes, NEW k \in 1 .. L[d]
        PROVE \E i \in Nodes : P[i] = d /\ R[i] = k
    <2>1. CASE d = c /\ k = len[c] + 1
      BY <1>2, <2>1
    <2>2. CASE ~(d = c /\ k = len[c] + 1)
      <3>1. k \in 1 .. len[d]
        BY <1>3, <2>2
      <3>2. PICK i \in Nodes : place[i] = d /\ rank[i] = k
        BY <3>1 DEF Ranked
      <3> QED
        BY <1>1, <1>2, <3>2
    <2> QED
      BY <2>1, <2>2
  <1>7. Ranked(P, R, L)
    BY <1>4, <1>5, <1>6 DEF Ranked
  <1>8. ASSUME NEW w, NEW uses, NEW d \in Classes, NEW k \in Nat, Points(w, d, k, place, rank, uses)
        PROVE Points(w, d, k, P, R, uses)
    <2>1. CASE k = 0
      BY <1>8, <2>1 DEF Points
    <2>2. CASE k # 0
      <3>1. PICK j \in Nodes : place[j] = d /\ rank[j] = k /\ w = NameOf(j, uses)
        BY <1>8, <2>2 DEF Points
      <3> QED
        BY <1>1, <1>2, <2>2, <3>1 DEF Points
    <2> QED
      BY <2>1, <2>2
  <1>9. \A uses : Points(NameOf(me, uses), c, L[c], P, R, uses)
    BY <1>2, <1>3 DEF Points
  <1> QED
    BY <1>2, <1>3, <1>7, <1>8, <1>9 DEF Pushed

-----------------------------------------------------------------------------
(* The lists are made of all the nodes, and every step keeps them so.       *)

LEMMA HoldersAre ==
    /\ \A t : t \in Holders <=> t \in Threads /\ qpc[t] \in Handled
    /\ GivingBack <=> Handler \in Holders
  BY Basics DEF Holders, GivingBack, Handled, Threads

LEMMA HoldersAreNext ==
    /\ \A t : t \in Holders' <=> t \in Threads /\ qpc'[t] \in Handled
    /\ GivingBack' <=> Handler \in Holders'
  BY Basics DEF Holders, GivingBack, Handled, Threads

LEMMA InitLinked == Init => Linked
  <1> SUFFICES ASSUME Init PROVE Linked
    OBVIOUS
  <1> DEFINE place == [i \in Nodes |-> "free"]
             rank == [i \in Nodes |-> Size - i]
             len == [c \in Classes |-> IF c = "free" THEN Size ELSE 0]
             uses == [i \in Nodes |-> 0]
  <1>0. QueueInit /\ Size \in Nat /\ Size > 0
    BY Basics DEF Init
  <1>1. \A i \in Nodes : i \in Nat /\ i < Size /\ Size - i \in 1 .. Size
    BY <1>0 DEF Nodes
  <1>2. /\ place \in [Nodes -> Places] /\ len \in [Classes -> Nat] /\ rank \in [Nodes -> Nat]
        /\ uses \in [Nodes -> 0 .. Flags - 1]
    BY <1>0, <1>1, Basics DEF Places, Classes
  <1>3. Ranked(place, rank, len)
    <2>1. \A i \in Nodes : rank[i] \in 1 .. len[place[i]]
      BY <1>1 DEF Classes
    <2>2. \A i, j \in Nodes : rank[i] = rank[j] => i = j
      BY <1>0, <1>1
    <2>3. ASSUME NEW c \in Classes, NEW k \in 1 .. len[c]
          PROVE \E i \in Nodes : place[i] = c /\ rank[i] = k
      <3>1. c = "free" /\ k \in 1 .. Size
        BY <1>0, <2>3
      <3>2. Size - k \in Nodes /\ Size - (Size - k) = k
        BY <1>0, <3>1 DEF Nodes
      <3> QED
        BY <3>1, <3>2
    <2> QED
      BY <2>1, <2>2, <2>3 DEF Ranked
  <1>4. HeadsPoint(place, rank, len, uses)
    <2>1. BatchHead = NoWord
      BY <1>0, Basics DEF QueueInit, BatchHead, GivingBack
    <2>2. Points(freeHead, "free", Size, place, rank, uses)
      <3>1. 0 \in Nodes /\ Size - 0 = Size /\ Size # 0
        BY <1>0 DEF Nodes
      <3>2. freeHead = NameOf(0, uses)
        BY <1>0, <3>1 DEF QueueInit, NameOf
      <3> QED
        BY <3>1, <3>2 DEF Points
    <2>3. Points(requestHead, "requested", 0, place, rank, uses) /\ Points(NoWord, "taken", 0, place, rank, uses)
      BY <1>0 DEF QueueInit, NoWord, Points
    <2> QED
      BY <2>1, <2>2, <2>3 DEF HeadsPoint, HeadOf, Classes
  <1>5. NodesPoint(place, rank, uses)
    <2>1. ASSUME NEW i \in Nodes
          PROVE Points(next[i], "free", rank[i] - 1, place, rank, uses)
      <3>1. next[i] = [flag |-> 0, index |-> i + 1] /\ i \in Nat /\ i < Size
        BY <1>0, <1>1 DEF QueueInit
      <3>2. CASE i + 1 = Size
        BY <1>0, <3>1, <3>2 DEF Points, None
      <3>3. CASE i + 1 # Size
        <4>1. i + 1 \in Nodes /\ Size - (i + 1) = (Size - i) - 1 /\ (Size - i) - 1 # 0
          BY <1>0, <3>1, <3>3 DEF Nodes
        <4>2. next[i] = NameOf(i + 1, uses)
          BY <3>1, <4>1 DEF NameOf
        <4> QED
          BY <4>1, <4>2 DEF Points
      <3> QED
        BY <3>2, <3>3
    <2> QED
      BY <2>1 DEF NodesPoint
  <1>6. \A t \in Threads : qpc[t] = "idle"
    BY <1>0 DEF QueueInit
  <1>7. HeldByOne(place, uses)
    BY <1>6, HoldersAre DEF HeldByOne, Handled
  <1>8. Loaded(place, uses)
    BY <1>6, Basics DEF Loaded, Getting
  <1> HIDE DEF place, rank, len, uses
  <1> QED
    BY <1>2, <1>3, <1>4, <1>5, <1>7, <1>8 DEF Linked, LinkedAs

\* A step that moves no node keeps the lists.
LEMMA Frame ==
    ASSUME NEW place \in [Nodes -> Places], NEW rank \in [Nodes -> Nat], NEW len \in [Classes -> Nat],
           NEW uses \in [Nodes -> 0 .. Flags - 1], LinkedAs(place, rank, len, uses),
           UNCHANGED <<freeHead, requestHead, next>>, BatchHead' = BatchHead,
           \A t \in Threads :
              /\ qpc'[t] \in Handled <=> qpc[t] \in Handled
              /\ qpc[t] \in Handled => own'[t] = own[t]
              /\ qpc'[t] = "putcas" => qpc[t] = "putcas" /\ seen'[t] = seen[t],
           Loaded(place, uses)'
    PROVE LinkedAs(place, rank, len, uses)'
  <1>1. HeadsPoint(place, rank, len, uses)'
    BY DEF LinkedAs, HeadsPoint, HeadOf, Points
  <1>2. NodesPoint(place, rank, uses)'
    BY DEF LinkedAs, NodesPoint, Points
  <1>3. Holders' = Holders
    BY HoldersAre, HoldersAreNext
  <1>4. HeldByOne(place, uses)'
    BY <1>3, HoldersAre DEF LinkedAs, HeldByOne
  <1>5. Ranked(place, rank, len)'
    BY DEF LinkedAs, Ranked
  <1> QED
    BY <1>1, <1>2, <1>4, <1>5 DEF LinkedAs

LEMMA LoadedFrame ==
    ASSUME NEW place \in [Nodes -> Places], NEW uses \in [Nodes -> 0 .. Flags - 1],
           Loaded(place, uses), next' = next,
           \A p \in Producers : Getting(p)' =>
              qpc'[p] = qpc[p] /\ seen'[p] = seen[p] /\ link'[p] = link[p]
    PROVE Loaded(place, uses)'
  <1>1. \A p \in Producers : Getting(p)' => Getting(p)
    BY DEF Getting
  <1> QED
    BY <1>1 DEF Loaded

LEMMA BatchFrame ==
    ASSUME qpc'[Handler] = qpc[Handler], own'[Handler] = own[Handler], link'[Handler] = link[Handler]
    PROVE BatchHead' = BatchHead
  BY DEF BatchHead, GivingBack

LEMMA OnlyMovesLinked ==
    ASSUME QueueType, OnlyMoves,
           NEW place \in [Nodes -> Places], NEW rank \in [Nodes -> Nat], NEW len \in [Classes -> Nat],
           NEW uses \in [Nodes -> 0 .. Flags - 1], LinkedAs(place, rank, len, uses)
    PROVE LinkedAs(place, rank, len, uses)'
  <1>1. UNCHANGED <<lists, regs>>
    BY DEF OnlyMoves
  <1>2. BatchHead' = BatchHead
    BY <1>1, Basics DEF OnlyMoves, BatchHead, GivingBack, Away, regs
  <1>3. \A t \in Threads :
              /\ qpc'[t] \in Handled <=> qpc[t] \in Handled
              /\ qpc'[t] \in {"putcas", "getnext", "getcas"} => qpc'[t] = qpc[t]
    BY DEF OnlyMoves, Away, Handled
  <1>4. Loaded(place, uses)'
    BY <1>1, <1>3, LoadedFrame, Basics DEF LinkedAs, Getting, lists, regs
  <1> QED
    BY <1>1, <1>2, <1>3, <1>4, Frame DEF lists, regs

\* The steps of a producer between those that move a node.
LEMMA ProducerFrame ==
    ASSUME QueueType, NEW p \in Producers,
           \/ Push(p) \/ Full(p) \/ GetLoad(p) \/ GetNext(p) \/ GetAgain(p) \/ PutLoad(p) \/ PutAgain(p),
           NEW place \in [Nodes -> Places], NEW rank \in [Nodes -> Nat], NEW len \in [Classes -> Nat],
           NEW uses \in [Nodes -> 0 .. Flags - 1], LinkedAs(place, rank, len, uses)
    PROVE LinkedAs(place, rank, len, uses)'
  <1>0. p \in Threads /\ p # Handler /\ Handler \in Threads /\ Producers \subseteq Threads
    BY Basics
  <1>1. PICK l \in {"get", "getnext", "getcas", "returned", "putload", "putlink"} : Goto(p, l)
    BY DEF Push, Full, GetLoad, GetNext, GetAgain, PutLoad, PutAgain
  <1>2. qpc'[p] = l /\ \A t \in Threads \ {p} : qpc'[t] = qpc[t]
    BY <1>0, <1>1 DEF Goto, QueueType
  <1>3. UNCHANGED <<freeHead, requestHead, next, own>>
    BY DEF Push, Full, GetLoad, GetNext, GetAgain, PutLoad, PutAgain, lists, regs
  <1>4. \A t \in Threads \ {p} : seen'[t] = seen[t] /\ link'[t] = link[t]
    BY DEF Push, Full, GetLoad, GetNext, GetAgain, PutLoad, PutAgain, lists, regs, Put, QueueType
  <1>5. l \in Handled <=> qpc[p] \in Handled
    BY <1>0, <1>2 DEF Push, Full, GetLoad, GetNext, GetAgain, PutLoad, PutAgain, Goto, Handled, QueueType
  <1>6. BatchHead' = BatchHead
    BY <1>0, <1>2, <1>3, <1>4, BatchFrame
  <1>7. Loaded(place, uses)'
    <2>1. ASSUME NEW q \in Producers, q # p, Getting(q)'
          PROVE /\ seen[q].flag <= uses[seen[q].index]
                /\ seen[q].flag = uses[seen[q].index] =>
                      /\ place[seen[q].index] = "free"
                      /\ qpc[q] = "getcas" => link[q] = next[seen[q].index]
      BY <1>0, <1>2, <2>1 DEF LinkedAs, Loaded, Getting
    <2>2. CASE GetLoad(p)
      <3>1. seen'[p] = freeHead /\ freeHead.index # None /\ qpc'[p] = "getnext"
        BY <1>0, <2>2 DEF GetLoad, Put, Goto, QueueType
      <3>2. Points(freeHead, "free", len["free"], place, rank, uses)
        BY DEF LinkedAs, HeadsPoint, HeadOf, Classes
      <3>3. PICK j \in Nodes : place[j] = "free" /\ freeHead = NameOf(j, uses)
        BY <3>1, <3>2 DEF Points
      <3>4. freeHead.flag = uses[j] /\ freeHead.index = j /\ uses[j] \in Nat
        BY <3>3, Basics DEF NameOf
      <3>5. uses[j] <= uses[j]
        BY <3>4
      <3> QED
        BY <1>0, <1>2, <1>3, <1>4, <2>1, <3>1, <3>3, <3>4, <3>5 DEF Loaded, Getting
    <2>3. CASE GetNext(p)
      <3>1. seen'[p] = seen[p] /\ link'[p] = next[seen[p].index] /\ Getting(p)
        BY <1>0, <2>3 DEF GetNext, Put, QueueType, Getting
      <3>2. /\ seen[p].flag <= uses[seen[p].index]
            /\ seen[p].flag = uses[seen[p].index] => place[seen[p].index] = "free"
        BY <3>1 DEF LinkedAs, Loaded
      <3> QED
        BY <1>0, <1>2, <1>3, <1>4, <2>1, <3>1, <3>2 DEF Loaded, Getting
    <2>4. CASE ~GetLoad(p) /\ ~GetNext(p)
      <3>1. l \notin {"getnext", "getcas"}
        BY <1>0, <1>2, <2>4 DEF Push, Full, GetAgain, PutLoad, PutAgain, Goto, QueueType
      <3> QED
        BY <1>0, <1>2, <1>3, <1>4, <2>1, <3>1 DEF Loaded, Getting
    <2> QED
      BY <2>2, <2>3, <2>4
  <1> QED
    BY <1>0, <1>2, <1>3, <1>4, <1>5, <1>6, <1>7, Frame

\* The same of the handler.
LEMMA HandlerFrame ==
    ASSUME QueueType,
           \/ HandleLoad \/ HandleAgain \/ PutLoad(Handler) \/ PutAgain(Handler) \/ Run,
           NEW place \in [Nodes -> Places], NEW rank \in [Nodes -> Nat], NEW len \in [Classes -> Nat],
           NEW uses \in [Nodes -> 0 .. Flags - 1], LinkedAs(place, rank, len, uses)
    PROVE LinkedAs(place, rank, len, uses)'
  <1>0. Handler \in Threads /\ Producers \subseteq Threads \ {Handler}
    BY Basics
  <1>1. /\ UNCHANGED <<freeHead, requestHead, next, own, link>>
        /\ \A t \in Threads \ {Handler} : qpc'[t] = qpc[t] /\ seen'[t] = seen[t]
        /\ \/ qpc'[Handler] = qpc[Handler] /\ qpc[Handler] = "walk"
           \/ qpc[Handler] \in {"handle", "handlecas"} /\ qpc'[Handler] \in {"handle", "handlecas"}
           \/ qpc[Handler] \in Handled /\ qpc'[Handler] \in {"putload", "putlink"}
    BY <1>0 DEF HandleLoad, HandleAgain, PutLoad, PutAgain, Run, lists, regs, Put, Goto, QueueType, Handled
  <1>2. BatchHead' = BatchHead
    BY <1>1 DEF BatchHead, GivingBack, Handled
  <1>3. Loaded(place, uses)'
    BY <1>0, <1>1, LoadedFrame DEF LinkedAs
  <1> QED
    BY <1>0, <1>1, <1>2, <1>3, Frame DEF Handled

LEMMA RunEndLinked ==
    ASSUME QueueType, RunEnd,
           NEW place \in [Nodes -> Places], NEW rank \in [Nodes -> Nat], NEW len \in [Classes -> Nat],
           NEW uses \in [Nodes -> 0 .. Flags - 1], LinkedAs(place, rank, len, uses)
    PROVE LinkedAs(place, rank, len, uses)'
  <1>0. Handler \in Threads /\ Producers \subseteq Threads \ {Handler}
    BY Basics
  <1>1. /\ UNCHANGED <<freeHead, requestHead, next>>
        /\ \A t \in Threads \ {Handler} :
              qpc'[t] = qpc[t] /\ seen'[t] = seen[t] /\ own'[t] = own[t] /\ link'[t] = link[t]
        /\ qpc[Handler] = "walk" /\ qpc'[Handler] = "handled" /\ own[Handler].index = None
    BY <1>0 DEF RunEnd, Clear, lists, Put, Goto, QueueType
  <1>2. BatchHead = own[Handler] /\ BatchHead' = NoWord
    BY <1>1 DEF BatchHead, GivingBack
  <1>3. len["taken"] = 0
    <2>1. Points(own[Handler], "taken", len["taken"], place, rank, uses)
      BY <1>2 DEF LinkedAs, HeadsPoint, HeadOf, Classes
    <2> QED
      BY <1>1, <2>1, PointsNowhere
  <1>4. HeadsPoint(place, rank, len, uses)'
    <2>1. ASSUME NEW c \in Classes, c # "taken"
          PROVE Points(HeadOf(c), c, len[c], place, rank, uses)'
      <3>1. HeadOf(c)' = HeadOf(c) /\ Points(HeadOf(c), c, len[c], place, rank, uses)
        BY <1>1, <2>1 DEF HeadOf, Classes, LinkedAs, HeadsPoint
      <3> QED
        BY <3>1 DEF Points
    <2>2. Points(HeadOf("taken"), "taken", len["taken"], place, rank, uses)'
      BY <1>2, <1>3 DEF HeadOf, Points, NoWord
    <2> QED
      BY <2>1, <2>2 DEF HeadsPoint
  <1>5. NodesPoint(place, rank, uses)'
    BY <1>1 DEF LinkedAs, NodesPoint, Points
  <1>6. \A t \in Threads : (qpc'[t] \in Handled <=> qpc[t] \in Handled) /\ (qpc[t] \in Handled => t # Handler)
    BY <1>1 DEF Handled
  <1>7. Holders' = Holders /\ Handler \notin Holders
    BY <1>6, HoldersAre, HoldersAreNext
  <1>8. HeldByOne(place, uses)'
    BY <1>1, <1>7, HoldersAre DEF LinkedAs, HeldByOne
  <1>9. Loaded(place, uses)'
    BY <1>0, <1>1, LoadedFrame DEF LinkedAs
  <1> QED
    BY <1>4, <1>5, <1>8, <1>9 DEF LinkedAs, Ranked

\* The node whose pointer changes is the thread's own, and on no list.
LEMMA PutLinkLinked ==
    ASSUME QueueType, NEW t \in Threads, PutLink(t),
           NEW place \in [Nodes -> Places], NEW rank \in [Nodes -> Nat], NEW len \in [Classes -> Nat],
           NEW uses \in [Nodes -> 0 .. Flags - 1], LinkedAs(place, rank, len, uses)
    PROVE LinkedAs(place, rank, len, uses)'
  <1>0. Handler \in Threads /\ Producers \subseteq Threads
    BY Basics
  <1>1. /\ UNCHANGED <<freeHead, requestHead, seen, link, own>>
        /\ next' = Put(next, own[t].index, seen[t])
        /\ qpc[t] = "putlink" /\ qpc'[t] = "putcas"
        /\ \A u \in Threads \ {t} : qpc'[u] = qpc[u]
    BY DEF PutLink, Goto, QueueType, regs
  <1>2. t \in Holders
    BY <1>1, HoldersAre DEF Handled
  <1>3. PICK me \in Nodes : place[me] = "held" /\ own[t] = NameOf(me, uses)
    BY <1>2 DEF LinkedAs, HeldByOne
  <1>4. own[t].index = me /\ next'[me] = seen[t] /\ \A i \in Nodes \ {me} : next'[i] = next[i]
    BY <1>1, <1>3 DEF NameOf, Put, QueueType
  <1>5. BatchHead' = BatchHead
    BY <1>0, <1>1 DEF BatchHead, GivingBack
  <1>6. HeadsPoint(place, rank, len, uses)'
    BY <1>1, <1>5 DEF LinkedAs, HeadsPoint, HeadOf, Points
  <1>7. "held" \notin Classes
    BY DEF Classes
  <1>8. NodesPoint(place, rank, uses)'
    BY <1>3, <1>4, <1>7 DEF LinkedAs, NodesPoint, Points
  <1>9. Holders' = Holders
    BY <1>1, HoldersAre, HoldersAreNext DEF Handled
  <1>10. ASSUME NEW u \in Holders, qpc'[u] = "putcas"
         PROVE next'[own[u].index] = seen[u]
    <2>1. CASE u = t
      BY <1>4, <2>1
    <2>2. CASE u # t
      <3>1. qpc[u] = "putcas" /\ own[u].index # me
        BY <1>1, <1>2, <1>4, <1>10, <2>2, HoldersAre DEF LinkedAs, HeldByOne
      <3>2. own[u].index \in Nodes
        <4>1. PICK i \in Nodes : own[u] = NameOf(i, uses)
          BY DEF LinkedAs, HeldByOne
        <4> QED
          BY <4>1 DEF NameOf
      <3> QED
        BY <1>4, <3>1, <3>2 DEF LinkedAs, HeldByOne
    <2> QED
      BY <2>1, <2>2
  <1>11. HeldByOne(place, uses)'
    BY <1>1, <1>9, <1>10 DEF LinkedAs, HeldByOne
  <1>12. Loaded(place, uses)'
    <2>1. ASSUME NEW p \in Producers, Getting(p)'
          PROVE /\ seen'[p].flag <= uses[seen'[p].index]
                /\ seen'[p].flag = uses[seen'[p].index] =>
                      /\ place[seen'[p].index] = "free"
                      /\ qpc'[p] = "getcas" => link'[p] = next'[seen'[p].index]
      <3>1. Getting(p) /\ qpc'[p] = qpc[p] /\ seen'[p] = seen[p] /\ link'[p] = link[p]
        BY <1>0, <1>1, <2>1 DEF Getting
      <3>2. seen[p].index \in Nodes
        BY <1>0, <3>1, WordType DEF Getting, QueueType
      <3> QED
        BY <1>3, <1>4, <3>1, <3>2 DEF LinkedAs, Loaded
    <2> QED
      BY <2>1 DEF Loaded
  <1> QED
    BY <1>6, <1>8, <1>11, <1>12 DEF LinkedAs, Ranked

\* While the flag is the head's, the node is the first free one still and points
\* to what was loaded.
LEMMA GetCasLinked ==
    ASSUME QueueType, NEW p \in Producers, GetCas(p), NoFlagWraps',
           NEW place \in [Nodes -> Places], NEW rank \in [Nodes -> Nat], NEW len \in [Classes -> Nat],
           NEW uses \in [Nodes -> 0 .. Flags - 1], LinkedAs(place, rank, len, uses)
    PROVE \E P \in [Nodes -> Places], R \in [Nodes -> Nat], L \in [Classes -> Nat],
             U \in [Nodes -> 0 .. Flags - 1] :
             /\ LinkedAs(P, R, L, U)'
             /\ R = rank /\ Popped(place, rank, len, uses, "free", seen[p].index, P, L, U)
  <1>0. /\ p \in Threads /\ p # Handler /\ Handler \in Threads /\ Producers \subseteq Threads
        /\ "free" \in Classes
    BY Basics DEF Classes
  <1>1. /\ qpc[p] = "getcas" /\ freeHead = seen[p] /\ freeHead' = link[p]
        /\ own'[p] = IncRequsetIndex(seen[p]) /\ qpc'[p] = "putload"
        /\ UNCHANGED <<requestHead, next>>
        /\ \A t \in Threads \ {p} :
              qpc'[t] = qpc[t] /\ seen'[t] = seen[t] /\ own'[t] = own[t] /\ link'[t] = link[t]
    BY <1>0 DEF GetCas, Goto, Put, QueueType
  <1>2. /\ Ranked(place, rank, len) /\ HeadsPoint(place, rank, len, uses)
        /\ NodesPoint(place, rank, uses) /\ HeldByOne(place, uses) /\ Loaded(place, uses)
    BY DEF LinkedAs
  <1>3. seen[p] \in Word /\ seen[p].index # None
    BY <1>0, <1>1 DEF QueueType
  <1>4. PICK me \in Nodes : place[me] = "free" /\ rank[me] = len["free"] /\ seen[p] = NameOf(me, uses)
    <2>1. Points(seen[p], "free", len["free"], place, rank, uses)
      BY <1>0, <1>1, <1>2 DEF HeadsPoint, HeadOf
    <2> QED
      BY <1>3, <2>1 DEF Points
  <1>5. seen[p].index = me /\ seen[p].flag = uses[me]
    BY <1>4 DEF NameOf
  <1>6. freeHead' = next[me]
    BY <1>1, <1>2, <1>5 DEF Loaded, Getting
  \* The flag has not come back to 0.
  <1>7. uses[me] + 1 \in 0 .. Flags - 1 /\ own'[p] = [flag |-> uses[me] + 1, index |-> me]
    <2>1. IncRequsetIndex(seen[p]) = [flag |-> (uses[me] + 1) % Flags, index |-> me]
      BY <1>4 DEF IncRequsetIndex, NameOf
    <2>2. own'[p].flag # 0
      BY <1>1 DEF NoFlagWraps, Handled
    <2>3. (uses[me] + 1) % Flags # 0
      BY <1>1, <2>1, <2>2
    <2>4. uses[me] \in 0 .. Flags - 1
      OBVIOUS
    <2>5. uses[me] + 1 # Flags
      <3>1. Flags % Flags = 0
        BY Basics
      <3> QED
        BY <2>3, <3>1
    <2>6. uses[me] + 1 \in 0 .. Flags - 1
      BY <2>4, <2>5, Basics
    <2>7. (uses[me] + 1) % Flags = uses[me] + 1
      BY <2>6, Basics
    <2> QED
      BY <1>1, <2>1, <2>6, <2>7
  <1> DEFINE P == [place EXCEPT ![me] = "held"]
             L == [len EXCEPT !["free"] = @ - 1]
             U == [uses EXCEPT ![me] = uses[me] + 1]
  <1>8. U \in [Nodes -> 0 .. Flags - 1] /\ U[me] = uses[me] + 1 /\ \A i \in Nodes \ {me} : U[i] = uses[i]
    BY <1>7
  <1>9. Popped(place, rank, len, uses, "free", me, P, L, U)
    <2>1. Pops(place, rank, len, uses, "free", me, P, L, U)
      BY <1>0, <1>2, <1>4, <1>8 DEF Pops
    <2> QED
      BY <2>1, PopRanks
  <1> HIDE DEF P, L, U
  <1> USE DEF Popped
  <1>11. HeadsPoint(P, rank, L, U)'
    <2>1. BatchHead' = BatchHead
      BY <1>0, <1>1, BatchFrame
    <2>2. ASSUME NEW d \in Classes
          PROVE Points(HeadOf(d), d, L[d], P, rank, U)'
      <3>1. Points(HeadOf(d)', d, L[d], place, rank, uses)
        <4>1. CASE d = "free"
          <5>1. Points(next[me], "free", rank[me] - 1, place, rank, uses)
            BY <1>0, <1>2, <1>4 DEF NodesPoint
          <5> QED
            BY <1>4, <1>6, <1>9, <4>1, <5>1 DEF HeadOf
        <4>2. CASE d # "free"
          <5>1. HeadOf(d)' = HeadOf(d)
            BY <1>1, <2>1, <4>2 DEF HeadOf
          <5> QED
            BY <1>2, <1>9, <4>2, <5>1 DEF HeadsPoint
        <4> QED
          BY <4>1, <4>2
      <3>2. L[d] \in 0 .. L[d]
        BY <1>9
      <3>3. Points(HeadOf(d)', d, L[d], P, rank, U)
        BY <1>9, <3>1, <3>2
      <3> QED
        BY <3>3 DEF Points
    <2> QED
      BY <2>2 DEF HeadsPoint
  <1>12. NodesPoint(P, rank, U)'
    <2>1. ASSUME NEW i \in Nodes, P[i] \in Classes
          PROVE Points(next[i], P[i], rank[i] - 1, P, rank, U)
      BY <1>2, <1>9, <2>1 DEF NodesPoint
    <2> QED
      BY <1>1, <2>1 DEF NodesPoint, Points
  <1>13. HeldByOne(P, U)'
    <2>1. Holders' = Holders \cup {p} /\ p \notin Holders
      BY <1>0, <1>1, HoldersAre, HoldersAreNext DEF Handled
    <2>2. ASSUME NEW t \in Holders
          PROVE own'[t] = own[t] /\ \E i \in Nodes \ {me} : place[i] = "held" /\ own[t] = NameOf(i, uses)
      BY <1>1, <1>2, <1>4, <2>1, HoldersAre DEF HeldByOne
    <2>3. ASSUME NEW t \in Holders
          PROVE own'[t].index # me /\ \E i \in Nodes : P[i] = "held" /\ own'[t] = NameOf(i, U)
      <3>1. PICK i \in Nodes \ {me} : place[i] = "held" /\ own'[t] = NameOf(i, uses)
        BY <2>2
      <3>2. own'[t].index = i /\ NameOf(i, uses) = NameOf(i, U) /\ P[i] = "held"
        BY <1>8, <1>9, <3>1 DEF NameOf
      <3> QED
        BY <3>1, <3>2
    <2>4. own'[p].index = me /\ own'[p] = NameOf(me, U)
      BY <1>7, <1>8 DEF NameOf
    <2>5. \A t \in Holders' : \E i \in Nodes : P[i] = "held" /\ own'[t] = NameOf(i, U)
      BY <1>9, <2>1, <2>3, <2>4
    <2>6. \A t, u \in Holders' : own'[t].index = own'[u].index => t = u
      BY <1>2, <2>1, <2>2, <2>3, <2>4 DEF HeldByOne
    <2>7. \A i \in Nodes : P[i] = "held" => \E t \in Holders' : own'[t].index = i
      BY <1>2, <1>9, <2>1, <2>2, <2>4 DEF HeldByOne
    <2>8. \A t \in Holders' : qpc'[t] = "putcas" => next'[own'[t].index] = seen'[t]
      <3>1. ASSUME NEW t \in Holders', qpc'[t] = "putcas" PROVE next'[own'[t].index] = seen'[t]
        <4>1. t # p /\ t \in Holders /\ t \in Threads
          BY <1>1, <2>1, <3>1, HoldersAre
        <4> QED
          BY <1>1, <1>2, <3>1, <4>1 DEF HeldByOne
      <3> QED
        BY <3>1
    <2> QED
      BY <2>5, <2>6, <2>7, <2>8 DEF HeldByOne, NameOf
  <1>14. Loaded(P, U)'
    <2>1. ASSUME NEW q \in Producers, Getting(q)'
          PROVE /\ seen'[q].flag <= U[seen'[q].index]
                /\ seen'[q].flag = U[seen'[q].index] =>
                      /\ P[seen'[q].index] = "free"
                      /\ qpc'[q] = "getcas" => link'[q] = next'[seen'[q].index]
      <3>1. q # p /\ q \in Threads
        BY <1>0, <1>1, <2>1 DEF Getting
      <3>2. Getting(q) /\ qpc'[q] = qpc[q] /\ seen'[q] = seen[q] /\ link'[q] = link[q]
        BY <1>1, <2>1, <3>1 DEF Getting
      <3>3. seen[q].index \in Nodes /\ seen[q].flag \in 0 .. Flags - 1
        BY <3>1, <3>2, WordType DEF Getting, QueueType
      <3>4. CASE seen[q].index = me
        <4>1. seen[q].flag <= uses[me]
          BY <1>2, <3>2, <3>4 DEF Loaded
        <4>2. seen[q].flag < U[me]
          BY <1>7, <1>8, <3>3, <4>1, Basics
        <4> QED
          BY <1>8, <3>2, <3>3, <3>4, <4>2, Basics
      <3>5. CASE seen[q].index # me
        BY <1>1, <1>2, <1>8, <1>9, <3>2, <3>3, <3>5 DEF Loaded
      <3> QED
        BY <3>4, <3>5
    <2> QED
      BY <2>1 DEF Loaded
  <1>15. LinkedAs(P, rank, L, U)'
    BY <1>9, <1>11, <1>12, <1>13, <1>14 DEF LinkedAs, Ranked
  <1> QED
    BY <1>5, <1>8, <1>9, <1>15

\* The handler takes the first node of its batch.
LEMMA WalkLinked ==
    ASSUME QueueType, Walk,
           NEW place \in [Nodes -> Places], NEW rank \in [Nodes -> Nat], NEW len \in [Classes -> Nat],
           NEW uses \in [Nodes -> 0 .. Flags - 1], LinkedAs(place, rank, len, uses)
    PROVE \E P \in [Nodes -> Places], R \in [Nodes -> Nat], L \in [Classes -> Nat],
             U \in [Nodes -> 0 .. Flags - 1] :
             /\ LinkedAs(P, R, L, U)'
             /\ R = rank /\ U = uses
             /\ Popped(place, rank, len, uses, "taken", own[Handler].index, P, L, uses)
  <1>0. /\ Handler \in Threads /\ Producers \subseteq Threads \ {Handler}
        /\ "taken" \in Classes
    BY Basics DEF Classes
  <1>1. /\ qpc[Handler] = "walk" /\ qpc'[Handler] = "putload" /\ own[Handler].index # None
        /\ link'[Handler] = next[own[Handler].index]
        /\ UNCHANGED <<freeHead, requestHead, next, seen, own>>
        /\ \A t \in Threads \ {Handler} : qpc'[t] = qpc[t] /\ link'[t] = link[t]
    BY <1>0 DEF Walk, Goto, Put, QueueType
  <1>2. /\ Ranked(place, rank, len) /\ HeadsPoint(place, rank, len, uses)
        /\ NodesPoint(place, rank, uses) /\ HeldByOne(place, uses) /\ Loaded(place, uses)
    BY DEF LinkedAs
  <1>3. BatchHead = own[Handler] /\ BatchHead' = link'[Handler]
    BY <1>1 DEF BatchHead, GivingBack
  <1>4. PICK me \in Nodes : place[me] = "taken" /\ rank[me] = len["taken"] /\ own[Handler] = NameOf(me, uses)
    <2>1. Points(own[Handler], "taken", len["taken"], place, rank, uses)
      BY <1>0, <1>2, <1>3 DEF HeadsPoint, HeadOf
    <2> QED
      BY <1>1, <2>1 DEF Points
  <1>5. own[Handler].index = me
    BY <1>4 DEF NameOf
  <1> DEFINE P == [place EXCEPT ![me] = "held"]
             L == [len EXCEPT !["taken"] = @ - 1]
  <1>6. Popped(place, rank, len, uses, "taken", me, P, L, uses)
    <2>1. Pops(place, rank, len, uses, "taken", me, P, L, uses)
      BY <1>0, <1>2, <1>4 DEF Pops
    <2> QED
      BY <2>1, PopRanks
  <1> HIDE DEF P, L
  <1> USE DEF Popped
  <1>7. HeadsPoint(P, rank, L, uses)'
    <2>2. ASSUME NEW d \in Classes
          PROVE Points(HeadOf(d), d, L[d], P, rank, uses)'
      <3>1. Points(HeadOf(d)', d, L[d], place, rank, uses)
        <4>1. CASE d = "taken"
          <5>1. Points(next[me], "taken", rank[me] - 1, place, rank, uses)
            BY <1>0, <1>2, <1>4 DEF NodesPoint
          <5>2. HeadOf(d)' = next[me]
            BY <1>1, <1>3, <1>5, <4>1 DEF HeadOf
          <5> QED
            BY <1>4, <1>6, <4>1, <5>1, <5>2
        <4>2. CASE d # "taken"
          <5>1. HeadOf(d)' = HeadOf(d)
            BY <1>1, <4>2 DEF HeadOf, Classes
          <5> QED
            BY <1>2, <1>6, <4>2, <5>1 DEF HeadsPoint
        <4> QED
          BY <4>1, <4>2
      <3>2. L[d] \in 0 .. L[d]
        BY <1>6
      <3>3. Points(HeadOf(d)', d, L[d], P, rank, uses)
        BY <1>6, <3>1, <3>2
      <3> QED
        BY <3>3 DEF Points
    <2> QED
      BY <2>2 DEF HeadsPoint
  <1>8. NodesPoint(P, rank, uses)'
    <2>1. ASSUME NEW i \in Nodes, P[i] \in Classes
          PROVE Points(next[i], P[i], rank[i] - 1, P, rank, uses)
      BY <1>2, <1>6, <2>1 DEF NodesPoint
    <2> QED
      BY <1>1, <2>1 DEF NodesPoint, Points
  <1>9. HeldByOne(P, uses)'
    <2>1. Holders' = Holders \cup {Handler} /\ Handler \notin Holders
      BY <1>0, <1>1, HoldersAre, HoldersAreNext DEF Handled
    <2>2. ASSUME NEW t \in Holders
          PROVE own[t].index # me /\ \E i \in Nodes : P[i] = "held" /\ own[t] = NameOf(i, uses)
      <3>1. PICK i \in Nodes : place[i] = "held" /\ own[t] = NameOf(i, uses)
        BY <1>2 DEF HeldByOne
      <3>2. own[t].index = i /\ i # me /\ P[i] = "held"
        BY <1>4, <1>6, <3>1 DEF NameOf
      <3> QED
        BY <3>1, <3>2
    <2>3. \A t \in Holders' : \E i \in Nodes : P[i] = "held" /\ own[t] = NameOf(i, uses)
      BY <1>4, <1>6, <2>1, <2>2
    <2>4. \A t, u \in Holders' : own[t].index = own[u].index => t = u
      BY <1>2, <1>5, <2>1, <2>2 DEF HeldByOne
    <2>5. \A i \in Nodes : P[i] = "held" => \E t \in Holders' : own[t].index = i
      BY <1>2, <1>5, <1>6, <2>1 DEF HeldByOne
    <2>6. ASSUME NEW t \in Holders', qpc'[t] = "putcas" PROVE next[own[t].index] = seen[t]
      <3>1. t # Handler /\ t \in Holders /\ t \in Threads
        BY <1>1, <2>1, <2>6, HoldersAre
      <3> QED
        BY <1>1, <1>2, <2>6, <3>1 DEF HeldByOne
    <2> QED
      BY <1>1, <2>3, <2>4, <2>5, <2>6 DEF HeldByOne, NameOf
  <1>10. Loaded(P, uses)'
    <2>1. ASSUME NEW q \in Producers, Getting(q)'
          PROVE /\ seen[q].flag <= uses[seen[q].index]
                /\ seen[q].flag = uses[seen[q].index] =>
                      /\ P[seen[q].index] = "free"
                      /\ qpc'[q] = "getcas" => link'[q] = next[seen[q].index]
      <3>1. q \in Threads \ {Handler} /\ Getting(q) /\ qpc'[q] = qpc[q] /\ link'[q] = link[q]
        BY <1>0, <1>1, <2>1 DEF Getting
      <3>2. seen[q].index \in Nodes
        BY <3>1, WordType DEF Getting, QueueType
      <3> QED
        BY <1>2, <1>4, <1>6, <3>1, <3>2 DEF Loaded
    <2> QED
      BY <1>1, <2>1 DEF Loaded
  <1>11. LinkedAs(P, rank, L, uses)'
    BY <1>6, <1>7, <1>8, <1>9, <1>10 DEF LinkedAs, Ranked
  <1> QED
    BY <1>5, <1>6, <1>11

\* A thread puts its node, which points to the head, at the head of a list: the
\* producers on the list of requests, the handler on the free one.
LEMMA PutLinked ==
    ASSUME QueueType, NEW t \in Threads, NEW c \in Classes \ {"taken"}, qpc[t] = "putcas",
           HeadOf(c) = seen[t], HeadOf(c)' = own[t], next' = next,
           \A d \in Classes \ {c} : HeadOf(d)' = HeadOf(d),
           qpc'[t] \notin Handled \cup {"getnext", "getcas"},
           \A u \in Threads \ {t} :
              qpc'[u] = qpc[u] /\ own'[u] = own[u] /\ seen'[u] = seen[u] /\ link'[u] = link[u],
           NEW place \in [Nodes -> Places], NEW rank \in [Nodes -> Nat], NEW len \in [Classes -> Nat],
           NEW uses \in [Nodes -> 0 .. Flags - 1], LinkedAs(place, rank, len, uses)
    PROVE \E P \in [Nodes -> Places], R \in [Nodes -> Nat], L \in [Classes -> Nat],
             U \in [Nodes -> 0 .. Flags - 1] :
             /\ LinkedAs(P, R, L, U)'
             /\ U = uses /\ Pushed(place, rank, len, c, own[t].index, P, R, L)
  <1>0. c \in Classes /\ Producers \subseteq Threads
    BY Basics
  <1>2. /\ Ranked(place, rank, len) /\ HeadsPoint(place, rank, len, uses)
        /\ NodesPoint(place, rank, uses) /\ HeldByOne(place, uses) /\ Loaded(place, uses)
    BY DEF LinkedAs
  <1>3. t \in Holders /\ Holders' = Holders \ {t}
    BY HoldersAre, HoldersAreNext DEF Handled
  <1>4. PICK me \in Nodes : place[me] = "held" /\ own[t] = NameOf(me, uses)
    BY <1>2, <1>3 DEF HeldByOne
  <1>5. own[t].index = me /\ next[me] = seen[t]
    <2>1. own[t].index = me
      BY <1>4 DEF NameOf
    <2> QED
      BY <1>2, <1>3, <2>1 DEF HeldByOne
  <1> DEFINE P == [place EXCEPT ![me] = c]
             R == [rank EXCEPT ![me] = len[c] + 1]
             L == [len EXCEPT ![c] = @ + 1]
  <1>6. Pushed(place, rank, len, c, me, P, R, L)
    <2>1. Pushes(place, rank, len, c, me, P, R, L)
      BY <1>0, <1>2, <1>4 DEF Pushes
    <2> QED
      BY <2>1, PushRanks
  <1> HIDE DEF P, R, L
  <1> USE DEF Pushed
  <1>7. HeadsPoint(P, R, L, uses)'
    <2>1. ASSUME NEW d \in Classes
          PROVE Points(HeadOf(d)', d, L[d], P, R, uses)
      <3>1. CASE d = c
        BY <1>4, <1>6, <3>1
      <3>2. CASE d # c
        BY <1>2, <1>6, <3>2 DEF HeadsPoint
      <3> QED
        BY <3>1, <3>2
    <2> QED
      BY <2>1 DEF HeadsPoint, Points
  <1>8. NodesPoint(P, R, uses)'
    <2>1. ASSUME NEW i \in Nodes, P[i] \in Classes
          PROVE Points(next[i], P[i], R[i] - 1, P, R, uses)
      <3>1. CASE i = me
        <4>1. Points(next[me], c, len[c], place, rank, uses)
          BY <1>0, <1>2, <1>5 DEF HeadsPoint
        <4>2. R[me] - 1 = len[c]
          BY <1>6
        <4> QED
          BY <1>6, <3>1, <4>1, <4>2
      <3>2. CASE i # me
        <4>1. Points(next[i], place[i], rank[i] - 1, place, rank, uses) /\ rank[i] \in 1 .. len[place[i]]
          BY <1>2, <1>6, <2>1, <3>2 DEF NodesPoint, Ranked
        <4>2. rank[i] - 1 \in Nat
          BY <4>1
        <4> QED
          BY <1>6, <2>1, <3>2, <4>1, <4>2
      <3> QED
        BY <3>1, <3>2
    <2> QED
      BY <2>1 DEF NodesPoint, Points
  <1>9. HeldByOne(P, uses)'
    <2>1. ASSUME NEW u \in Holders \ {t}
          PROVE /\ u \in Threads /\ own'[u] = own[u] /\ qpc'[u] = qpc[u] /\ seen'[u] = seen[u]
                /\ own[u].index # me
                /\ \E i \in Nodes : P[i] = "held" /\ own[u] = NameOf(i, uses)
      <3>1. u \in Threads /\ own'[u] = own[u] /\ qpc'[u] = qpc[u] /\ seen'[u] = seen[u]
        BY HoldersAre
      <3>2. own[u].index # me
        BY <1>2, <1>3, <1>5 DEF HeldByOne
      <3>3. PICK i \in Nodes : place[i] = "held" /\ own[u] = NameOf(i, uses)
        BY <1>2 DEF HeldByOne
      <3>4. own[u].index = i
        BY <3>3 DEF NameOf
      <3> QED
        BY <1>6, <3>1, <3>2, <3>3, <3>4
    <2>2. \A i \in Nodes : P[i] = "held" => \E u \in Holders \ {t} : own'[u].index = i
      <3>1. ASSUME NEW i \in Nodes, P[i] = "held" PROVE \E u \in Holders \ {t} : own'[u].index = i
        <4>1. i # me /\ place[i] = "held"
          BY <1>0, <1>6, <3>1 DEF Classes
        <4>2. PICK u \in Holders : own[u].index = i
          BY <1>2, <4>1 DEF HeldByOne
        <4> QED
          BY <1>5, <2>1, <4>1, <4>2
      <3> QED
        BY <3>1
    <2>3. \A u \in Holders \ {t} : qpc'[u] = "putcas" => next[own'[u].index] = seen'[u]
      BY <1>2, <2>1 DEF HeldByOne
    <2>4. \A u, v \in Holders \ {t} : own'[u].index = own'[v].index => u = v
      BY <1>2, <2>1 DEF HeldByOne
    <2>5. \A u \in Holders \ {t} : \E i \in Nodes : P[i] = "held" /\ own'[u] = NameOf(i, uses)
      BY <2>1
    <2>6. HeldByOne(P, uses)' <=>
            /\ \A u \in Holders' : \E i \in Nodes : P[i] = "held" /\ own'[u] = NameOf(i, uses)
            /\ \A u, v \in Holders' : own'[u].index = own'[v].index => u = v
            /\ \A i \in Nodes : P[i] = "held" => \E u \in Holders' : own'[u].index = i
            /\ \A u \in Holders' : qpc'[u] = "putcas" => next'[own'[u].index] = seen'[u]
      BY DEF HeldByOne, NameOf
    <2> QED
      BY <1>3, <2>2, <2>3, <2>4, <2>5, <2>6
  <1>10. Loaded(P, uses)'
    <2>1. ASSUME NEW q \in Producers, Getting(q)'
          PROVE /\ seen'[q].flag <= uses[seen'[q].index]
                /\ seen'[q].flag = uses[seen'[q].index] =>
                      /\ P[seen'[q].index] = "free"
                      /\ qpc'[q] = "getcas" => link'[q] = next'[seen'[q].index]
      <3>1. /\ q \in Threads \ {t} /\ Getting(q)
            /\ qpc'[q] = qpc[q] /\ link'[q] = link[q] /\ seen'[q] = seen[q]
        BY <1>0, <2>1 DEF Getting
      <3>2. seen[q].index \in Nodes
        BY <3>1, WordType DEF Getting, QueueType
      <3> QED
        BY <1>2, <1>4, <1>6, <3>1, <3>2 DEF Loaded
    <2> QED
      BY <2>1 DEF Loaded
  <1>11. LinkedAs(P, R, L, uses)'
    BY <1>6, <1>7, <1>8, <1>9, <1>10 DEF LinkedAs, Ranked
  <1> QED
    BY <1>5, <1>6, <1>11

LEMMA PutRequestLinked ==
    ASSUME QueueType, NEW p \in Producers, PutRequest(p),
           NEW place \in [Nodes -> Places], NEW rank \in [Nodes -> Nat], NEW len \in [Classes -> Nat],
           NEW uses \in [Nodes -> 0 .. Flags - 1], LinkedAs(place, rank, len, uses)
    PROVE \E P \in [Nodes -> Places], R \in [Nodes -> Nat], L \in [Classes -> Nat],
             U \in [Nodes -> 0 .. Flags - 1] :
             /\ LinkedAs(P, R, L, U)'
             /\ U = uses /\ Pushed(place, rank, len, "requested", own[p].index, P, R, L)
  <1>0. p \in Threads /\ p # Handler /\ Handler \in Threads /\ "requested" \in Classes \ {"taken"}
    BY Basics DEF Classes
  <1>1. /\ qpc[p] = "putcas" /\ qpc'[p] = "returned" /\ requestHead = seen[p] /\ requestHead' = own[p]
        /\ UNCHANGED <<freeHead, next>>
        /\ \A u \in Threads \ {p} :
              qpc'[u] = qpc[u] /\ own'[u] = own[u] /\ seen'[u] = seen[u] /\ link'[u] = link[u]
    BY <1>0 DEF PutRequest, Goto, Clear, Put, QueueType
  <1>2. BatchHead' = BatchHead
    BY <1>0, <1>1, BatchFrame
  <1>3. \A d \in Classes \ {"requested"} : HeadOf(d)' = HeadOf(d)
    BY <1>1, <1>2 DEF HeadOf
  <1>4. HeadOf("requested") = seen[p] /\ HeadOf("requested")' = own[p]
    BY <1>1 DEF HeadOf
  <1>5. "returned" \notin Handled \cup {"getnext", "getcas"}
    BY DEF Handled
  <1> QED
    BY <1>0, <1>1, <1>3, <1>4, <1>5, PutLinked

LEMMA GiveBackLinked ==
    ASSUME QueueType, GiveBack,
           NEW place \in [Nodes -> Places], NEW rank \in [Nodes -> Nat], NEW len \in [Classes -> Nat],
           NEW uses \in [Nodes -> 0 .. Flags - 1], LinkedAs(place, rank, len, uses)
    PROVE \E P \in [Nodes -> Places], R \in [Nodes -> Nat], L \in [Classes -> Nat],
             U \in [Nodes -> 0 .. Flags - 1] :
             /\ LinkedAs(P, R, L, U)'
             /\ U = uses /\ Pushed(place, rank, len, "free", own[Handler].index, P, R, L)
  <1>0. Handler \in Threads /\ "free" \in Classes \ {"taken"}
    BY Basics DEF Classes
  <1>1. /\ qpc[Handler] = "putcas" /\ qpc'[Handler] = "walk"
        /\ freeHead = seen[Handler] /\ freeHead' = own[Handler] /\ own'[Handler] = link[Handler]
        /\ UNCHANGED <<requestHead, next>>
        /\ \A u \in Threads \ {Handler} :
              qpc'[u] = qpc[u] /\ own'[u] = own[u] /\ seen'[u] = seen[u] /\ link'[u] = link[u]
    BY <1>0 DEF GiveBack, Goto, Put, QueueType
  <1>2. BatchHead = link[Handler] /\ BatchHead' = own'[Handler]
    BY <1>1 DEF BatchHead, GivingBack
  <1>3. \A d \in Classes \ {"free"} : HeadOf(d)' = HeadOf(d)
    BY <1>1, <1>2 DEF HeadOf
  <1>4. HeadOf("free") = seen[Handler] /\ HeadOf("free")' = own[Handler]
    BY <1>1 DEF HeadOf
  <1>5. "walk" \notin Handled \cup {"getnext", "getcas"}
    BY DEF Handled
  <1> QED
    BY <1>0, <1>1, <1>3, <1>4, <1>5, PutLinked

\* All requests become the handler's batch.
TakenAll(place, len, P, L) ==
    /\ len["taken"] = 0 /\ L["taken"] = len["requested"]
    /\ L["requested"] = 0 /\ L["free"] = len["free"]
    /\ \A i \in Nodes :
          /\ place[i] # "taken" /\ P[i] # "requested"
          /\ P[i] = "taken" <=> place[i] = "requested"
          /\ P[i] = "free" <=> place[i] = "free"

LEMMA HandleCasLinked ==
    ASSUME QueueType, HandleCas,
           NEW place \in [Nodes -> Places], NEW rank \in [Nodes -> Nat], NEW len \in [Classes -> Nat],
           NEW uses \in [Nodes -> 0 .. Flags - 1], LinkedAs(place, rank, len, uses)
    PROVE \E P \in [Nodes -> Places], R \in [Nodes -> Nat], L \in [Classes -> Nat],
             U \in [Nodes -> 0 .. Flags - 1] :
             /\ LinkedAs(P, R, L, U)'
             /\ R = rank /\ U = uses /\ TakenAll(place, len, P, L)
  <1>0. /\ Handler \in Threads /\ Producers \subseteq Threads \ {Handler}
        /\ Classes = {"free", "requested", "taken"} /\ "held" \notin Classes /\ Classes \subseteq Places
    BY Basics DEF Classes, Places
  <1>1. /\ qpc[Handler] = "handlecas" /\ qpc'[Handler] = "walk" /\ requestHead = seen[Handler]
        /\ requestHead' = [seen[Handler] EXCEPT !.index = None] /\ own'[Handler] = seen[Handler]
        /\ UNCHANGED <<freeHead, next>>
        /\ \A u \in Threads \ {Handler} :
              qpc'[u] = qpc[u] /\ own'[u] = own[u] /\ seen'[u] = seen[u] /\ link'[u] = link[u]
    BY <1>0 DEF HandleCas, Goto, Put, QueueType
  <1>2. /\ Ranked(place, rank, len) /\ HeadsPoint(place, rank, len, uses)
        /\ NodesPoint(place, rank, uses) /\ HeldByOne(place, uses) /\ Loaded(place, uses)
    BY DEF LinkedAs
  <1>3. BatchHead = NoWord /\ BatchHead' = requestHead
    BY <1>1 DEF BatchHead, GivingBack
  <1>4. requestHead'.index = None
    BY <1>0, <1>1, WordType DEF QueueType, Word
  <1>5. len["taken"] = 0
    <2>1. Points(NoWord, "taken", len["taken"], place, rank, uses)
      BY <1>0, <1>2, <1>3 DEF HeadsPoint, HeadOf
    <2> QED
      BY <2>1, PointsNowhere DEF NoWord
  <1>6. \A i \in Nodes : place[i] # "taken"
    BY <1>0, <1>2, <1>5 DEF Ranked
  <1> DEFINE P == [i \in Nodes |-> IF place[i] = "requested" THEN "taken" ELSE place[i]]
             L == [c \in Classes |-> IF c = "taken" THEN len["requested"]
                                     ELSE IF c = "requested" THEN 0 ELSE len[c]]
  <1>7. P \in [Nodes -> Places] /\ L \in [Classes -> Nat]
    BY <1>0
  <1>8. /\ L["taken"] = len["requested"] /\ L["requested"] = 0 /\ L["free"] = len["free"]
        /\ \A i \in Nodes :
              /\ P[i] = "taken" <=> place[i] = "requested"
              /\ P[i] # "requested"
              /\ P[i] = "free" <=> place[i] = "free"
              /\ P[i] = "held" <=> place[i] = "held"
    BY <1>0, <1>6
  <1> HIDE DEF P, L
  <1>9. Ranked(P, rank, L)
    <2>1. ASSUME NEW i \in Nodes, P[i] \in Classes PROVE rank[i] \in 1 .. L[P[i]]
      BY <1>0, <1>2, <1>8, <2>1 DEF Ranked
    <2>2. ASSUME NEW i \in Nodes, NEW j \in Nodes, P[i] \in Classes, P[i] = P[j], rank[i] = rank[j]
          PROVE i = j
      <3>1. place[i] = place[j] /\ place[i] \in Classes
        BY <1>0, <1>8, <2>2
      <3> QED
        BY <1>2, <2>2, <3>1 DEF Ranked
    <2>3. ASSUME NEW c \in Classes, NEW k \in 1 .. L[c]
          PROVE \E i \in Nodes : P[i] = c /\ rank[i] = k
      <3>1. CASE c = "taken"
        <4>1. PICK i \in Nodes : place[i] = "requested" /\ rank[i] = k
          BY <1>0, <1>2, <1>8, <3>1 DEF Ranked
        <4> QED
          BY <1>8, <3>1, <4>1
      <3>2. CASE c = "free"
        <4>1. PICK i \in Nodes : place[i] = "free" /\ rank[i] = k
          BY <1>0, <1>2, <1>8, <3>2 DEF Ranked
        <4> QED
          BY <1>8, <3>2, <4>1
      <3>3. c # "requested"
        BY <1>8, <2>3
      <3> QED
        BY <1>0, <3>1, <3>2, <3>3
    <2> QED
      BY <2>1, <2>2, <2>3 DEF Ranked
  <1>10. \A w, k : /\ Points(w, "requested", k, place, rank, uses) => Points(w, "taken", k, P, rank, uses)
                   /\ Points(w, "free", k, place, rank, uses) => Points(w, "free", k, P, rank, uses)
    BY <1>8 DEF Points
  <1>11. HeadsPoint(P, rank, L, uses)'
    <2>1. Points(HeadOf("free")', "free", L["free"], P, rank, uses)
      <3>1. HeadOf("free")' = HeadOf("free")
        BY <1>1 DEF HeadOf
      <3> QED
        BY <1>0, <1>2, <1>8, <1>10, <3>1 DEF HeadsPoint
    <2>2. Points(HeadOf("requested")', "requested", L["requested"], P, rank, uses)
      BY <1>4, <1>8 DEF HeadOf, Points
    <2>3. Points(HeadOf("taken")', "taken", L["taken"], P, rank, uses)
      <3>1. HeadOf("taken")' = HeadOf("requested")
        BY <1>3 DEF HeadOf
      <3> QED
        BY <1>0, <1>2, <1>8, <1>10, <3>1 DEF HeadsPoint
    <2>4. \A d \in Classes : Points(HeadOf(d)', d, L[d], P, rank, uses)
      BY <1>0, <2>1, <2>2, <2>3
    <2> QED
      BY <2>4 DEF HeadsPoint, Points
  <1>12. NodesPoint(P, rank, uses)'
    <2>1. ASSUME NEW i \in Nodes, P[i] \in Classes
          PROVE Points(next[i], P[i], rank[i] - 1, P, rank, uses)
      <3>1. CASE P[i] = "taken"
        BY <1>0, <1>2, <1>8, <1>10, <3>1 DEF NodesPoint
      <3>2. CASE P[i] = "free"
        BY <1>0, <1>2, <1>8, <1>10, <3>2 DEF NodesPoint
      <3> QED
        BY <1>0, <1>8, <2>1, <3>1, <3>2
    <2> QED
      BY <1>1, <2>1 DEF NodesPoint, Points
  <1>13. \A t \in Threads : (qpc'[t] \in Handled <=> qpc[t] \in Handled) /\ (qpc[t] \in Handled => t # Handler)
    BY <1>1 DEF Handled
  <1>14. Holders' = Holders /\ Handler \notin Holders
    BY <1>13, HoldersAre, HoldersAreNext
  <1>15. HeldByOne(P, uses)'
    <2>1. \A t \in Holders : own'[t] = own[t] /\ qpc'[t] = qpc[t] /\ seen'[t] = seen[t]
      BY <1>1, <1>14, HoldersAre
    <2>2. HeldByOne(P, uses)
      BY <1>2, <1>8 DEF HeldByOne
    <2>3. HeldByOne(P, uses)' <=>
            /\ \A t \in Holders' : \E i \in Nodes : P[i] = "held" /\ own'[t] = NameOf(i, uses)
            /\ \A t, u \in Holders' : own'[t].index = own'[u].index => t = u
            /\ \A i \in Nodes : P[i] = "held" => \E t \in Holders' : own'[t].index = i
            /\ \A t \in Holders' : qpc'[t] = "putcas" => next'[own'[t].index] = seen'[t]
      BY DEF HeldByOne, NameOf
    <2>4. /\ \A t \in Holders : \E i \in Nodes : P[i] = "held" /\ own'[t] = NameOf(i, uses)
          /\ \A i \in Nodes : P[i] = "held" => \E t \in Holders : own'[t].index = i
      BY <2>1, <2>2 DEF HeldByOne
    <2>5. /\ \A t, u \in Holders : own'[t].index = own'[u].index => t = u
          /\ \A t \in Holders : qpc'[t] = "putcas" => next'[own'[t].index] = seen'[t]
      BY <1>1, <2>1, <2>2 DEF HeldByOne
    <2> QED
      BY <1>14, <2>3, <2>4, <2>5
  <1>16. Loaded(P, uses)'
    <2>1. \A p \in Producers : Getting(p) => seen[p].index \in Nodes
      BY <1>0, WordType DEF Getting, QueueType
    <2>2. Loaded(P, uses)
      BY <1>2, <1>8, <2>1 DEF Loaded
    <2> QED
      BY <1>0, <1>1, <1>7, <2>2, LoadedFrame
  <1>17. LinkedAs(P, rank, L, uses)'
    BY <1>9, <1>11, <1>12, <1>15, <1>16 DEF LinkedAs, Ranked
  <1>18. TakenAll(place, len, P, L)
    BY <1>5, <1>6, <1>8 DEF TakenAll
  <1> QED
    BY <1>7, <1>17, <1>18

LEMMA LinkedStep ==
    ASSUME QueueType, Linked, [Next]_vars, NoFlagWraps'
    PROVE Linked'
  <1>1. PICK place \in [Nodes -> Places], rank \in [Nodes -> Nat], len \in [Classes -> Nat],
             uses \in [Nodes -> 0 .. Flags - 1] : LinkedAs(place, rank, len, uses)
    BY DEF Linked
  <1>2. LinkedAs(place, rank, len, uses)' => Linked'
    BY DEF Linked
  <1>3. OnlyMoves => Linked'
    BY <1>1, <1>2, OnlyMovesLinked
  <1>4. ASSUME NEW p \in Producers, Push(p) \/ Producer(p) PROVE Linked'
    <2>1. p \in Threads
      BY Basics
    <2>2. CASE \/ Push(p) \/ Full(p) \/ GetLoad(p) \/ GetNext(p) \/ GetAgain(p)
               \/ PutLoad(p) \/ PutAgain(p)
      BY <1>1, <1>2, <2>2, ProducerFrame
    <2>3. CASE GetCas(p)
      BY <1>1, <2>3, GetCasLinked DEF Linked
    <2>4. CASE PutLink(p)
      BY <1>1, <1>2, <2>1, <2>4, PutLinkLinked
    <2>5. CASE PutRequest(p)
      BY <1>1, <2>5, PutRequestLinked DEF Linked
    <2> QED
      BY <1>4, <2>2, <2>3, <2>4, <2>5 DEF Producer
  <1>5. CASE Handling
    <2>1. CASE HandleLoad \/ HandleAgain \/ PutLoad(Handler) \/ PutAgain(Handler) \/ Run
      BY <1>1, <1>2, <2>1, HandlerFrame
    <2>2. CASE HandleCas
      <3>1. PICK P \in [Nodes -> Places], R \in [Nodes -> Nat], L \in [Classes -> Nat],
                 U \in [Nodes -> 0 .. Flags - 1] : LinkedAs(P, R, L, U)'
        BY <1>1, <2>2, HandleCasLinked, Zenon
      <3> QED
        BY <3>1, Zenon DEF Linked
    <2>3. CASE Walk
      <3>1. PICK P \in [Nodes -> Places], R \in [Nodes -> Nat], L \in [Classes -> Nat],
                 U \in [Nodes -> 0 .. Flags - 1] : LinkedAs(P, R, L, U)'
        BY <1>1, <2>3, WalkLinked, Zenon
      <3> QED
        BY <3>1, Zenon DEF Linked
    <2>4. CASE PutLink(Handler)
      BY <1>1, <1>2, <2>4, Basics, PutLinkLinked
    <2>5. CASE GiveBack
      BY <1>1, <2>5, GiveBackLinked DEF Linked
    <2>6. CASE RunEnd
      BY <1>1, <1>2, <2>6, RunEndLinked
    <2> QED
      BY <1>5, <2>1, <2>2, <2>3, <2>4, <2>5, <2>6 DEF Handling
  <1> QED
    BY <1>3, <1>4, <1>5, StepOnQueue

-----------------------------------------------------------------------------
(* What Chain computes.                                                     *)

LEMMA LeastNumber == ASSUME NEW T \in SUBSET Nat, T # {}
                     PROVE  \E i \in T : \A j \in T : i <= j
  <1> DEFINE R == {p \in Nat \X Nat : p[1] < p[2]}
  <1>1. IsWellFoundedOn(R, Nat)
    BY NatLessThanWellFounded DEF OpToRel
  <1> HIDE DEF R
  <1>2. PICK i \in T : \A j \in T : ~ (<<j, i>> \in R)
    BY <1>1, WFMin
  <1>3. \A j \in T : ~ (j < i)
    BY <1>2 DEF R
  <1> QED
    BY <1>3

NodeAt(c, k, place, rank) == CHOOSE i \in Nodes : place[i] = c /\ rank[i] = k

\* The nodes of the list c from rank k down to 1.
Down(c, k, place, rank) == [j \in 1 .. k |-> NodeAt(c, k + 1 - j, place, rank)]

LEMMA NodeAtIs ==
    ASSUME NEW place \in [Nodes -> Places], NEW rank \in [Nodes -> Nat], NEW len \in [Classes -> Nat],
           Ranked(place, rank, len), NEW c \in Classes, NEW k \in 1 .. len[c]
    PROVE /\ NodeAt(c, k, place, rank) \in Nodes
          /\ place[NodeAt(c, k, place, rank)] = c /\ rank[NodeAt(c, k, place, rank)] = k
          /\ \A i \in Nodes : place[i] = c /\ rank[i] = k => i = NodeAt(c, k, place, rank)
  <1>1. \E i \in Nodes : place[i] = c /\ rank[i] = k
    BY DEF Ranked
  <1>2. /\ NodeAt(c, k, place, rank) \in Nodes
        /\ place[NodeAt(c, k, place, rank)] = c /\ rank[NodeAt(c, k, place, rank)] = k
    BY <1>1 DEF NodeAt
  <1> HIDE DEF NodeAt
  <1> QED
    BY <1>2 DEF Ranked

\* A list has no more nodes than there are.
LEMMA ListCount ==
    ASSUME NEW place \in [Nodes -> Places], NEW rank \in [Nodes -> Nat], NEW len \in [Classes -> Nat],
           Ranked(place, rank, len), NEW c \in Classes
    PROVE /\ IsFiniteSet({i \in Nodes : place[i] = c})
          /\ Cardinality({i \in Nodes : place[i] = c}) = len[c]
          /\ len[c] <= Size
  <1> DEFINE S == {i \in Nodes : place[i] = c}
             f == [k \in 1 .. len[c] |-> NodeAt(c, k, place, rank)]
  <1>0. len[c] \in Nat /\ IsFiniteSet(Nodes) /\ Cardinality(Nodes) = Size
    <2>1. 0 \in Int /\ Size - 1 \in Int /\ Size - 1 >= 0
      BY Basics
    <2>2. IsFiniteSet(0 .. Size - 1) /\ Cardinality(0 .. Size - 1) = Size - 1 - 0 + 1
      BY <2>1, FS_Interval
    <2> QED
      BY <2>2, Basics DEF Nodes
  <1>1. \A k \in 1 .. len[c] : f[k] \in S /\ rank[f[k]] = k
    BY NodeAtIs
  <1>2. \A k, m \in 1 .. len[c] : f[k] = f[m] => k = m
    <2> HIDE DEF f
    <2> QED
      BY <1>1
  <1>3. \A i \in S : \E k \in 1 .. len[c] : f[k] = i
    <2>1. TAKE i \in S
    <2>2. rank[i] \in 1 .. len[c]
      BY <2>1 DEF Ranked
    <2>3. f[rank[i]] = i
      BY <2>1, <2>2, NodeAtIs
    <2> QED
      BY <2>2, <2>3
  <1>4. f \in Bijection(1 .. len[c], S)
    <2>1. f \in [1 .. len[c] -> S]
      BY <1>1
    <2> HIDE DEF f, S
    <2> QED
      BY <2>1, <1>2, <1>3, Fun_IsBij
  <1>5. IsFiniteSet(S) /\ Cardinality(S) = len[c]
    <2>1. IsFiniteSet(1 .. len[c]) /\ Cardinality(1 .. len[c]) = len[c]
      BY <1>0, FS_Interval
    <2> HIDE DEF f, S
    <2>2. ExistsBijection(1 .. len[c], S)
      BY <1>4 DEF ExistsBijection
    <2> QED
      BY <2>1, <2>2, FS_Bijection
  <1>6. len[c] <= Size
    BY <1>0, <1>5, FS_Subset
  <1> QED
    BY <1>5, <1>6

\* The nodes that the walk down from rank k meets.
LEMMA DownNodes ==
    ASSUME NEW place \in [Nodes -> Places], NEW rank \in [Nodes -> Nat], NEW len \in [Classes -> Nat],
           Ranked(place, rank, len), NEW c \in Classes, NEW k \in 0 .. len[c]
    PROVE NodesOf(Down(c, k, place, rank)) = {i \in Nodes : place[i] = c /\ rank[i] <= k}
  <1>k. len[c] \in Nat /\ k \in Nat
    OBVIOUS
  <1>0. k \in Nat /\ Down(c, k, place, rank) \in [1 .. k -> Nodes] /\ Len(Down(c, k, place, rank)) = k
    <2>1. \A j \in 1 .. k : k + 1 - j \in 1 .. len[c]
      BY <1>k
    <2>2. \A j \in 1 .. k : NodeAt(c, k + 1 - j, place, rank) \in Nodes
      BY <2>1, NodeAtIs
    <2> HIDE DEF NodeAt
    <2>3. k \in Nat /\ Down(c, k, place, rank) \in [1 .. k -> Nodes]
      BY <1>k, <2>2 DEF Down
    <2> HIDE DEF Down
    <2> QED
      BY <2>3
  <1>1. ASSUME NEW j \in 1 .. k PROVE LET i == Down(c, k, place, rank)[j]
                                       IN  i \in Nodes /\ place[i] = c /\ rank[i] <= k
    <2>1. k + 1 - j \in 1 .. len[c] /\ k + 1 - j <= k
      BY <1>k
    <2>2. Down(c, k, place, rank)[j] = NodeAt(c, k + 1 - j, place, rank)
      BY DEF Down
    <2> QED
      BY <2>1, <2>2, NodeAtIs
  <1>2. ASSUME NEW i \in Nodes, place[i] = c, rank[i] <= k
        PROVE \E j \in 1 .. k : Down(c, k, place, rank)[j] = i
    <2>1. rank[i] \in 1 .. len[c] /\ k + 1 - rank[i] \in 1 .. k /\ k + 1 - (k + 1 - rank[i]) = rank[i]
      BY <1>k, <1>2 DEF Ranked
    <2>2. NodeAt(c, rank[i], place, rank) = i
      BY <1>2, <2>1, NodeAtIs
    <2>3. Down(c, k, place, rank)[k + 1 - rank[i]] = i
      BY <2>1, <2>2 DEF Down
    <2> QED
      BY <2>1, <2>3
  <1> QED
    BY <1>0, <1>1, <1>2 DEF NodesOf

\* What is read along a list is the list.
LEMMA ChainIs ==
    ASSUME QueueType,
           NEW place \in [Nodes -> Places], NEW rank \in [Nodes -> Nat], NEW len \in [Classes -> Nat],
           NEW uses \in [Nodes -> 0 .. Flags - 1],
           Ranked(place, rank, len), NodesPoint(place, rank, uses),
           NEW c \in Classes, NEW n \in 0 .. len[c], NEW w,
           Points(w, c, n, place, rank, uses)
    PROVE Chain(w) = Down(c, n, place, rank)
  <1> DEFINE D == 0 .. Size
             step(f, k) == IF k = 0 THEN w.index
                           ELSE LET i == f[k - 1] IN IF i = None THEN None ELSE next[i].index
             at == CHOOSE f : f = [k \in D |-> step(f, k)]
             g == [k \in D |-> IF k < n THEN NodeAt(c, n - k, place, rank) ELSE None]
  <1>0. n \in Nat /\ len[c] \in Nat /\ n <= Size /\ Size \in Nat /\ None = Size
    <2>1. len[c] <= Size
      BY ListCount
    <2> QED
      BY <2>1, Basics DEF None
  <1>1. ASSUME NEW k \in D, k < n
        PROVE /\ n - k \in 1 .. len[c] /\ NodeAt(c, n - k, place, rank) \in Nodes
              /\ place[NodeAt(c, n - k, place, rank)] = c /\ rank[NodeAt(c, n - k, place, rank)] = n - k
    <2>1. n - k \in 1 .. len[c]
      BY <1>0, <1>1
    <2> QED
      BY <2>1, NodeAtIs
  <1>2. w.index = g[0]
    <2>1. CASE n = 0
      BY <1>0, <2>1 DEF Points
    <2>2. CASE n # 0
      <3>1. PICK j \in Nodes : place[j] = c /\ rank[j] = n /\ w = NameOf(j, uses)
        BY <2>2 DEF Points
      <3>2. n \in 1 .. len[c] /\ 0 \in D /\ 0 < n /\ n - 0 = n
        BY <1>0, <2>2
      <3>3. j = NodeAt(c, n, place, rank)
        BY <3>1, <3>2, NodeAtIs
      <3> QED
        BY <3>1, <3>2, <3>3 DEF NameOf
    <2> QED
      BY <2>1, <2>2
  <1>3. ASSUME NEW k \in D, k # 0
        PROVE g[k] = IF g[k - 1] = None THEN None ELSE next[g[k - 1]].index
    <2>0. k \in Nat /\ k - 1 \in D /\ k - 1 \in Nat
      BY <1>0, <1>3
    <2>1. CASE k - 1 >= n
      BY <1>0, <2>0, <2>1
    <2>2. CASE k - 1 < n
      <3> DEFINE i == NodeAt(c, n - (k - 1), place, rank)
      <3>1. i \in Nodes /\ place[i] = c /\ rank[i] = n - (k - 1) /\ g[k - 1] = i /\ rank[i] - 1 = n - k
        BY <1>0, <1>1, <2>0, <2>2
      <3> HIDE DEF i
      <3>2. g[k - 1] # None
        BY <3>1, Basics
      <3>3. Points(next[i], c, n - k, place, rank, uses)
        BY <3>1 DEF NodesPoint
      <3>4. CASE n = k
        BY <1>0, <3>1, <3>2, <3>3, <3>4 DEF Points
      <3>5. CASE n # k
        <4>1. PICK j \in Nodes : place[j] = c /\ rank[j] = n - k /\ next[i] = NameOf(j, uses)
          BY <1>0, <2>0, <3>3, <3>5 DEF Points
        <4>2. k < n /\ n - k \in 1 .. len[c]
          BY <1>0, <2>0, <2>2, <3>5
        <4>3. j = NodeAt(c, n - k, place, rank)
          BY <4>1, <4>2, NodeAtIs
        <4> HIDE DEF NodeAt
        <4>4. g[k] = j
          BY <4>2, <4>3
        <4> QED
          BY <3>1, <3>2, <4>1, <4>4 DEF NameOf
      <3> QED
        BY <3>4, <3>5
    <2> QED
      BY <1>0, <2>0, <2>1, <2>2
  <1>4. g = [k \in D |-> step(g, k)]
    <2>1. \A k \in D : g[k] = step(g, k)
      BY <1>2, <1>3
    <2> HIDE DEF step
    <2> QED
      BY <2>1
  <1>5. at = [k \in D |-> step(at, k)]
    <2> HIDE DEF g, step
    <2> QED
      BY <1>4
  <1>6. \A k \in D : at[k] = g[k]
    <2> HIDE DEF at
    <2>1. SUFFICES ASSUME \E k \in D : at[k] # g[k] PROVE FALSE
      OBVIOUS
    <2> DEFINE Bad == {k \in D : at[k] # g[k]}
    <2>0. Bad \in SUBSET Nat /\ Bad # {}
      <3>1. D \in SUBSET Nat
        BY <1>0
      <3> HIDE DEF D, g
      <3> QED
        BY <2>1, <3>1
    <2> HIDE DEF Bad
    <2>2. PICK k \in Bad : \A m \in Bad : k <= m
      BY <2>0, LeastNumber
    <2> USE DEF Bad
    <2>3. at[k] = step(at, k) /\ g[k] = step(g, k)
      BY <1>4, <1>5, <2>2
    <2>4. CASE k = 0
      BY <2>2, <2>3, <2>4
    <2>5. CASE k # 0
      <3>1. k - 1 \in D /\ k - 1 < k
        BY <2>2, <2>5, <1>0
      <3>2. at[k - 1] = g[k - 1]
        BY <2>2, <3>1
      <3> HIDE DEF g
      <3> QED
        BY <2>2, <2>3, <2>5, <3>2
    <2> QED
      BY <2>4, <2>5
  <1>7. {j \in D : at[j] # None} = 0 .. n - 1
    <2> HIDE DEF at
    <2>1. \A j \in D : j < n => g[j] # None
      BY <1>1, Basics
    <2>2. \A j \in D : ~ j < n => g[j] = None
      OBVIOUS
    <2>3. 0 .. n - 1 \subseteq D
      BY <1>0
    <2> HIDE DEF g
    <2> QED
      BY <1>0, <1>6, <2>1, <2>2, <2>3
  <1>8. Cardinality({j \in D : at[j] # None}) = n
    <2>1. Cardinality(0 .. n - 1) = n
      BY <1>0, FS_Interval
    <2> HIDE DEF at
    <2> QED
      BY <1>7, <2>1
  <1>9. Chain(w) = [k \in 1 .. Cardinality({j \in D : at[j] # None}) |-> at[k - 1]]
    BY DEF Chain
  <1>10. \A k \in 1 .. n : at[k - 1] = NodeAt(c, n + 1 - k, place, rank)
    <2>1. TAKE k \in 1 .. n
    <2>2. k - 1 \in D /\ k - 1 < n /\ n - (k - 1) = n + 1 - k
      BY <1>0
    <2> HIDE DEF at
    <2> QED
      BY <1>6, <2>2
  <1> HIDE DEF at
  <1> QED
    BY <1>8, <1>9, <1>10 DEF Down

LEMMA DownIs ==
    ASSUME NEW place \in [Nodes -> Places], NEW rank \in [Nodes -> Nat], NEW len \in [Classes -> Nat],
           Ranked(place, rank, len), NEW c \in Classes
    PROVE /\ NodesOf(Down(c, len[c], place, rank)) = {i \in Nodes : place[i] = c}
          /\ Len(Down(c, len[c], place, rank)) = len[c]
  <1>1. len[c] \in Nat /\ len[c] \in 0 .. len[c]
    OBVIOUS
  <1>2. NodesOf(Down(c, len[c], place, rank)) = {i \in Nodes : place[i] = c /\ rank[i] <= len[c]}
    BY <1>1, DownNodes
  <1>3. \A i \in Nodes : place[i] = c => rank[i] <= len[c]
    BY <1>1 DEF Ranked
  <1>4. Len(Down(c, len[c], place, rank)) = len[c]
    <2>1. Down(c, len[c], place, rank) \in [1 .. len[c] -> {Down(c, len[c], place, rank)[j] : j \in 1 .. len[c]}]
      <3> HIDE DEF NodeAt
      <3> QED
        BY DEF Down
    <2> HIDE DEF Down
    <2> QED
      BY <1>1, <2>1
  <1> HIDE DEF Down
  <1> QED
    BY <1>2, <1>3, <1>4

\* What the heads name, and the batch that the handler has still to move.
LEMMA ListsAre ==
    ASSUME QueueType,
           NEW place \in [Nodes -> Places], NEW rank \in [Nodes -> Nat], NEW len \in [Classes -> Nat],
           NEW uses \in [Nodes -> 0 .. Flags - 1],
           LinkedAs(place, rank, len, uses)
    PROVE /\ Chain(freeHead) = Down("free", len["free"], place, rank)
          /\ Chain(requestHead) = Down("requested", len["requested"], place, rank)
          /\ Remaining = Down("taken", len["taken"], place, rank)
  <1>0. Ranked(place, rank, len) /\ HeadsPoint(place, rank, len, uses) /\ NodesPoint(place, rank, uses)
    BY DEF LinkedAs
  <1>1. \A c \in Classes : Chain(HeadOf(c)) = Down(c, len[c], place, rank)
    <2>1. TAKE c \in Classes
    <2>2. Points(HeadOf(c), c, len[c], place, rank, uses) /\ len[c] \in 0 .. len[c]
      BY <1>0 DEF HeadsPoint
    <2> QED
      BY <1>0, <2>2, ChainIs
  <1>2. /\ "free" \in Classes /\ "requested" \in Classes /\ "taken" \in Classes
        /\ HeadOf("free") = freeHead /\ HeadOf("requested") = requestHead /\ HeadOf("taken") = BatchHead
    BY DEF Classes, HeadOf
  <1>3. Chain(freeHead) = Down("free", len["free"], place, rank)
    BY <1>1, <1>2
  <1>4. Chain(requestHead) = Down("requested", len["requested"], place, rank)
    BY <1>1, <1>2
  <1>5. Chain(BatchHead) = Down("taken", len["taken"], place, rank)
    BY <1>1, <1>2
  <1>6. CASE qpc[Handler] = "walk" \/ GivingBack
    <2>1. Remaining = Chain(BatchHead)
      BY <1>6 DEF Remaining, BatchHead
    <2> QED
      BY <1>3, <1>4, <1>5, <2>1
  <1>7. CASE ~ (qpc[Handler] = "walk" \/ GivingBack)
    <2>1. BatchHead = NoWord
      BY <1>7 DEF BatchHead
    <2>2. len["taken"] = 0
      <3>1. Points(NoWord, "taken", len["taken"], place, rank, uses)
        BY <1>0, <1>2, <2>1 DEF HeadsPoint
      <3>2. \A j \in Nodes : NoWord # NameOf(j, uses)
        BY Basics DEF NoWord, NameOf
      <3> QED
        BY <3>1, <3>2 DEF Points
    <2>3. Down("taken", len["taken"], place, rank) = <<>>
      <3>1. Down("taken", 0, place, rank) = [j \in 1 .. 0 |-> NodeAt("taken", 0 + 1 - j, place, rank)]
        BY DEF Down
      <3>2. 1 .. 0 = {}
        OBVIOUS
      <3> HIDE DEF NodeAt
      <3> QED
        BY <2>2, <3>1, <3>2
    <2>4. Remaining = <<>>
      BY <1>7 DEF Remaining
    <2> QED
      BY <1>3, <1>4, <2>3, <2>4
  <1> QED
    BY <1>6, <1>7

\* As many nodes are held as threads hold one.
LEMMA HeldCount ==
    ASSUME NEW place \in [Nodes -> Places], NEW uses \in [Nodes -> 0 .. Flags - 1],
           HeldByOne(place, uses)
    PROVE /\ {own[t].index : t \in Holders} = {i \in Nodes : place[i] = "held"}
          /\ IsFiniteSet({i \in Nodes : place[i] = "held"})
          /\ Cardinality({i \in Nodes : place[i] = "held"}) = Cardinality(Holders)
          /\ Cardinality(Holders) \in Nat
  <1> DEFINE S == {i \in Nodes : place[i] = "held"}
             f == [t \in Holders |-> own[t].index]
  <1>1. \A t \in Holders : f[t] \in S
    <2>1. TAKE t \in Holders
    <2>2. PICK i \in Nodes : place[i] = "held" /\ own[t] = NameOf(i, uses)
      BY DEF HeldByOne
    <2> QED
      BY <2>2 DEF NameOf
  <1>2. \A t, u \in Holders : f[t] = f[u] => t = u
    BY DEF HeldByOne
  <1>3. \A i \in S : \E t \in Holders : f[t] = i
    BY DEF HeldByOne
  <1>4. IsFiniteSet(Holders)
    <2>1. IsFiniteSet(Producers \cup {Handler})
      BY QueueAssumption, FS_AddElement
    <2>2. Holders \subseteq Producers \cup {Handler}
      BY DEF Holders
    <2> QED
      BY <2>1, <2>2, FS_Subset
  <1>5. f \in Bijection(Holders, S)
    <2>1. f \in [Holders -> S]
      BY <1>1
    <2> HIDE DEF f, S
    <2> QED
      BY <2>1, <1>2, <1>3, Fun_IsBij
  <1>6. IsFiniteSet(S) /\ Cardinality(S) = Cardinality(Holders)
    <2> HIDE DEF f, S
    <2>1. ExistsBijection(Holders, S)
      BY <1>5 DEF ExistsBijection
    <2> QED
      BY <1>4, <2>1, FS_Bijection
  <1>7. Cardinality(Holders) \in Nat
    BY <1>4, FS_CardinalityType
  <1>8. {own[t].index : t \in Holders} = S
    BY <1>1, <1>3
  <1> QED
    BY <1>6, <1>7, <1>8

\* The lists and the hands have every node, each once.
LEMMA LinkedHasAll == QueueType /\ Linked => EveryNodeOnce
  <1> SUFFICES ASSUME QueueType, Linked PROVE EveryNodeOnce
    OBVIOUS
  <1>1. PICK place \in [Nodes -> Places], rank \in [Nodes -> Nat], len \in [Classes -> Nat],
             uses \in [Nodes -> 0 .. Flags - 1] : LinkedAs(place, rank, len, uses)
    BY DEF Linked
  <1> DEFINE In(c) == {i \in Nodes : place[i] = c}
  <1>2. Ranked(place, rank, len) /\ HeldByOne(place, uses)
    BY <1>1 DEF LinkedAs
  <1>3. \A c \in Classes : /\ IsFiniteSet(In(c)) /\ Cardinality(In(c)) = len[c] /\ len[c] \in Nat
                           /\ NodesOf(Down(c, len[c], place, rank)) = In(c)
                           /\ Len(Down(c, len[c], place, rank)) = len[c]
    <2>1. TAKE c \in Classes
    <2>2. IsFiniteSet(In(c)) /\ Cardinality(In(c)) = len[c]
      BY <1>2, ListCount
    <2>3. NodesOf(Down(c, len[c], place, rank)) = In(c) /\ Len(Down(c, len[c], place, rank)) = len[c]
      BY <1>2, DownIs
    <2> QED
      BY <2>2, <2>3
  <1>4. /\ "free" \in Classes /\ "requested" \in Classes /\ "taken" \in Classes
        /\ \A i \in Nodes : place[i] \in {"free", "requested", "taken", "held"}
    BY DEF Classes, Places
  <1>5. /\ {own[t].index : t \in Holders} = In("held") /\ IsFiniteSet(In("held"))
        /\ Cardinality(In("held")) = Cardinality(Holders) /\ Cardinality(Holders) \in Nat
    BY <1>2, HeldCount
  <1>6. In("free") \cup In("requested") \cup In("taken") \cup In("held") = Nodes
    BY <1>4
  <1>7. Cardinality(In("free")) + Cardinality(In("requested")) + Cardinality(In("taken"))
          + Cardinality(In("held")) = Cardinality(Nodes)
    <2>1. /\ In("free") \cap In("requested") = {}
          /\ (In("free") \cup In("requested")) \cap In("taken") = {}
          /\ (In("free") \cup In("requested") \cup In("taken")) \cap In("held") = {}
      OBVIOUS
    <2> HIDE DEF In
    <2>0. /\ IsFiniteSet(In("free")) /\ Cardinality(In("free")) = len["free"]
          /\ IsFiniteSet(In("requested")) /\ Cardinality(In("requested")) = len["requested"]
          /\ IsFiniteSet(In("taken")) /\ Cardinality(In("taken")) = len["taken"]
          /\ len["free"] \in Nat /\ len["requested"] \in Nat /\ len["taken"] \in Nat
      BY <1>3, <1>4
    <2>2. /\ IsFiniteSet(In("free") \cup In("requested"))
          /\ Cardinality(In("free") \cup In("requested")) = len["free"] + len["requested"] - Cardinality({})
      BY <2>0, <2>1, FS_Union
    <2>3. /\ IsFiniteSet(In("free") \cup In("requested") \cup In("taken"))
          /\ Cardinality(In("free") \cup In("requested") \cup In("taken"))
               = Cardinality(In("free") \cup In("requested")) + len["taken"] - Cardinality({})
      <3>1. /\ IsFiniteSet(In("free") \cup In("requested")) /\ IsFiniteSet(In("taken"))
            /\ (In("free") \cup In("requested")) \cap In("taken") = {}
            /\ Cardinality(In("taken")) = len["taken"]
        BY <2>0, <2>1, <2>2, Zenon
      <3> QED
        BY <3>1, FS_Union
    <2>4. Cardinality(In("free") \cup In("requested") \cup In("taken") \cup In("held"))
             = Cardinality(In("free") \cup In("requested") \cup In("taken")) + Cardinality(In("held")) - Cardinality({})
      BY <1>5, <2>1, <2>3, FS_Union
    <2>5. Cardinality({}) = 0
      BY FS_EmptySet
    <2>6. Cardinality(Nodes) = len["free"] + len["requested"] + len["taken"] + Cardinality(In("held"))
      <3>1. Cardinality(In("held")) \in Nat
        BY <1>5
      <3>2. Cardinality(In("free") \cup In("requested")) = len["free"] + len["requested"]
        BY <2>0, <2>2, <2>5
      <3>3. Cardinality(In("free") \cup In("requested") \cup In("taken"))
              = len["free"] + len["requested"] + len["taken"]
        BY <2>0, <2>3, <2>5, <3>2
      <3>4. Cardinality(In("free") \cup In("requested") \cup In("taken") \cup In("held"))
              = len["free"] + len["requested"] + len["taken"] + Cardinality(In("held"))
        BY <2>0, <2>4, <2>5, <3>1, <3>3
      <3> QED
        BY <1>6, <3>4
    <2> QED
      BY <2>0, <2>6
  <1>8. Cardinality(Nodes) = Size
    <2>1. 0 \in Int /\ Size - 1 \in Int /\ Size - 1 >= 0
      BY Basics
    <2>2. Cardinality(0 .. Size - 1) = Size - 1 - 0 + 1
      BY <2>1, FS_Interval
    <2> QED
      BY <2>2, Basics DEF Nodes
  <1>9. /\ Chain(freeHead) = Down("free", len["free"], place, rank)
        /\ Chain(requestHead) = Down("requested", len["requested"], place, rank)
        /\ Remaining = Down("taken", len["taken"], place, rank)
    BY <1>1, ListsAre
  <1>10. /\ NodesOf(Chain(freeHead)) = In("free") /\ Len(Chain(freeHead)) = len["free"]
         /\ NodesOf(Chain(requestHead)) = In("requested") /\ Len(Chain(requestHead)) = len["requested"]
         /\ NodesOf(Remaining) = In("taken") /\ Len(Remaining) = len["taken"]
    BY <1>3, <1>4, <1>9
  <1>11. Len(Chain(freeHead)) + Len(Chain(requestHead)) + Len(Remaining) + Cardinality(Holders) = Size
    <2> HIDE DEF In
    <2> QED
      BY <1>3, <1>4, <1>5, <1>7, <1>8, <1>10
  <1>12. NodesOf(Chain(freeHead)) \cup NodesOf(Chain(requestHead)) \cup NodesOf(Remaining)
            \cup {own[t].index : t \in Holders} = Nodes
    <2> HIDE DEF In
    <2> QED
      BY <1>5, <1>6, <1>10
  <1> HIDE DEF In
  <1> QED
    BY <1>11, <1>12 DEF EveryNodeOnce

-----------------------------------------------------------------------------
(* How often the flags are incremented.                                     *)

\* The calls of PushRequest, and those of them that have taken a node or have
\* found none.
Calls == UNION {{p} \X (1 .. MaxPush[p]) : p \in Producers}

Started ==
    {c \in Calls : \/ c[2] < pushed[c[1]]
                   \/ c[2] = pushed[c[1]] /\ qpc[c[1]] \notin {"get", "getnext", "getcas"}}

Low(n) == {w \in Word : w.flag <= n}

FlagsUpTo(n) ==
    /\ freeHead \in Low(n) /\ requestHead \in Low(n)
    /\ next \in [Nodes -> Low(n)]
    /\ seen \in [Threads -> Low(n)] /\ link \in [Threads -> Low(n)]
    /\ own \in [Threads -> Low(n)]

CallsFit ==
    \A p \in Producers :
        /\ pushed[p] <= MaxPush[p]
        /\ qpc[p] \in {"get", "getnext", "getcas"} => pushed[p] > 0

\* No flag is greater than the number of calls that have taken a node.
FlagsFit == CallsFit /\ FlagsUpTo(Cardinality(Started)) /\ NoFlagWraps

\* There are fewer calls of PushRequest than flags, 2^32 in the code.
EnoughFlags == Cardinality(Calls) < Flags

LEMMA CallsFinite ==
    /\ IsFiniteSet(Calls) /\ Cardinality(Calls) \in Nat
    /\ \A c : c \in Calls <=> \E p \in Producers : \E n \in 1 .. MaxPush[p] : c = <<p, n>>
  <1>1. \A p \in Producers : IsFiniteSet({p} \X (1 .. MaxPush[p]))
    <2>1. TAKE p \in Producers
    <2>2. MaxPush[p] \in Nat
      BY QueueAssumption DEF QueueAssumption
    <2>3. IsFiniteSet(1 .. MaxPush[p])
      BY <2>2, FS_Interval
    <2>4. IsFiniteSet({p})
      BY FS_Singleton
    <2> QED
      BY <2>3, <2>4, FS_Product
  <1>2. IsFiniteSet({{p} \X (1 .. MaxPush[p]) : p \in Producers})
    <2> DEFINE T == {{p} \X (1 .. MaxPush[p]) : p \in Producers}
               f == [p \in Producers |-> {p} \X (1 .. MaxPush[p])]
    <2>1. f \in Surjection(Producers, T)
      <3>1. f \in [Producers -> T] /\ \A y \in T : \E p \in Producers : f[p] = y
        OBVIOUS
      <3> HIDE DEF f, T
      <3> QED
        BY <3>1, Fun_IsSurj
    <2> HIDE DEF f, T
    <2>2. IsFiniteSet(Producers)
      BY QueueAssumption DEF QueueAssumption
    <2>3. IsFiniteSet(T)
      BY <2>1, <2>2, FS_Surjection
    <2> QED
      BY <2>3 DEF T
  <1>3. IsFiniteSet(Calls)
    BY <1>1, <1>2, FS_UNION DEF Calls
  <1>4. Cardinality(Calls) \in Nat
    BY <1>3, FS_CardinalityType
  <1>5. \A c : c \in Calls <=> \E p \in Producers : \E n \in 1 .. MaxPush[p] : c = <<p, n>>
    BY DEF Calls
  <1> QED
    BY <1>3, <1>4, <1>5

LEMMA CallsCount ==
    ASSUME NEW S \in SUBSET Calls
    PROVE IsFiniteSet(S) /\ Cardinality(S) \in Nat /\ Cardinality(S) <= Cardinality(Calls)
  <1>1. IsFiniteSet(S) /\ Cardinality(S) <= Cardinality(Calls)
    BY CallsFinite, FS_Subset
  <1> QED
    BY <1>1, FS_CardinalityType

\* More can only have started, ...
LEMMA StartedGrows ==
    ASSUME QueueType, CallsFit, [Next]_vars
    PROVE CallsFit' /\ Started \subseteq Started'
  <1>0. \A p \in Producers : p \in Threads /\ p # Handler /\ pushed[p] \in Nat /\ MaxPush[p] \in Nat
    BY Basics, QueueAssumption DEF QueueType, QueueAssumption
  <1>1. ASSUME NEW p \in Producers, Push(p)
        PROVE CallsFit' /\ Started \subseteq Started'
    <2>1. /\ pushed'[p] = pushed[p] + 1 /\ pushed[p] < MaxPush[p] /\ qpc[p] = "idle" /\ qpc'[p] = "get"
          /\ \A q \in Producers \ {p} : pushed'[q] = pushed[q] /\ qpc'[q] = qpc[q]
      BY <1>0, <1>1 DEF Push, Goto, Put, QueueType
    <2>2. CallsFit'
      BY <1>0, <2>1 DEF CallsFit
    <2>3. ASSUME NEW c \in Started PROVE c \in Started'
      <3>1. PICK u \in Producers : \E n \in 1 .. MaxPush[u] : c = <<u, n>>
        BY CallsFinite DEF Started
      <3>2. PICK n \in 1 .. MaxPush[u] : c = <<u, n>>
        BY <3>1
      <3>3. n < pushed'[u] \/ (n = pushed'[u] /\ qpc'[u] \notin {"get", "getnext", "getcas"})
        BY <1>0, <2>1, <3>2 DEF Started
      <3> QED
        BY <3>2, <3>3 DEF Started
    <2> QED
      BY <2>2, <2>3
  <1>2. ASSUME pushed' = pushed,
               \A q \in Producers : qpc'[q] \in {"get", "getnext", "getcas"}
                                      => qpc[q] \in {"get", "getnext", "getcas"}
        PROVE CallsFit' /\ Started \subseteq Started'
    <2>1. CallsFit'
      BY <1>2 DEF CallsFit
    <2>2. ASSUME NEW c \in Started PROVE c \in Started'
      <3>1. PICK u \in Producers : \E n \in 1 .. MaxPush[u] : c = <<u, n>>
        BY CallsFinite DEF Started
      <3>2. PICK n \in 1 .. MaxPush[u] : c = <<u, n>>
        BY <3>1
      <3>3. n < pushed'[u] \/ (n = pushed'[u] /\ qpc'[u] \notin {"get", "getnext", "getcas"})
        BY <1>2, <3>2 DEF Started
      <3> QED
        BY <3>2, <3>3 DEF Started
    <2> QED
      BY <2>1, <2>2
  <1>3. CASE OnlyMoves
    <2>1. pushed' = pushed
      BY <1>3 DEF OnlyMoves, counts
    <2>2. \A q \in Producers : qpc'[q] = qpc[q] \/ qpc'[q] = "idle"
      BY <1>0, <1>3 DEF OnlyMoves
    <2> QED
      BY <1>2, <2>1, <2>2
  <1>4. CASE Handling
    <2>1. pushed' = pushed
      BY <1>4 DEF Handling, HandleLoad, HandleCas, HandleAgain, Walk, PutLoad, PutLink, PutAgain,
                  GiveBack, Run, RunEnd, counts
    <2>2. \A q \in Producers : qpc'[q] = qpc[q]
      BY <1>0, <1>4 DEF Handling, HandleLoad, HandleCas, HandleAgain, Walk, PutLoad, PutLink, PutAgain,
                  GiveBack, Run, RunEnd, Goto, QueueType
    <2> QED
      BY <1>2, <2>1, <2>2
  <1>5. ASSUME NEW p \in Producers, Producer(p)
        PROVE CallsFit' /\ Started \subseteq Started'
    <2>1. pushed' = pushed
      BY <1>5 DEF Producer, Full, GetLoad, GetNext, GetCas, GetAgain, PutLoad, PutLink, PutAgain,
                  PutRequest, counts
    <2>2. \A q \in Producers \ {p} : qpc'[q] = qpc[q]
      BY <1>0, <1>5 DEF Producer, Full, GetLoad, GetNext, GetCas, GetAgain, PutLoad, PutLink, PutAgain,
                  PutRequest, Goto, QueueType
    <2>3. qpc'[p] \in {"get", "getnext", "getcas"} => qpc[p] \in {"get", "getnext", "getcas"}
      BY <1>0, <1>5 DEF Producer, Full, GetLoad, GetNext, GetCas, GetAgain, PutLoad, PutLink, PutAgain,
                  PutRequest, Goto, QueueType
    <2> QED
      BY <1>2, <2>1, <2>2, <2>3
  <1> QED
    BY <1>1, <1>3, <1>4, <1>5, StepOnQueue

\* ... and the flag that a producer makes is one more than one that was there.
LEMMA FlagsStep ==
    ASSUME QueueType, NEW n \in Nat, FlagsUpTo(n), [Next]_vars, \A p \in Producers : ~GetCas(p)
    PROVE FlagsUpTo(n)'
  <1>0. /\ Handler \in Threads /\ Producers \subseteq Threads
        /\ NoWord \in Low(n)
        /\ \A w \in Low(n) : w \in Word
    BY Basics DEF Low, NoWord
  <1>1. CASE UNCHANGED <<freeHead, requestHead, next, regs>>
    BY <1>1 DEF FlagsUpTo, regs
  <1>2. ASSUME NEW t \in Threads, PutLoad(t) \/ PutLink(t) \/ PutAgain(t)
        PROVE FlagsUpTo(n)'
    <2>1. Target(t) \in Low(n) /\ seen[t] \in Low(n)
      BY DEF Target, FlagsUpTo
    <2> QED
      BY <1>0, <1>2, <2>1 DEF PutLoad, PutLink, PutAgain, lists, regs, Put, FlagsUpTo
  <1>3. ASSUME NEW p \in Producers, Push(p) \/ Producer(p)
        PROVE FlagsUpTo(n)'
    <2>1. CASE Push(p) \/ Full(p)
      BY <1>1, <2>1 DEF Push, Full, lists
    <2>2. CASE GetLoad(p) \/ GetAgain(p)
      BY <1>0, <2>2 DEF GetLoad, GetAgain, lists, Put, FlagsUpTo
    <2>3. CASE GetNext(p)
      <3>1. seen[p].index \in Nodes
        BY <1>0, <2>3, WordType DEF GetNext, QueueType
      <3> QED
        BY <1>0, <2>3, <3>1 DEF GetNext, lists, Put, FlagsUpTo
    <2>4. CASE PutRequest(p)
      BY <1>0, <2>4 DEF PutRequest, Clear, Put, FlagsUpTo
    <2> QED
      BY <1>0, <1>2, <1>3, <2>1, <2>2, <2>3, <2>4 DEF Producer
  <1>4. CASE Handling
    <2>1. CASE HandleLoad \/ HandleAgain
      BY <1>0, <2>1 DEF HandleLoad, HandleAgain, lists, Put, FlagsUpTo
    <2>2. CASE HandleCas
      <3>1. seen[Handler] \in Low(n)
        BY <1>0 DEF FlagsUpTo
      <3>2. [seen[Handler] EXCEPT !.index = None] \in Low(n)
        BY <3>1, WordType DEF Low, Word
      <3> QED
        BY <1>0, <2>2, <3>1, <3>2 DEF HandleCas, Put, FlagsUpTo
    <2>3. CASE Walk
      <3>1. own[Handler].index \in Nodes
        BY <1>0, <2>3, WordType DEF Walk, QueueType
      <3> QED
        BY <1>0, <2>3, <3>1 DEF Walk, Put, FlagsUpTo
    <2>4. CASE GiveBack
      BY <1>0, <2>4 DEF GiveBack, Put, FlagsUpTo
    <2>5. CASE RunEnd
      BY <1>0, <2>5 DEF RunEnd, lists, Clear, Put, FlagsUpTo
    <2>6. CASE Run
      BY <1>1, <2>6 DEF Run
    <2> QED
      BY <1>0, <1>2, <1>4, <2>1, <2>2, <2>3, <2>4, <2>5, <2>6 DEF Handling
  <1>5. CASE OnlyMoves
    BY <1>1, <1>5 DEF OnlyMoves, lists
  <1> QED
    BY <1>3, <1>4, <1>5, StepOnQueue

LEMMA FlagsKept ==
    ASSUME QueueType, NoFlagWraps, [Next]_vars, \A p \in Producers : ~GetCas(p)
    PROVE NoFlagWraps'
  <1>0. Producers \subseteq Threads \ {Handler}
    BY Basics
  <1>1. ASSUME \A q \in Producers : qpc'[q] \in Handled => qpc[q] \in Handled /\ own'[q] = own[q]
        PROVE NoFlagWraps'
    BY <1>1 DEF NoFlagWraps
  <1>2. CASE OnlyMoves
    BY <1>0, <1>1, <1>2 DEF OnlyMoves, regs, Handled
  <1>3. CASE Handling
    BY <1>0, <1>1, <1>3 DEF Handling, HandleLoad, HandleCas, HandleAgain, Walk, PutLoad, PutLink, PutAgain,
                  GiveBack, Run, RunEnd, Goto, Put, Clear, QueueType, regs
  <1>4. ASSUME NEW p \in Producers, Push(p) \/ Producer(p)
        PROVE NoFlagWraps'
    <2>1. \A q \in Producers \ {p} : qpc'[q] = qpc[q] /\ own'[q] = own[q]
      BY <1>0, <1>4 DEF Push, Producer, Full, GetLoad, GetNext, GetAgain, PutLoad, PutLink, PutAgain,
                  PutRequest, Goto, Put, Clear, QueueType, regs
    <2>2. qpc'[p] \in Handled => qpc[p] \in Handled /\ own'[p] = own[p]
      BY <1>0, <1>4 DEF Push, Producer, Full, GetLoad, GetNext, GetAgain, PutLoad, PutLink, PutAgain,
                  PutRequest, Goto, QueueType, regs, Handled
    <2> QED
      BY <1>1, <2>1, <2>2
  <1> QED
    BY <1>2, <1>3, <1>4, StepOnQueue

LEMMA FlagsFitStep ==
    ASSUME QueueType, FlagsFit, [Next]_vars, EnoughFlags
    PROVE FlagsFit'
  <1>0. CallsFit' /\ Started \subseteq Started' /\ CallsFit /\ NoFlagWraps
    BY StartedGrows DEF FlagsFit
  <1>1. Started \in SUBSET Calls /\ Started' \in SUBSET Calls
    BY DEF Started
  <1>2. PICK n \in Nat : n = Cardinality(Started)
    BY <1>1, CallsCount
  <1>3. PICK m \in Nat : m = Cardinality(Started')
    BY <1>1, CallsCount
  <1>4. /\ IsFiniteSet(Started) /\ IsFiniteSet(Started')
        /\ n <= m /\ m < Flags /\ Flags \in Nat
    <2>1. IsFiniteSet(Started) /\ IsFiniteSet(Started') /\ m <= Cardinality(Calls) /\ Cardinality(Calls) \in Nat
      BY <1>1, <1>3, CallsCount, CallsFinite
    <2>2. n <= m
      BY <1>0, <1>2, <1>3, <2>1, FS_Subset
    <2> QED
      BY <2>1, <2>2, Basics DEF EnoughFlags
  <1>5. FlagsUpTo(n) /\ Low(n) \subseteq Low(m)
    BY <1>2, <1>4, Basics DEF FlagsFit, Low, Word
  <1>6. FlagsUpTo(m)' => FlagsUpTo(Cardinality(Started))'
    BY <1>3 DEF FlagsUpTo
  <1>7. CASE \A p \in Producers : ~GetCas(p)
    <2>1. FlagsUpTo(n)'
      BY <1>5, <1>7, FlagsStep
    <2>2. FlagsUpTo(m)'
      BY <1>5, <2>1 DEF FlagsUpTo
    <2>3. NoFlagWraps'
      BY <1>0, <1>7, FlagsKept
    <2> QED
      BY <1>0, <1>6, <2>2, <2>3 DEF FlagsFit
  <1>8. ASSUME NEW p \in Producers, GetCas(p)
        PROVE FlagsFit'
    <2>0. /\ p \in Threads /\ Producers \subseteq Threads /\ pushed[p] \in Nat
          /\ MaxPush[p] \in Nat /\ NoWord \in Low(n)
      BY Basics, QueueAssumption DEF QueueType, QueueAssumption, Low, NoWord
    <2>1. /\ qpc[p] = "getcas" /\ qpc'[p] = "putload" /\ pushed' = pushed
          /\ \A q \in Producers \ {p} : qpc'[q] = qpc[q] /\ own'[q] = own[q]
          /\ own'[p] = IncRequsetIndex(seen[p])
      BY <1>8, <2>0 DEF GetCas, Goto, Put, counts, QueueType
    <2>2. <<p, pushed[p]>> \in Started' /\ <<p, pushed[p]>> \notin Started
      <3>1. pushed[p] \in 1 .. MaxPush[p]
        BY <1>0, <2>0, <2>1 DEF CallsFit
      <3>2. <<p, pushed[p]>> \in Calls
        BY <3>1, CallsFinite
      <3> QED
        BY <2>0, <2>1, <3>2 DEF Started
    <2>3. n + 1 <= m
      <3>1. Cardinality(Started \cup {<<p, pushed[p]>>}) = n + 1
        BY <1>2, <1>4, <2>2, FS_AddElement
      <3>2. Started \cup {<<p, pushed[p]>>} \in SUBSET Started'
        BY <1>0, <2>2
      <3> QED
        BY <1>3, <1>4, <3>1, <3>2, FS_Subset
    <2>4. /\ own'[p] \in Low(m) /\ own'[p].flag # 0
      <3>1. seen[p] \in Word /\ seen[p].flag \in Nat /\ seen[p].flag <= n
        BY <1>5, <2>0, Basics DEF FlagsUpTo, Low, Word
      <3>2. (seen[p].flag + 1) % Flags = seen[p].flag + 1
        <4>1. seen[p].flag + 1 \in 0 .. Flags - 1
          BY <1>4, <2>3, <3>1
        <4> QED
          BY <1>4, <4>1
      <3>3. own'[p] \in Word /\ own'[p].flag = seen[p].flag + 1
        BY <2>1, <3>1, <3>2, WordType
      <3> QED
        BY <1>4, <2>3, <3>1, <3>3 DEF Low
    <2>5. FlagsUpTo(m)'
      BY <1>5, <1>8, <2>0, <2>4 DEF FlagsUpTo, GetCas, Put
    <2>6. NoFlagWraps'
      BY <1>0, <2>1, <2>4 DEF NoFlagWraps
    <2> QED
      BY <1>0, <1>6, <2>5, <2>6 DEF FlagsFit
  <1> QED
    BY <1>7, <1>8

LEMMA FlagsFitInit == Init => FlagsFit
  <1> SUFFICES ASSUME QueueInit PROVE FlagsFit
    BY DEF Init
  <1>1. CallsFit /\ NoFlagWraps
    BY Basics, QueueAssumption DEF QueueInit, CallsFit, NoFlagWraps, Handled, QueueAssumption
  <1>2. PICK n \in Nat : n = Cardinality(Started)
    <2>1. Started \in SUBSET Calls
      BY DEF Started
    <2> QED
      BY <2>1, CallsCount
  <1>3. NoWord \in Low(n) /\ freeHead \in Low(n) /\ \A i \in Nodes : next[i] \in Low(n)
    <2>1. \A i \in 0 .. Size : [flag |-> 0, index |-> i] \in Low(n)
      BY Basics DEF Low, Word
    <2>2. \A i \in Nodes : i + 1 \in 0 .. Size
      BY Basics DEF Nodes
    <2> QED
      BY <2>1, <2>2, Basics DEF QueueInit, NoWord, None
  <1>4. FlagsUpTo(n)
    BY <1>3 DEF FlagsUpTo, QueueInit
  <1> QED
    BY <1>1, <1>2, <1>4 DEF FlagsFit

LEMMA FlagsNeverWrap == ASSUME EnoughFlags PROVE Spec => []NoFlagWraps
  <1>1. Init => QueueType /\ FlagsFit
    BY TypeInit, FlagsFitInit
  <1>2. QueueType /\ FlagsFit /\ [Next]_vars => (QueueType /\ FlagsFit)'
    BY TypeStep, FlagsFitStep
  <1>3. FlagsFit => NoFlagWraps
    BY DEF FlagsFit
  <1> QED
    BY <1>1, <1>2, <1>3, PTL DEF Spec

\* No node of the request queue is ever lost, and none is in two places, as
\* long as no node's flag comes back to 0: whatever the threads that push and
\* the one that handles do to the two lists, and in whatever order, every node
\* is free, requested, taken with the batch, or in the hands of one thread.
THEOREM EveryNodeOnceUntilWrap == Spec /\ []NoFlagWraps => []EveryNodeOnce
  <1> DEFINE Inv == QueueType /\ Linked
  <1>1. Init => Inv
    BY TypeInit, InitLinked
  <1>2. Inv /\ [Next]_vars /\ NoFlagWraps' => Inv'
    BY TypeStep, LinkedStep
  <1>3. Inv => EveryNodeOnce
    BY LinkedHasAll
  <1> HIDE DEF Inv
  <1> QED
    BY <1>1, <1>2, <1>3, PTL DEF Spec

\* The same of any use of the queue with fewer requests than flags: then no
\* flag comes back to 0.
THEOREM NodesNeverLost == ASSUME EnoughFlags PROVE Spec => []EveryNodeOnce
  BY FlagsNeverWrap, EveryNodeOnceUntilWrap, PTL

-----------------------------------------------------------------------------
(* The lists as sequences, last to first.                                   *)

Up(c, place, rank, len) == [k \in 1 .. len[c] |-> NodeAt(c, k, place, rank)]

\* The sequence s has the n nodes of the list c, in the order of their ranks.
ListsAll(s, c, place, rank, n) ==
    /\ n \in Nat /\ s \in Seq(Nodes) /\ s \in [1 .. n -> Nodes] /\ Len(s) = n
    /\ \A k \in 1 .. n : place[s[k]] = c /\ rank[s[k]] = k
    /\ \A i \in Nodes : place[i] = c => rank[i] \in 1 .. n /\ s[rank[i]] = i

LEMMA UpIs ==
    ASSUME NEW place \in [Nodes -> Places], NEW rank \in [Nodes -> Nat], NEW len \in [Classes -> Nat],
           Ranked(place, rank, len), NEW c \in Classes
    PROVE ListsAll(Up(c, place, rank, len), c, place, rank, len[c])
  <1>1. \A k \in 1 .. len[c] : /\ Up(c, place, rank, len)[k] = NodeAt(c, k, place, rank)
                               /\ NodeAt(c, k, place, rank) \in Nodes
                               /\ place[NodeAt(c, k, place, rank)] = c /\ rank[NodeAt(c, k, place, rank)] = k
    <2>1. TAKE k \in 1 .. len[c]
    <2> QED
      BY NodeAtIs DEF Up
  <1>2. Up(c, place, rank, len) \in [1 .. len[c] -> Nodes]
    BY <1>1 DEF Up
  <1>3. \A i \in Nodes : place[i] = c =>
                rank[i] \in 1 .. len[c] /\ Up(c, place, rank, len)[rank[i]] = i
    <2>1. SUFFICES ASSUME NEW i \in Nodes, place[i] = c
                   PROVE rank[i] \in 1 .. len[c] /\ Up(c, place, rank, len)[rank[i]] = i
      OBVIOUS
    <2>2. rank[i] \in 1 .. len[c]
      BY <2>1 DEF Ranked
    <2>3. i = NodeAt(c, rank[i], place, rank)
      BY <2>1, <2>2, NodeAtIs
    <2> QED
      BY <1>1, <2>2, <2>3
  <1>4. len[c] \in Nat
    OBVIOUS
  <1> HIDE DEF Up, NodeAt
  <1>5. Up(c, place, rank, len) \in Seq(Nodes) /\ Len(Up(c, place, rank, len)) = len[c]
    BY <1>2, <1>4
  <1> QED
    BY <1>1, <1>2, <1>3, <1>4, <1>5 DEF ListsAll

\* The same nodes in the same order make the same sequence.
LEMMA UpSame ==
    ASSUME NEW place \in [Nodes -> Places], NEW rank \in [Nodes -> Nat], NEW len \in [Classes -> Nat],
           NEW P \in [Nodes -> Places], NEW R \in [Nodes -> Nat], NEW L \in [Classes -> Nat],
           Ranked(place, rank, len), Ranked(P, R, L), NEW c \in Classes, NEW d \in Classes,
           len[c] = L[d], \A i \in Nodes : place[i] = c => P[i] = d /\ R[i] = rank[i]
    PROVE Up(d, P, R, L) = Up(c, place, rank, len)
  <1> DEFINE s == Up(c, place, rank, len)
             t == Up(d, P, R, L)
  <1>1. ListsAll(s, c, place, rank, len[c])
    BY UpIs
  <1>2. ListsAll(t, d, P, R, L[d])
    BY UpIs
  <1> HIDE DEF s, t
  <1>3. \A k \in 1 .. len[c] : t[k] = s[k]
    BY <1>1, <1>2 DEF ListsAll
  <1>4. t = s
    BY <1>1, <1>2, <1>3 DEF ListsAll
  <1> QED
    BY <1>4 DEF s, t

PoppedUps(place, rank, len, c, me, P, L) ==
    /\ \A d \in Classes \ {c} : Up(d, P, rank, L) = Up(d, place, rank, len)
    /\ Up(c, place, rank, len) = Append(Up(c, P, rank, L), me)
    /\ \A d \in Classes : \A k \in 1 .. L[d] : Up(d, P, rank, L)[k] # me

LEMMA PopUps ==
    ASSUME NEW place, NEW rank, NEW len, NEW uses, NEW c, NEW me, NEW P, NEW L, NEW U,
           Popped(place, rank, len, uses, c, me, P, L, U)
    PROVE PoppedUps(place, rank, len, c, me, P, L)
  <1>0. /\ place \in [Nodes -> Places] /\ rank \in [Nodes -> Nat] /\ len \in [Classes -> Nat]
        /\ Ranked(place, rank, len) /\ c \in Classes
        /\ P \in [Nodes -> Places] /\ L \in [Classes -> Nat] /\ Ranked(P, rank, L)
        /\ len[c] \in Nat \ {0} /\ L[c] = len[c] - 1 /\ me \in Nodes /\ "held" \notin Classes
        /\ place[me] = c /\ rank[me] = len[c] /\ P[me] = "held"
        /\ \A i \in Nodes \ {me} : P[i] = place[i]
        /\ \A d \in Classes \ {c} : L[d] = len[d]
    BY DEF Popped, Classes
  <1>1. ASSUME NEW d \in Classes \ {c} PROVE Up(d, P, rank, L) = Up(d, place, rank, len)
    <2>1. \A i \in Nodes : place[i] = d => P[i] = d /\ rank[i] = rank[i]
      BY <1>0
    <2>2. d \in Classes /\ len[d] = L[d]
      BY <1>0
    <2> QED
      BY <1>0, <2>1, <2>2, UpSame
  <1> DEFINE s == Up(c, place, rank, len)
             t == Up(c, P, rank, L)
  <1>2. ListsAll(s, c, place, rank, len[c])
    BY <1>0, UpIs
  <1>3. ListsAll(t, c, P, rank, L[c])
    BY <1>0, UpIs
  <1>4. s = Append(t, me)
    <2> HIDE DEF s, t
    <2>1. t \in Seq(Nodes) /\ Len(t) = L[c]
      BY <1>3 DEF ListsAll
    <2>2. Append(t, me) \in Seq(Nodes) /\ Len(Append(t, me)) = len[c]
      BY <1>0, <2>1, AppendProperties
    <2>3. ASSUME NEW k \in 1 .. L[c] PROVE s[k] = t[k]
      <3>1. t[k] \in Nodes /\ P[t[k]] = c /\ rank[t[k]] = k
        BY <1>3 DEF ListsAll
      <3>2. place[t[k]] = c
        BY <1>0, <3>1
      <3> QED
        BY <1>2, <3>1, <3>2 DEF ListsAll
    <2>4. s[len[c]] = me
      BY <1>0, <1>2 DEF ListsAll
    <2>5. \A k \in 1 .. len[c] : s[k] = Append(t, me)[k]
      BY <1>0, <2>1, <2>3, <2>4
    <2>6. s \in Seq(Nodes) /\ Len(s) = len[c]
      BY <1>2 DEF ListsAll
    <2> QED
      BY <2>2, <2>5, <2>6, SeqEqual
  <1>5. ASSUME NEW d \in Classes, NEW k \in 1 .. L[d] PROVE Up(d, P, rank, L)[k] # me
    <2>1. ListsAll(Up(d, P, rank, L), d, P, rank, L[d])
      BY <1>0, UpIs
    <2>2. P[Up(d, P, rank, L)[k]] = d
      BY <2>1 DEF ListsAll
    <2> QED
      BY <1>0, <2>2
  <1> HIDE DEF Up
  <1> QED
    BY <1>1, <1>4, <1>5 DEF PoppedUps

PushedUps(place, rank, len, c, me, P, R, L) ==
    /\ \A d \in Classes \ {c} : Up(d, P, R, L) = Up(d, place, rank, len)
    /\ Up(c, P, R, L) = Append(Up(c, place, rank, len), me)

LEMMA PushUps ==
    ASSUME NEW place, NEW rank, NEW len, NEW c, NEW me, NEW P, NEW R, NEW L,
           Pushed(place, rank, len, c, me, P, R, L)
    PROVE PushedUps(place, rank, len, c, me, P, R, L)
  <1>0. /\ place \in [Nodes -> Places] /\ rank \in [Nodes -> Nat] /\ len \in [Classes -> Nat]
        /\ Ranked(place, rank, len) /\ c \in Classes
        /\ P \in [Nodes -> Places] /\ R \in [Nodes -> Nat] /\ L \in [Classes -> Nat] /\ Ranked(P, R, L)
        /\ len[c] \in Nat /\ L[c] = len[c] + 1 /\ me \in Nodes /\ "held" \notin Classes
        /\ place[me] = "held" /\ R[me] = len[c] + 1 /\ P[me] = c
        /\ \A i \in Nodes \ {me} : P[i] = place[i] /\ R[i] = rank[i]
        /\ \A d \in Classes \ {c} : L[d] = len[d]
    BY DEF Pushed, Classes
  <1>1. ASSUME NEW d \in Classes \ {c} PROVE Up(d, P, R, L) = Up(d, place, rank, len)
    <2>1. \A i \in Nodes : place[i] = d => P[i] = d /\ R[i] = rank[i]
      BY <1>0
    <2>2. d \in Classes /\ len[d] = L[d]
      BY <1>0
    <2> QED
      BY <1>0, <2>1, <2>2, UpSame
  <1> DEFINE s == Up(c, place, rank, len)
             t == Up(c, P, R, L)
  <1>2. ListsAll(s, c, place, rank, len[c])
    BY <1>0, UpIs
  <1>3. ListsAll(t, c, P, R, L[c])
    BY <1>0, UpIs
  <1>4. t = Append(s, me)
    <2> HIDE DEF s, t
    <2>1. s \in Seq(Nodes) /\ Len(s) = len[c]
      BY <1>2 DEF ListsAll
    <2>2. Append(s, me) \in Seq(Nodes) /\ Len(Append(s, me)) = L[c]
      BY <1>0, <2>1, AppendProperties
    <2>3. ASSUME NEW k \in 1 .. len[c] PROVE t[k] = s[k]
      <3>1. s[k] \in Nodes /\ place[s[k]] = c /\ rank[s[k]] = k
        BY <1>2 DEF ListsAll
      <3>2. P[s[k]] = c /\ R[s[k]] = k
        BY <1>0, <3>1
      <3> QED
        BY <1>3, <3>1, <3>2 DEF ListsAll
    <2>4. t[L[c]] = me
      BY <1>0, <1>3 DEF ListsAll
    <2>5. \A k \in 1 .. L[c] : t[k] = Append(s, me)[k]
      BY <1>0, <2>1, <2>3, <2>4
    <2>6. t \in Seq(Nodes) /\ Len(t) = L[c]
      BY <1>3 DEF ListsAll
    <2> QED
      BY <2>2, <2>5, <2>6, SeqEqual
  <1> HIDE DEF Up
  <1> QED
    BY <1>1, <1>4 DEF PushedUps

Listing(place, rank, len) ==
    /\ place \in [Nodes -> Places] /\ rank \in [Nodes -> Nat] /\ len \in [Classes -> Nat]
    /\ Ranked(place, rank, len)

LEMMA TakeAllUps ==
    ASSUME NEW place, NEW rank, NEW len, NEW P, NEW L,
           Listing(place, rank, len), Listing(P, rank, L), TakenAll(place, len, P, L)
    PROVE /\ Up("taken", place, rank, len) = <<>>
          /\ Up("taken", P, rank, L) = Up("requested", place, rank, len)
          /\ Up("requested", P, rank, L) = <<>>
  <1> USE DEF Listing
  <1>0. "taken" \in Classes /\ "requested" \in Classes
    BY DEF Classes
  <1>1. \A d, p, r, l : l[d] = 0 => Up(d, p, r, l) = <<>>
    <2>1. 1 .. 0 = {}
      OBVIOUS
    <2> HIDE DEF NodeAt
    <2> QED
      BY <2>1 DEF Up
  <1>2. Up("taken", P, rank, L) = Up("requested", place, rank, len)
    BY <1>0, UpSame DEF TakenAll
  <1> QED
    BY <1>1, <1>2 DEF TakenAll

\* The requests of the nodes of s, and then those of t, the last one first.
Values(s, q, t) ==
    [k \in 1 .. Len(s) + Len(t) |-> IF k <= Len(s) THEN q[s[k]] ELSE t[Len(s) + Len(t) + 1 - k]]

\* s lists n nodes, and d the same ones from the other end.
Mirrored(d, s, n) ==
    /\ n \in Nat /\ Len(s) = n
    /\ Len(Requests(d)) = n /\ Requests(d) \in Seq(Item)
    /\ \A j \in 1 .. n : Requests(d)[j] = request[s[n + 1 - j]]

LEMMA DownBackwards ==
    ASSUME QueueType, NEW place, NEW rank, NEW len, Listing(place, rank, len), NEW c \in Classes
    PROVE Mirrored(Down(c, len[c], place, rank), Up(c, place, rank, len), len[c])
  <1> USE DEF Listing
  <1> DEFINE d == Down(c, len[c], place, rank)
             s == Up(c, place, rank, len)
  <1>1. ListsAll(s, c, place, rank, len[c])
    BY UpIs
  <1>2. len[c] \in Nat /\ Len(s) = len[c] /\ s \in [1 .. len[c] -> Nodes]
    BY <1>1 DEF ListsAll
  <1>3. Len(d) = len[c]
    BY DownIs
  <1>4. ASSUME NEW j \in 1 .. len[c] PROVE len[c] + 1 - j \in 1 .. len[c] /\ d[j] = s[len[c] + 1 - j]
    <2>1. len[c] + 1 - j \in 1 .. len[c]
      BY <1>2
    <2> HIDE DEF NodeAt
    <2> QED
      BY <2>1 DEF Down, Up
  <1> HIDE DEF d, s
  <1>5. Requests(d) = [j \in 1 .. len[c] |-> request[d[j]]]
    BY <1>3 DEF Requests
  <1>6. \A j \in 1 .. len[c] : /\ Requests(d)[j] = request[s[len[c] + 1 - j]]
                               /\ request[s[len[c] + 1 - j]] \in Item
    BY <1>2, <1>4, <1>5 DEF QueueType
  <1>7. Requests(d) \in [1 .. len[c] -> Item]
    BY <1>5, <1>6
  <1>8. Requests(d) \in Seq(Item) /\ Len(Requests(d)) = len[c]
    <2>1. \A n \in Nat : \A f \in [1 .. n -> Item] : f \in Seq(Item) /\ Len(f) = n
      OBVIOUS
    <2> QED
      BY <1>2, <1>7, <2>1
  <1> QED
    BY <1>2, <1>6, <1>8 DEF d, s, Mirrored

\* The queue as its callers see it, in terms of the lists.
LEMMA ValuesAre ==
    ASSUME QueueType, temp \in Seq(Item),
           NEW place \in [Nodes -> Places], NEW rank \in [Nodes -> Nat], NEW len \in [Classes -> Nat],
           NEW uses \in [Nodes -> 0 .. Flags - 1],
           LinkedAs(place, rank, len, uses)
    PROVE /\ Waiting = Values(Up("requested", place, rank, len), request, <<>>)
          /\ Batch = Values(Up("taken", place, rank, len), request, temp)
  <1>0. "requested" \in Classes /\ "taken" \in Classes /\ Ranked(place, rank, len)
    BY DEF Classes, LinkedAs
  <1>1. /\ Chain(requestHead) = Down("requested", len["requested"], place, rank)
        /\ Remaining = Down("taken", len["taken"], place, rank)
    BY ListsAre
  <1>2. Waiting = Values(Up("requested", place, rank, len), request, <<>>)
    <2> DEFINE d == Down("requested", len["requested"], place, rank)
               s == Up("requested", place, rank, len)
               n == len["requested"]
    <2>0. "requested" \in Classes /\ Listing(place, rank, len)
      BY <1>0 DEF Listing
    <2>1. /\ n \in Nat /\ Len(s) = n /\ Len(Requests(d)) = n
          /\ \A j \in 1 .. n : Requests(d)[j] = request[s[n + 1 - j]]
      <3>1. Mirrored(d, s, n)
        BY <2>0, DownBackwards
      <3> HIDE DEF d, s, n
      <3> QED
        BY <3>1 DEF Mirrored
    <2>2. Waiting = Backwards(Requests(d))
      BY <1>1 DEF Waiting
    <2> HIDE DEF d, s, n
    <2>3. \A k \in 1 .. n : Requests(d)[n + 1 - k] = request[s[k]]
      <3>1. TAKE k \in 1 .. n
      <3>2. n + 1 - k \in 1 .. n /\ n + 1 - (n + 1 - k) = k
        BY <2>1
      <3> QED
        BY <2>1, <3>2
    <2>4. Backwards(Requests(d)) = [k \in 1 .. n |-> request[s[k]]]
      BY <2>1, <2>3 DEF Backwards
    <2>5. Values(s, request, <<>>) = [k \in 1 .. n |-> request[s[k]]]
      <3>1. n + Len(<<>>) = n /\ \A k \in 1 .. n : k <= n
        BY <2>1
      <3> QED
        BY <2>1, <3>1 DEF Values
    <2> QED
      BY <2>2, <2>4, <2>5 DEF s
  <1>3. Batch = Values(Up("taken", place, rank, len), request, temp)
    <2> DEFINE d == Down("taken", len["taken"], place, rank)
               s == Up("taken", place, rank, len)
               n == len["taken"]
               m == Len(temp)
               all == temp \o Requests(d)
    <2>1. /\ n \in Nat /\ Len(s) = n /\ Len(Requests(d)) = n /\ Requests(d) \in Seq(Item)
          /\ \A j \in 1 .. n : Requests(d)[j] = request[s[n + 1 - j]]
      <3>1. "taken" \in Classes /\ Listing(place, rank, len)
        BY <1>0 DEF Listing
      <3>2. Mirrored(d, s, n)
        BY <3>1, DownBackwards
      <3> HIDE DEF d, s, n
      <3> QED
        BY <3>2 DEF Mirrored
    <2>2. Batch = Backwards(all)
      BY <1>1 DEF Batch
    <2> HIDE DEF d, s, n
    <2>3. /\ m \in Nat /\ Len(all) = m + n
          /\ \A j \in 1 .. m + n : all[j] = IF j <= m THEN temp[j] ELSE Requests(d)[j - m]
      <3>1. temp \in Seq(Item) /\ m \in Nat
        BY LenProperties
      <3>2. /\ Len(all) = Len(temp) + Len(Requests(d))
            /\ \A j \in 1 .. Len(temp) + Len(Requests(d)) :
                  all[j] = IF j <= Len(temp) THEN temp[j] ELSE Requests(d)[j - Len(temp)]
        BY <2>1, <3>1, ConcatProperties
      <3> QED
        BY <2>1, <3>1, <3>2
    <2> HIDE DEF all, m
    <2>4. ASSUME NEW k \in 1 .. n + m
          PROVE all[n + m + 1 - k] = IF k <= n THEN request[s[k]] ELSE temp[n + m + 1 - k]
      <3>1. n + m + 1 - k \in 1 .. m + n /\ (n + m + 1 - k <= m <=> ~(k <= n))
        BY <2>1, <2>3
      <3>2. CASE k <= n
        <4>1. PICK i, j : i = n + m + 1 - k /\ j = i - m
          OBVIOUS
        <4>2. /\ i \in 1 .. m + n /\ ~(i <= m)
              /\ j \in 1 .. n /\ n + 1 - j = k
          BY <2>1, <2>3, <3>2, <4>1
        <4>3. all[i] = Requests(d)[j]
          BY <2>3, <4>1, <4>2
        <4>4. Requests(d)[j] = request[s[k]]
          BY <2>1, <4>2
        <4> QED
          BY <3>2, <4>1, <4>3, <4>4
      <3>3. CASE ~(k <= n)
        BY <2>3, <3>1, <3>3
      <3> QED
        BY <3>2, <3>3
    <2>5. m + n = n + m
      BY <2>1, <2>3
    <2>6. Backwards(all) = [k \in 1 .. n + m |-> all[n + m + 1 - k]]
      BY <2>3, <2>5 DEF Backwards
    <2>7. Backwards(all) = [k \in 1 .. n + m |-> IF k <= n THEN request[s[k]] ELSE temp[n + m + 1 - k]]
      BY <2>4, <2>6
    <2>8. Values(s, request, temp)
            = [k \in 1 .. n + m |-> IF k <= n THEN request[s[k]] ELSE temp[n + m + 1 - k]]
      BY <2>1 DEF Values, m
    <2> QED
      BY <2>2, <2>7, <2>8 DEF s
  <1> QED
    BY <1>2, <1>3

LEMMA ValuesType ==
    ASSUME NEW s \in Seq(Nodes), NEW q \in [Nodes -> Item], NEW t \in Seq(Item)
    PROVE Values(s, q, t) \in Seq(Item) /\ Len(Values(s, q, t)) = Len(s) + Len(t)
  <1>0. /\ Len(s) \in Nat /\ Len(t) \in Nat /\ \A k \in 1 .. Len(s) : s[k] \in Nodes
        /\ \A k \in 1 .. Len(t) : t[k] \in Item
    OBVIOUS
  <1>1. ASSUME NEW k \in 1 .. Len(s) + Len(t)
        PROVE (IF k <= Len(s) THEN q[s[k]] ELSE t[Len(s) + Len(t) + 1 - k]) \in Item
    <2>1. CASE k <= Len(s)
      <3>1. k \in 1 .. Len(s)
        BY <1>0, <2>1
      <3> QED
        BY <1>0, <2>1, <3>1
    <2>2. CASE ~(k <= Len(s))
      <3>1. Len(s) + Len(t) + 1 - k \in 1 .. Len(t)
        BY <1>0, <2>2
      <3> QED
        BY <1>0, <2>2, <3>1
    <2> QED
      BY <2>1, <2>2
  <1>2. Values(s, q, t) \in [1 .. Len(s) + Len(t) -> Item]
    BY <1>1 DEF Values
  <1>3. \A n \in Nat : \A f \in [1 .. n -> Item] : f \in Seq(Item) /\ Len(f) = n
    OBVIOUS
  <1> QED
    BY <1>0, <1>2, <1>3

\* Only what is listed counts.
LEMMA ValuesSame ==
    ASSUME NEW s \in Seq(Nodes), NEW q, NEW r, NEW t \in Seq(Item),
           \A k \in 1 .. Len(s) : q[s[k]] = r[s[k]]
    PROVE Values(s, q, t) = Values(s, r, t)
  <1>0. Len(s) \in Nat /\ Len(t) \in Nat
    OBVIOUS
  <1>1. \A k \in 1 .. Len(s) + Len(t) : k <= Len(s) => q[s[k]] = r[s[k]]
    BY <1>0
  <1> QED
    BY <1>1 DEF Values

\* The first node of the list can as well be the first of t.
Moves(s, q, r, t, me) ==
    /\ s \in Seq(Nodes) /\ q \in [Nodes -> Item] /\ t \in Seq(Item) /\ me \in Nodes
    /\ \A k \in 1 .. Len(s) : q[s[k]] = r[s[k]]

LEMMA ValuesMove ==
    ASSUME NEW s, NEW q, NEW r, NEW t, NEW me, Moves(s, q, r, t, me)
    PROVE Values(Append(s, me), q, t) = Values(s, r, Append(t, q[me]))
  <1> USE DEF Moves
  <1> DEFINE a == Append(s, me)
             b == Append(t, q[me])
             n == Len(s)
             m == Len(t)
  <1>0. /\ n \in Nat /\ m \in Nat /\ Len(a) = n + 1 /\ a[n + 1] = me /\ \A k \in 1 .. n : a[k] = s[k]
        /\ Len(b) = m + 1 /\ b[m + 1] = q[me] /\ \A k \in 1 .. m : b[k] = t[k]
    <2>1. q[me] \in Item
      OBVIOUS
    <2> QED
      BY <2>1, AppendProperties
  <1>1. Values(a, q, t) = [k \in 1 .. n + 1 + m |-> IF k <= n + 1 THEN q[a[k]] ELSE t[n + 1 + m + 1 - k]]
    BY <1>0 DEF Values
  <1>2. Values(s, r, b) = [k \in 1 .. n + (m + 1) |-> IF k <= n THEN r[s[k]] ELSE b[n + (m + 1) + 1 - k]]
    BY <1>0 DEF Values
  <1> HIDE DEF a, b
  <1>3. ASSUME NEW k \in 1 .. n + 1 + m
        PROVE (IF k <= n + 1 THEN q[a[k]] ELSE t[n + 1 + m + 1 - k])
                = (IF k <= n THEN r[s[k]] ELSE b[n + (m + 1) + 1 - k])
    <2>1. CASE k <= n
      <3>1. k \in 1 .. n /\ k <= n + 1
        BY <1>0, <2>1
      <3> QED
        BY <1>0, <2>1, <3>1
    <2>2. CASE k = n + 1
      <3>1. k <= n + 1 /\ ~(k <= n) /\ n + (m + 1) + 1 - k = m + 1
        BY <1>0, <2>2
      <3> QED
        BY <1>0, <2>2, <3>1
    <2>3. CASE k > n + 1
      <3>1. /\ ~(k <= n + 1) /\ ~(k <= n) /\ n + 1 + m + 1 - k = n + (m + 1) + 1 - k
            /\ n + 1 + m + 1 - k \in 1 .. m
        BY <1>0, <2>3
      <3> QED
        BY <1>0, <3>1
    <2> QED
      BY <1>0, <2>1, <2>2, <2>3
  <1>4. n + 1 + m = n + (m + 1)
    BY <1>0
  <1> HIDE DEF n, m
  <1> QED
    BY <1>1, <1>2, <1>3, <1>4 DEF a, b

LEMMA ValuesPush ==
    ASSUME NEW s \in Seq(Nodes), NEW q \in [Nodes -> Item], NEW me \in Nodes
    PROVE Values(Append(s, me), q, <<>>) = Append(Values(s, q, <<>>), q[me])
  <1>0. /\ Append(s, me) \in Seq(Nodes) /\ q[me] \in Item /\ <<>> \in Seq(Item) /\ Len(<<>>) = 0
        /\ Len(s) \in Nat /\ Len(Append(s, me)) = Len(s) + 1 /\ Append(s, me)[Len(s) + 1] = me
        /\ \A k \in 1 .. Len(s) : Append(s, me)[k] = s[k]
    BY AppendProperties, EmptySeq
  <1>1. Values(s, q, <<>>) \in Seq(Item) /\ Len(Values(s, q, <<>>)) = Len(s)
    <2>1. Values(s, q, <<>>) \in Seq(Item) /\ Len(Values(s, q, <<>>)) = Len(s) + Len(<<>>)
      BY <1>0, ValuesType
    <2> HIDE DEF Values
    <2> QED
      BY <1>0, <2>1
  <1>2. Values(Append(s, me), q, <<>>) \in Seq(Item) /\ Len(Values(Append(s, me), q, <<>>)) = Len(s) + 1
    <2> DEFINE a == Append(s, me)
    <2>0. a \in Seq(Nodes) /\ Len(a) = Len(s) + 1
      BY <1>0
    <2> HIDE DEF a
    <2>1. Values(a, q, <<>>) \in Seq(Item) /\ Len(Values(a, q, <<>>)) = Len(a) + Len(<<>>)
      BY <1>0, <2>0, ValuesType
    <2> HIDE DEF Values
    <2>2. Values(a, q, <<>>) \in Seq(Item) /\ Len(Values(a, q, <<>>)) = Len(s) + 1
      BY <1>0, <2>0, <2>1
    <2> QED
      BY <2>2 DEF a
  <1>3. /\ Append(Values(s, q, <<>>), q[me]) \in Seq(Item)
        /\ Len(Append(Values(s, q, <<>>), q[me])) = Len(s) + 1
        /\ Append(Values(s, q, <<>>), q[me])[Len(s) + 1] = q[me]
        /\ \A k \in 1 .. Len(s) : Append(Values(s, q, <<>>), q[me])[k] = Values(s, q, <<>>)[k]
    <2> HIDE DEF Values
    <2> QED
      BY <1>0, <1>1, AppendProperties
  <1>4. \A k \in 1 .. Len(s) : Values(s, q, <<>>)[k] = q[s[k]]
    BY <1>0 DEF Values
  <1>5. \A k \in 1 .. Len(s) + 1 : Values(Append(s, me), q, <<>>)[k] = q[Append(s, me)[k]]
    BY <1>0 DEF Values
  <1>6. \A k \in 1 .. Len(s) + 1 : Values(Append(s, me), q, <<>>)[k] = Append(Values(s, q, <<>>), q[me])[k]
    <2> HIDE DEF Values
    <2>1. TAKE k \in 1 .. Len(s) + 1
    <2>2. k \in 1 .. Len(s) \/ k = Len(s) + 1
      BY <1>0
    <2> QED
      BY <1>0, <1>3, <1>4, <1>5, <2>2
  <1> HIDE DEF Values
  <1> QED
    BY <1>2, <1>3, <1>6, SeqEqual

\* Executing the last of t.
LEMMA ValuesRun ==
    ASSUME NEW q \in [Nodes -> Item], NEW t \in Seq(Item), t # <<>>
    PROVE /\ Values(<<>>, q, t) # <<>>
          /\ Head(Values(<<>>, q, t)) = t[Len(t)]
          /\ Values(<<>>, q, SubSeq(t, 1, Len(t) - 1)) = Tail(Values(<<>>, q, t))
  <1>0. Len(t) \in Nat /\ Len(t) > 0 /\ <<>> \in Seq(Nodes) /\ Len(<<>>) = 0
    BY EmptySeq
  <1> DEFINE u == SubSeq(t, 1, Len(t) - 1)
  <1>1. /\ u \in Seq(Item) /\ Len(u) = Len(t) - 1
        /\ \A k \in 1 .. Len(t) - 1 : u[k] = t[k]
    <2>1. \A k \in 1 .. Len(t) - 1 : t[k] \in Item
      BY <1>0
    <2>2. PICK n \in Int : n = Len(t) - 1
      BY <1>0
    <2>3. /\ SubSeq(t, 1, n) \in Seq(Item)
          /\ Len(SubSeq(t, 1, n)) = IF 1 <= n THEN n - 1 + 1 ELSE 0
          /\ \A k \in 1 .. n - 1 + 1 : SubSeq(t, 1, n)[k] = t[1 + k - 1]
      BY <2>1, <2>2, SubSeqProperties
    <2>4. n - 1 + 1 = n /\ n >= 0 /\ \A k \in 1 .. n : 1 + k - 1 = k
      BY <1>0, <2>2
    <2>5. u = SubSeq(t, 1, n)
      BY <2>2
    <2> HIDE DEF u
    <2>6. /\ u \in Seq(Item) /\ Len(u) = n
          /\ \A k \in 1 .. n : u[k] = t[k]
      BY <2>3, <2>4, <2>5
    <2> QED
      BY <2>2, <2>6
  <1>2. \A v \in Seq(Item) : /\ Values(<<>>, q, v) \in Seq(Item) /\ Len(Values(<<>>, q, v)) = Len(v)
                             /\ \A k \in 1 .. Len(v) : Values(<<>>, q, v)[k] = v[Len(v) + 1 - k]
    <2>1. TAKE v \in Seq(Item)
    <2>2. Len(v) \in Nat /\ 0 + Len(v) = Len(v)
      OBVIOUS
    <2>3. Values(<<>>, q, v) \in Seq(Item) /\ Len(Values(<<>>, q, v)) = Len(v)
      BY <1>0, <2>2, ValuesType
    <2>4. \A k \in 1 .. Len(v) : ~(k <= 0)
      BY <2>2
    <2>5. \A k \in 1 .. Len(v) : Values(<<>>, q, v)[k] = v[Len(v) + 1 - k]
      BY <1>0, <2>2, <2>4 DEF Values
    <2> QED
      BY <2>3, <2>5
  <1> HIDE DEF u
  <1>3. Values(<<>>, q, t) # <<>>
    BY <1>0, <1>2
  <1>4. Head(Values(<<>>, q, t)) = t[Len(t)]
    <2>1. Values(<<>>, q, t)[1] = t[Len(t)]
      BY <1>0, <1>2
    <2> QED
      BY <1>0, <1>2, <1>3, <2>1
  <1>5. /\ Tail(Values(<<>>, q, t)) \in Seq(Item) /\ Len(Tail(Values(<<>>, q, t))) = Len(t) - 1
        /\ \A k \in 1 .. Len(t) - 1 : Tail(Values(<<>>, q, t))[k] = Values(<<>>, q, t)[k + 1]
    <2>1. Values(<<>>, q, t) \in Seq(Item) /\ Len(Values(<<>>, q, t)) = Len(t)
      BY <1>2
    <2> HIDE DEF Values
    <2> QED
      BY <1>0, <1>3, <2>1, HeadTailProperties
  <1>6. /\ Values(<<>>, q, u) \in Seq(Item) /\ Len(Values(<<>>, q, u)) = Len(t) - 1
        /\ \A k \in 1 .. Len(t) - 1 : Values(<<>>, q, u)[k] = u[Len(t) - 1 + 1 - k]
    BY <1>1, <1>2
  <1>7. \A k \in 1 .. Len(t) - 1 : Values(<<>>, q, u)[k] = Tail(Values(<<>>, q, t))[k]
    <2>1. TAKE k \in 1 .. Len(t) - 1
    <2>2. /\ Len(t) - 1 + 1 - k \in 1 .. Len(t) - 1 /\ k + 1 \in 1 .. Len(t)
          /\ Len(t) + 1 - (k + 1) = Len(t) - 1 + 1 - k
      BY <1>0
    <2>3. Values(<<>>, q, t)[k + 1] = t[Len(t) + 1 - (k + 1)]
      BY <1>2, <2>2
    <2>4. Values(<<>>, q, u)[k] = t[Len(t) - 1 + 1 - k]
      BY <1>1, <1>6, <2>2
    <2> HIDE DEF Values
    <2> QED
      BY <1>5, <2>2, <2>3, <2>4
  <1>8. Values(<<>>, q, u) = Tail(Values(<<>>, q, t))
    <2> HIDE DEF Values
    <2> QED
      BY <1>5, <1>6, <1>7, SeqEqual
  <1> QED
    BY <1>3, <1>4, <1>8 DEF u

LEMMA ValuesNone == \A q : Values(<<>>, q, <<>>) = <<>>
  <1>1. 1 .. Len(<<>>) + Len(<<>>) = {}
    BY EmptySeq
  <1> QED
    BY <1>1 DEF Values

\* The same after a step.
Described ==
    \A place \in [Nodes -> Places], rank \in [Nodes -> Nat], len \in [Classes -> Nat],
       uses \in [Nodes -> 0 .. Flags - 1] :
       QueueType /\ temp \in Seq(Item) /\ LinkedAs(place, rank, len, uses) =>
          /\ Waiting = Values(Up("requested", place, rank, len), request, <<>>)
          /\ Batch = Values(Up("taken", place, rank, len), request, temp)

LEMMA AlwaysDescribed == Described
  <1> HIDE DEF Values, Up
  <1> QED
    BY ValuesAre DEF Described

LEMMA ValuesNext ==
    ASSUME NEW place \in [Nodes -> Places], NEW rank \in [Nodes -> Nat], NEW len \in [Classes -> Nat],
           NEW uses \in [Nodes -> 0 .. Flags - 1], QueueType', temp' \in Seq(Item), LinkedAs(place, rank, len, uses)'
    PROVE /\ Waiting' = Values(Up("requested", place, rank, len), request', <<>>)
          /\ Batch' = Values(Up("taken", place, rank, len), request', temp')
  <1>1. Described'
    BY AlwaysDescribed, PTL
  <1> QED
    BY <1>1 DEF Described

-----------------------------------------------------------------------------
(* What a step does to the queue as its callers see it.                     *)

\* The handler has nothing between its calls.
TempFits ==
    /\ temp \in Seq(Item)
    /\ qpc[Handler] \notin {"walk"} \cup Handled => temp = <<>>

LEMMA TempStep ==
    ASSUME QueueType, TempFits, [Next]_vars
    PROVE TempFits'
  <1>0. /\ Handler \in Threads /\ \A p \in Producers : p \in Threads /\ p # Handler
        /\ qpc[Handler] \in HandlerLabels
    BY Basics DEF QueueType
  <1>1. CASE OnlyMoves
    BY <1>0, <1>1 DEF OnlyMoves, TempFits, lists, Away, Handled
  <1>2. ASSUME NEW p \in Producers, Push(p) \/ Producer(p)
        PROVE TempFits'
    <2>1. temp' = temp
      BY <1>2 DEF Push, Producer, Full, GetLoad, GetNext, GetCas, GetAgain, PutLoad, PutLink, PutAgain,
                  PutRequest, lists
    <2>2. qpc'[Handler] = qpc[Handler]
      BY <1>0, <1>2 DEF Push, Producer, Full, GetLoad, GetNext, GetCas, GetAgain, PutLoad, PutLink, PutAgain,
                  PutRequest, Goto, QueueType
    <2> QED
      BY <2>1, <2>2 DEF TempFits
  <1>3. CASE Handling
    <2>1. CASE HandleLoad \/ HandleCas \/ HandleAgain \/ PutLoad(Handler) \/ PutLink(Handler)
               \/ PutAgain(Handler) \/ GiveBack \/ RunEnd
      BY <1>0, <2>1 DEF HandleLoad, HandleCas, HandleAgain, PutLoad, PutLink, PutAgain, GiveBack, RunEnd,
                        Goto, TempFits, Handled, QueueType, lists
    <2>2. CASE Walk
      <3>1. own[Handler].index \in Nodes /\ temp' = Append(temp, request[own[Handler].index])
            /\ qpc'[Handler] = "putload"
        BY <1>0, <2>2, WordType DEF Walk, Goto, QueueType
      <3>2. request[own[Handler].index] \in Item
        BY <3>1 DEF QueueType
      <3> QED
        BY <3>1, <3>2 DEF TempFits, Handled
    <2>3. CASE Run
      <3>1. temp' = SubSeq(temp, 1, Len(temp) - 1) /\ qpc' = qpc /\ qpc[Handler] = "walk"
        BY <2>3 DEF Run
      <3>2. temp' \in Seq(Item)
        <4>1. \A k \in 1 .. Len(temp) - 1 : temp[k] \in Item
          BY DEF TempFits
        <4>2. Len(temp) - 1 \in Int
          BY DEF TempFits
        <4> QED
          BY <3>1, <4>1, <4>2, SubSeqProperties
      <3> QED
        BY <3>1, <3>2 DEF TempFits
    <2> QED
      BY <1>3, <2>1, <2>2, <2>3 DEF Handling
  <1> QED
    BY <1>1, <1>2, <1>3, StepOnQueue

Publishes(p) ==
    /\ PutRequest(p)
    /\ Waiting' = Append(Waiting, request[own[p].index])
    /\ UNCHANGED <<Batch, ran>>

TakesAll ==
    /\ Batch = <<>>
    /\ Batch' = Waiting /\ Waiting' = <<>>
    /\ UNCHANGED ran

Executes ==
    /\ Batch # <<>>
    /\ ran' = Put(ran, Head(Batch)[1], Head(Batch)[2])
    /\ Batch' = Tail(Batch)
    /\ UNCHANGED Waiting

\* The lists stay.
LEMMA SameLists ==
    ASSUME QueueType, QueueType', TempFits, TempFits',
           NEW place \in [Nodes -> Places], NEW rank \in [Nodes -> Nat], NEW len \in [Classes -> Nat],
           NEW uses \in [Nodes -> 0 .. Flags - 1],
           LinkedAs(place, rank, len, uses), LinkedAs(place, rank, len, uses)',
           UNCHANGED <<request, temp>>
    PROVE UNCHANGED <<Waiting, Batch>>
  <1> HIDE DEF Values, Up
  <1>1. /\ Waiting = Values(Up("requested", place, rank, len), request, <<>>)
        /\ Batch = Values(Up("taken", place, rank, len), request, temp)
    BY ValuesAre DEF TempFits
  <1>2. /\ Waiting' = Values(Up("requested", place, rank, len), request', <<>>)
        /\ Batch' = Values(Up("taken", place, rank, len), request', temp')
    BY ValuesNext DEF TempFits
  <1> QED
    BY <1>1, <1>2

LEMMA GetCasValues ==
    ASSUME QueueType, QueueType', TempFits, TempFits', NEW p \in Producers, GetCas(p), NoFlagWraps',
           NEW place \in [Nodes -> Places], NEW rank \in [Nodes -> Nat], NEW len \in [Classes -> Nat],
           NEW uses \in [Nodes -> 0 .. Flags - 1], LinkedAs(place, rank, len, uses)
    PROVE UNCHANGED <<Waiting, Batch>>
  <1> HIDE DEF Values, Up
  <1>0. "requested" \in Classes /\ "taken" \in Classes /\ "free" \in Classes /\ Ranked(place, rank, len)
    BY DEF Classes, LinkedAs
  <1> DEFINE me == seen[p].index
  <1>1. PICK P \in [Nodes -> Places], R \in [Nodes -> Nat], L \in [Classes -> Nat],
             U \in [Nodes -> 0 .. Flags - 1] :
             /\ LinkedAs(P, R, L, U)'
             /\ R = rank /\ Popped(place, rank, len, uses, "free", me, P, L, U)
    BY GetCasLinked
  <1>2. /\ Waiting = Values(Up("requested", place, rank, len), request, <<>>)
        /\ Batch = Values(Up("taken", place, rank, len), request, temp)
    BY ValuesAre DEF TempFits
  <1>3. /\ Waiting' = Values(Up("requested", P, R, L), request', <<>>)
        /\ Batch' = Values(Up("taken", P, R, L), request', temp')
    BY <1>1, ValuesNext DEF TempFits
  <1>4. \A d \in {"requested", "taken"} : Up(d, P, R, L) = Up(d, place, rank, len)
    <2>1. Popped(place, rank, len, uses, "free", me, P, L, U)
      BY <1>1
    <2> HIDE DEF me
    <2>2. PoppedUps(place, rank, len, "free", me, P, L)
      BY <2>1, PopUps
    <2> QED
      BY <1>0, <1>1, <2>2 DEF PoppedUps
  <1>5. temp' = temp /\ me \in Nodes /\ \A i \in Nodes \ {me} : request'[i] = request[i]
    BY <1>1 DEF GetCas, Put, QueueType, Popped
  <1>6. ASSUME NEW d \in {"requested", "taken"}, NEW t \in Seq(Item)
        PROVE Values(Up(d, place, rank, len), request', t) = Values(Up(d, place, rank, len), request, t)
    <2>1. ListsAll(Up(d, place, rank, len), d, place, rank, len[d])
      BY <1>0, UpIs
    <2>2. place[me] = "free"
      BY <1>1 DEF Popped
    <2>3. /\ Up(d, place, rank, len) \in Seq(Nodes)
          /\ \A k \in 1 .. Len(Up(d, place, rank, len)) :
                Up(d, place, rank, len)[k] \in Nodes \ {me}
      BY <2>1, <2>2 DEF ListsAll
    <2>4. PICK q, r, s : q = request /\ r = request' /\ s = Up(d, place, rank, len)
      OBVIOUS
    <2>5. s \in Seq(Nodes) /\ \A k \in 1 .. Len(s) : q[s[k]] = r[s[k]]
      BY <1>5, <2>3, <2>4
    <2>6. Values(s, q, t) = Values(s, r, t)
      BY <2>5, ValuesSame
    <2> QED
      BY <2>4, <2>6
  <1>7. <<>> \in Seq(Item) /\ temp \in Seq(Item)
    BY DEF TempFits
  <1> QED
    BY <1>2, <1>3, <1>4, <1>5, <1>6, <1>7

LEMMA WalkValues ==
    ASSUME QueueType, QueueType', TempFits, TempFits', Walk,
           NEW place \in [Nodes -> Places], NEW rank \in [Nodes -> Nat], NEW len \in [Classes -> Nat],
           NEW uses \in [Nodes -> 0 .. Flags - 1], LinkedAs(place, rank, len, uses)
    PROVE UNCHANGED <<Waiting, Batch>>
  <1> HIDE DEF Values, Up
  <1>0. "requested" \in Classes /\ "taken" \in Classes /\ Ranked(place, rank, len)
    BY DEF Classes, LinkedAs
  <1> DEFINE me == own[Handler].index
  <1>1. PICK P \in [Nodes -> Places], R \in [Nodes -> Nat], L \in [Classes -> Nat],
             U \in [Nodes -> 0 .. Flags - 1] :
             /\ LinkedAs(P, R, L, U)'
             /\ R = rank /\ U = uses /\ Popped(place, rank, len, uses, "taken", me, P, L, uses)
    BY WalkLinked
  <1>2. /\ Waiting = Values(Up("requested", place, rank, len), request, <<>>)
        /\ Batch = Values(Up("taken", place, rank, len), request, temp)
    BY ValuesAre DEF TempFits
  <1>3. /\ Waiting' = Values(Up("requested", P, R, L), request', <<>>)
        /\ Batch' = Values(Up("taken", P, R, L), request', temp')
    BY <1>1, ValuesNext DEF TempFits
  <1>4. /\ Up("requested", P, R, L) = Up("requested", place, rank, len)
        /\ Up("taken", place, rank, len) = Append(Up("taken", P, R, L), me)
        /\ \A d \in Classes : \A k \in 1 .. L[d] : Up(d, P, R, L)[k] # me
    <2>1. Popped(place, rank, len, uses, "taken", me, P, L, uses)
      BY <1>1
    <2> HIDE DEF me
    <2>2. PoppedUps(place, rank, len, "taken", me, P, L)
      BY <2>1, PopUps
    <2> QED
      BY <1>0, <1>1, <2>2 DEF PoppedUps
  <1>5. /\ temp' = Append(temp, request[me]) /\ me \in Nodes /\ temp \in Seq(Item)
        /\ \A i \in Nodes \ {me} : request'[i] = request[i]
    BY <1>1 DEF Walk, Put, QueueType, Popped, TempFits
  <1>6. ASSUME NEW d \in Classes
        PROVE /\ Up(d, P, R, L) \in Seq(Nodes)
              /\ \A k \in 1 .. Len(Up(d, P, R, L)) : request[Up(d, P, R, L)[k]] = request'[Up(d, P, R, L)[k]]
    <2>1. ListsAll(Up(d, P, R, L), d, P, R, L[d])
      BY <1>1, UpIs DEF Popped
    <2>2. /\ Up(d, P, R, L) \in Seq(Nodes) /\ Len(Up(d, P, R, L)) = L[d]
          /\ \A k \in 1 .. L[d] : Up(d, P, R, L)[k] \in Nodes
      BY <2>1 DEF ListsAll
    <2>3. \A k \in 1 .. L[d] : Up(d, P, R, L)[k] # me
      BY <1>4, Zenon
    <2> HIDE DEF me
    <2> QED
      BY <1>5, <2>2, <2>3
  <1>7. Values(Up("requested", P, R, L), request, <<>>) = Values(Up("requested", P, R, L), request', <<>>)
    <2>1. <<>> \in Seq(Item)
      OBVIOUS
    <2> QED
      BY <1>0, <1>6, <2>1, ValuesSame
  <1>8. Values(Append(Up("taken", P, R, L), me), request, temp)
          = Values(Up("taken", P, R, L), request', Append(temp, request[me]))
    <2>1. PICK q, r, t, i : q = request /\ r = request' /\ t = temp /\ i = me
      OBVIOUS
    <2>2. q \in [Nodes -> Item] /\ t \in Seq(Item) /\ i \in Nodes /\ Up("taken", P, R, L) \in Seq(Nodes)
      BY <1>0, <1>5, <1>6, <2>1 DEF QueueType
    <2>3. \A k \in 1 .. Len(Up("taken", P, R, L)) : q[Up("taken", P, R, L)[k]] = r[Up("taken", P, R, L)[k]]
      BY <1>0, <1>6, <2>1
    <2>4. PICK s : s = Up("taken", P, R, L)
      OBVIOUS
    <2>5. s \in Seq(Nodes) /\ \A k \in 1 .. Len(s) : q[s[k]] = r[s[k]]
      BY <2>2, <2>3, <2>4, Zenon
    <2>6. Moves(s, q, r, t, i)
      BY <2>2, <2>5, Zenon DEF Moves
    <2>7. Values(Append(s, i), q, t) = Values(s, r, Append(t, q[i]))
      BY <2>6, ValuesMove
    <2> QED
      BY <2>1, <2>4, <2>7, Zenon
  <1> QED
    BY <1>2, <1>3, <1>4, <1>5, <1>7, <1>8

LEMMA PutRequestValues ==
    ASSUME QueueType, QueueType', TempFits, TempFits', NEW p \in Producers, PutRequest(p),
           NEW place \in [Nodes -> Places], NEW rank \in [Nodes -> Nat], NEW len \in [Classes -> Nat],
           NEW uses \in [Nodes -> 0 .. Flags - 1], LinkedAs(place, rank, len, uses)
    PROVE Publishes(p)
  <1> HIDE DEF Values, Up
  <1>0. "requested" \in Classes /\ "taken" \in Classes \ {"requested"} /\ Ranked(place, rank, len)
    BY DEF Classes, LinkedAs
  <1> DEFINE me == own[p].index
  <1>1. PICK P \in [Nodes -> Places], R \in [Nodes -> Nat], L \in [Classes -> Nat],
             U \in [Nodes -> 0 .. Flags - 1] :
             /\ LinkedAs(P, R, L, U)'
             /\ U = uses /\ Pushed(place, rank, len, "requested", me, P, R, L)
    BY PutRequestLinked
  <1>2. /\ Waiting = Values(Up("requested", place, rank, len), request, <<>>)
        /\ Batch = Values(Up("taken", place, rank, len), request, temp)
    BY ValuesAre DEF TempFits
  <1>3. /\ Waiting' = Values(Up("requested", P, R, L), request', <<>>)
        /\ Batch' = Values(Up("taken", P, R, L), request', temp')
    BY <1>1, ValuesNext DEF TempFits
  <1>4. /\ Up("taken", P, R, L) = Up("taken", place, rank, len)
        /\ Up("requested", P, R, L) = Append(Up("requested", place, rank, len), me)
    <2>1. Pushed(place, rank, len, "requested", me, P, R, L)
      BY <1>1
    <2> HIDE DEF me
    <2>2. PushedUps(place, rank, len, "requested", me, P, R, L)
      BY <2>1, PushUps
    <2> QED
      BY <1>0, <2>2 DEF PushedUps
  <1>5. request' = request /\ temp' = temp /\ ran' = ran /\ me \in Nodes
    BY <1>1 DEF PutRequest, counts, Pushed
  <1>6. Values(Append(Up("requested", place, rank, len), me), request, <<>>)
          = Append(Values(Up("requested", place, rank, len), request, <<>>), request[me])
    <2>1. ListsAll(Up("requested", place, rank, len), "requested", place, rank, len["requested"])
      BY <1>0, UpIs
    <2>2. PICK s, q, i : s = Up("requested", place, rank, len) /\ q = request /\ i = me
      OBVIOUS
    <2>3. s \in Seq(Nodes) /\ q \in [Nodes -> Item] /\ i \in Nodes
      BY <1>5, <2>1, <2>2 DEF ListsAll, QueueType
    <2>4. Values(Append(s, i), q, <<>>) = Append(Values(s, q, <<>>), q[i])
      BY <2>3, ValuesPush
    <2> QED
      BY <2>2, <2>4
  <1>7. Waiting' = Append(Waiting, request[me])
    BY <1>2, <1>3, <1>4, <1>5, <1>6
  <1>8. Batch' = Batch
    BY <1>2, <1>3, <1>4, <1>5
  <1> QED
    BY <1>5, <1>7, <1>8 DEF Publishes

LEMMA GiveBackValues ==
    ASSUME QueueType, QueueType', TempFits, TempFits', GiveBack,
           NEW place \in [Nodes -> Places], NEW rank \in [Nodes -> Nat], NEW len \in [Classes -> Nat],
           NEW uses \in [Nodes -> 0 .. Flags - 1], LinkedAs(place, rank, len, uses)
    PROVE UNCHANGED <<Waiting, Batch>>
  <1> HIDE DEF Values, Up
  <1>0. {"requested", "taken"} \subseteq Classes \ {"free"}
    BY DEF Classes
  <1> DEFINE me == own[Handler].index
  <1>1. PICK P \in [Nodes -> Places], R \in [Nodes -> Nat], L \in [Classes -> Nat],
             U \in [Nodes -> 0 .. Flags - 1] :
             /\ LinkedAs(P, R, L, U)'
             /\ U = uses /\ Pushed(place, rank, len, "free", me, P, R, L)
    BY GiveBackLinked
  <1>2. /\ Waiting = Values(Up("requested", place, rank, len), request, <<>>)
        /\ Batch = Values(Up("taken", place, rank, len), request, temp)
    BY ValuesAre DEF TempFits
  <1>3. /\ Waiting' = Values(Up("requested", P, R, L), request', <<>>)
        /\ Batch' = Values(Up("taken", P, R, L), request', temp')
    BY <1>1, ValuesNext DEF TempFits
  <1>4. \A d \in {"requested", "taken"} : Up(d, P, R, L) = Up(d, place, rank, len)
    <2>1. Pushed(place, rank, len, "free", me, P, R, L)
      BY <1>1
    <2> HIDE DEF me
    <2>2. PushedUps(place, rank, len, "free", me, P, R, L)
      BY <2>1, PushUps
    <2> QED
      BY <1>0, <2>2 DEF PushedUps
  <1>5. request' = request /\ temp' = temp
    BY DEF GiveBack
  <1> QED
    BY <1>2, <1>3, <1>4, <1>5

LEMMA HandleCasValues ==
    ASSUME QueueType, QueueType', TempFits, TempFits', HandleCas,
           NEW place \in [Nodes -> Places], NEW rank \in [Nodes -> Nat], NEW len \in [Classes -> Nat],
           NEW uses \in [Nodes -> 0 .. Flags - 1], LinkedAs(place, rank, len, uses)
    PROVE TakesAll
  <1> HIDE DEF Values, Up
  <1>1. PICK P \in [Nodes -> Places], R \in [Nodes -> Nat], L \in [Classes -> Nat],
             U \in [Nodes -> 0 .. Flags - 1] :
             /\ LinkedAs(P, R, L, U)'
             /\ R = rank /\ U = uses /\ TakenAll(place, len, P, L)
    BY HandleCasLinked
  <1>2. /\ Waiting = Values(Up("requested", place, rank, len), request, <<>>)
        /\ Batch = Values(Up("taken", place, rank, len), request, temp)
    BY ValuesAre DEF TempFits
  <1>3. /\ Waiting' = Values(Up("requested", P, R, L), request', <<>>)
        /\ Batch' = Values(Up("taken", P, R, L), request', temp')
    BY <1>1, ValuesNext DEF TempFits
  <1>4. /\ Up("taken", place, rank, len) = <<>>
        /\ Up("taken", P, R, L) = Up("requested", place, rank, len)
        /\ Up("requested", P, R, L) = <<>>
    <2>1. Listing(place, rank, len)
      BY DEF LinkedAs, Listing
    <2>2. R = rank /\ Listing(P, rank, L) /\ TakenAll(place, len, P, L)
      BY <1>1 DEF LinkedAs, Listing, Ranked
    <2>3. /\ Up("taken", place, rank, len) = <<>>
          /\ Up("taken", P, rank, L) = Up("requested", place, rank, len)
          /\ Up("requested", P, rank, L) = <<>>
      BY <2>1, <2>2, TakeAllUps
    <2> QED
      BY <2>2, <2>3, Zenon
  <1>5. request' = request /\ temp' = temp /\ ran' = ran /\ temp = <<>>
    BY DEF HandleCas, counts, TempFits, Handled
  <1> QED
    BY <1>2, <1>3, <1>4, <1>5, ValuesNone DEF TakesAll

LEMMA RunValues ==
    ASSUME QueueType, QueueType', TempFits, TempFits', Run,
           NEW place \in [Nodes -> Places], NEW rank \in [Nodes -> Nat], NEW len \in [Classes -> Nat],
           NEW uses \in [Nodes -> 0 .. Flags - 1], LinkedAs(place, rank, len, uses)
    PROVE Executes
  <1> HIDE DEF Values, Up
  <1>1. LinkedAs(place, rank, len, uses)'
    BY HandlerFrame
  <1>2. /\ Waiting = Values(Up("requested", place, rank, len), request, <<>>)
        /\ Batch = Values(Up("taken", place, rank, len), request, temp)
    BY ValuesAre DEF TempFits
  <1>3. /\ Waiting' = Values(Up("requested", place, rank, len), request', <<>>)
        /\ Batch' = Values(Up("taken", place, rank, len), request', temp')
    BY <1>1, ValuesNext DEF TempFits
  <1>4. Up("taken", place, rank, len) = <<>>
    <2>1. BatchHead = own[Handler] /\ own[Handler].index = None
      BY DEF Run, BatchHead
    <2>2. Points(own[Handler], "taken", len["taken"], place, rank, uses)
      BY <2>1 DEF LinkedAs, HeadsPoint, HeadOf, Classes
    <2>3. len["taken"] = 0
      BY <2>1, <2>2, PointsNowhere
    <2>4. "taken" \in Classes /\ Ranked(place, rank, len)
      BY DEF Classes, LinkedAs
    <2>5. ListsAll(Up("taken", place, rank, len), "taken", place, rank, 0)
      BY <2>3, <2>4, UpIs
    <2> QED
      BY <2>5, EmptySeq DEF ListsAll
  <1>5. /\ request' = request /\ temp # <<>> /\ temp' = SubSeq(temp, 1, Len(temp) - 1)
        /\ ran' = Put(ran, temp[Len(temp)][1], temp[Len(temp)][2])
    BY DEF Run
  <1>6. /\ Values(<<>>, request, temp) # <<>>
        /\ Head(Values(<<>>, request, temp)) = temp[Len(temp)]
        /\ Values(<<>>, request, SubSeq(temp, 1, Len(temp) - 1)) = Tail(Values(<<>>, request, temp))
    <2>1. PICK q, t : q = request /\ t = temp
      OBVIOUS
    <2>2. q \in [Nodes -> Item] /\ t \in Seq(Item) /\ t # <<>>
      BY <1>5, <2>1 DEF QueueType, TempFits
    <2>3. /\ Values(<<>>, q, t) # <<>>
          /\ Head(Values(<<>>, q, t)) = t[Len(t)]
          /\ Values(<<>>, q, SubSeq(t, 1, Len(t) - 1)) = Tail(Values(<<>>, q, t))
      BY <2>2, ValuesRun
    <2> QED
      BY <2>1, <2>3
  <1>7. Batch = Values(<<>>, request, temp)
    BY <1>2, <1>4
  <1>8. Batch' = Tail(Batch)
    BY <1>3, <1>4, <1>5, <1>6, <1>7
  <1>9. Batch # <<>> /\ Head(Batch) = temp[Len(temp)]
    BY <1>6, <1>7
  <1>10. Waiting' = Waiting
    BY <1>2, <1>3, <1>5
  <1> QED
    BY <1>5, <1>8, <1>9, <1>10 DEF Executes

\* What a step does to the queue as its callers see it.
LEMMA Effects ==
    ASSUME QueueType, QueueType', TempFits, TempFits', Linked, NoFlagWraps', [Next]_vars
    PROVE \/ UNCHANGED <<Waiting, Batch, ran>>
          \/ \E p \in Producers : Publishes(p)
          \/ TakesAll \/ Executes
  <1>1. PICK place \in [Nodes -> Places], rank \in [Nodes -> Nat], len \in [Classes -> Nat],
             uses \in [Nodes -> 0 .. Flags - 1] : LinkedAs(place, rank, len, uses)
    BY DEF Linked
  <1>2. ASSUME LinkedAs(place, rank, len, uses)', UNCHANGED <<request, temp, ran>>
        PROVE UNCHANGED <<Waiting, Batch, ran>>
    <2>1. UNCHANGED <<Waiting, Batch>>
      BY <1>1, <1>2, SameLists
    <2> QED
      BY <1>2, <2>1
  <1>3. CASE OnlyMoves
    <2>1. LinkedAs(place, rank, len, uses)'
      BY <1>1, <1>3, OnlyMovesLinked
    <2>2. UNCHANGED <<request, temp, ran>>
      BY <1>3 DEF OnlyMoves, lists, counts
    <2> QED
      BY <1>2, <2>1, <2>2
  <1>4. ASSUME NEW t \in Threads, PutLink(t)
        PROVE UNCHANGED <<Waiting, Batch, ran>>
    <2>1. LinkedAs(place, rank, len, uses)'
      BY <1>1, <1>4, PutLinkLinked
    <2>2. UNCHANGED <<request, temp, ran>>
      BY <1>4 DEF PutLink, counts
    <2> QED
      BY <1>2, <2>1, <2>2
  <1>5. ASSUME NEW p \in Producers, Push(p) \/ Producer(p)
        PROVE UNCHANGED <<Waiting, Batch, ran>> \/ Publishes(p)
    <2>0. p \in Threads
      BY Basics
    <2>1. CASE \/ Push(p) \/ Full(p) \/ GetLoad(p) \/ GetNext(p) \/ GetAgain(p)
               \/ PutLoad(p) \/ PutAgain(p)
      <3>1. LinkedAs(place, rank, len, uses)'
        BY <1>1, <2>1, ProducerFrame
      <3>2. UNCHANGED <<request, temp, ran>>
        BY <2>1 DEF Push, Full, GetLoad, GetNext, GetAgain, PutLoad, PutAgain, lists, counts
      <3> QED
        BY <1>2, <3>1, <3>2
    <2>2. CASE GetCas(p)
      <3>1. UNCHANGED <<Waiting, Batch>>
        BY <1>1, <2>2, GetCasValues
      <3>2. ran' = ran
        BY <2>2 DEF GetCas, counts
      <3> QED
        BY <3>1, <3>2
    <2>3. CASE PutRequest(p)
      <3>1. Publishes(p)
        BY <1>1, <2>3, PutRequestValues
      <3> QED
        BY <3>1
    <2> QED
      BY <1>4, <1>5, <2>0, <2>1, <2>2, <2>3 DEF Producer
  <1>6. CASE Handling
    <2>1. CASE HandleLoad \/ HandleAgain \/ PutLoad(Handler) \/ PutAgain(Handler)
      <3>1. LinkedAs(place, rank, len, uses)'
        BY <1>1, <2>1, HandlerFrame
      <3>2. UNCHANGED <<request, temp, ran>>
        BY <2>1 DEF HandleLoad, HandleAgain, PutLoad, PutAgain, lists, counts
      <3> QED
        BY <1>2, <3>1, <3>2
    <2>2. CASE RunEnd
      <3>1. LinkedAs(place, rank, len, uses)'
        BY <1>1, <2>2, RunEndLinked
      <3>2. UNCHANGED <<request, temp, ran>>
        BY <2>2 DEF RunEnd, lists, counts
      <3> QED
        BY <1>2, <3>1, <3>2
    <2>3. CASE HandleCas
      <3>1. TakesAll
        BY <1>1, <2>3, HandleCasValues
      <3> QED
        BY <3>1
    <2>4. CASE Walk \/ GiveBack
      <3>1. UNCHANGED <<Waiting, Batch>>
        BY <1>1, <2>4, WalkValues, GiveBackValues
      <3>2. ran' = ran
        BY <2>4 DEF Walk, GiveBack, counts
      <3> QED
        BY <3>1, <3>2
    <2>5. CASE Run
      <3>1. Executes
        BY <1>1, <2>5, RunValues
      <3> QED
        BY <3>1
    <2>6. Handler \in Threads
      BY Basics
    <2> QED
      BY <1>4, <1>6, <2>1, <2>2, <2>3, <2>4, <2>5, <2>6 DEF Handling
  <1> QED
    BY <1>3, <1>5, <1>6, StepOnQueue

-----------------------------------------------------------------------------
(* The requests of one thread are published in the order of its calls.      *)

InCall == \A p \in Producers : qpc[p] \notin {"idle", "returned"} => pushed[p] > 0

\* The node a producer holds has the request of its call.
HeldRequests ==
    \A p \in Producers : qpc[p] \in Handled => request[own[p].index] = <<p, pushed[p]>>

\* The number of the last call whose request is published or dropped.
Published ==
    [p \in Producers |-> IF qpc[p] \in {"idle", "returned"} THEN pushed[p] ELSE pushed[p] - 1]

LEMMA PublishedStep ==
    ASSUME QueueType, InCall, [Next]_vars
    PROVE /\ InCall'
          /\ Published \in [Producers -> Nat] /\ Published' \in [Producers -> Nat]
          /\ \A p \in Producers : Published[p] <= Published'[p]
          /\ \A p \in Producers : PutRequest(p) =>
                Published'[p] = pushed[p] /\ Published[p] < Published'[p]
  <1>0. \A p \in Producers : p \in Threads /\ p # Handler /\ pushed[p] \in Nat
    BY Basics DEF QueueType
  <1>1. ASSUME NEW p \in Producers
        PROVE \/ pushed'[p] = pushed[p] /\ qpc'[p] = qpc[p]
              \/ pushed'[p] = pushed[p] /\ qpc[p] = "returned" /\ qpc'[p] = "idle"
              \/ pushed'[p] = pushed[p] + 1 /\ qpc[p] = "idle" /\ qpc'[p] = "get"
              \/ pushed'[p] = pushed[p] /\ qpc[p] \notin {"idle", "returned"} /\ qpc'[p] # "idle"
    <2>1. CASE OnlyMoves
      BY <1>0, <2>1 DEF OnlyMoves, counts
    <2>2. ASSUME NEW q \in Producers, Push(q)
          PROVE \/ pushed'[p] = pushed[p] /\ qpc'[p] = qpc[p]
                \/ pushed'[p] = pushed[p] + 1 /\ qpc[p] = "idle" /\ qpc'[p] = "get"
      BY <1>0, <2>2 DEF Push, Goto, Put, QueueType
    <2>3. ASSUME NEW q \in Producers, Producer(q)
          PROVE \/ pushed'[p] = pushed[p] /\ qpc'[p] = qpc[p]
                \/ pushed'[p] = pushed[p] /\ qpc[p] \notin {"idle", "returned"} /\ qpc'[p] # "idle"
      BY <1>0, <2>3 DEF Producer, Full, GetLoad, GetNext, GetCas, GetAgain, PutLoad, PutLink, PutAgain,
                  PutRequest, Goto, QueueType, counts
    <2>4. CASE Handling
      BY <1>0, <2>4 DEF Handling, HandleLoad, HandleCas, HandleAgain, Walk, PutLoad, PutLink, PutAgain,
                  GiveBack, Run, RunEnd, Goto, QueueType, counts
    <2> QED
      BY <2>1, <2>2, <2>3, <2>4, StepOnQueue
  <1>2. InCall'
    BY <1>0, <1>1 DEF InCall
  <1>3. ASSUME NEW p \in Producers
        PROVE /\ Published[p] \in Nat /\ Published'[p] \in Nat /\ Published[p] <= Published'[p]
    BY <1>0, <1>1, <1>2 DEF InCall, Published
  <1>4. ASSUME NEW p \in Producers, PutRequest(p)
        PROVE Published'[p] = pushed[p] /\ Published[p] < Published'[p]
    <2>1. qpc[p] = "putcas" /\ qpc'[p] = "returned" /\ pushed' = pushed
      BY <1>0, <1>4 DEF PutRequest, Goto, QueueType, counts
    <2> QED
      BY <1>0, <2>1 DEF Published
  <1>5. Published \in [Producers -> Nat] /\ Published' \in [Producers -> Nat]
    BY <1>3 DEF Published
  <1> QED
    BY <1>2, <1>3, <1>4, <1>5

\* The steps that write a request write it to a node the others do not hold.
LEMMA HeldStep ==
    ASSUME QueueType, Linked, HeldRequests, NoFlagWraps', [Next]_vars
    PROVE HeldRequests'
  <1>0. Handler \in Threads /\ \A p \in Producers : p \in Threads /\ p # Handler
    BY Basics
  <1>1. PICK place \in [Nodes -> Places], rank \in [Nodes -> Nat], len \in [Classes -> Nat],
             uses \in [Nodes -> 0 .. Flags - 1] : LinkedAs(place, rank, len, uses)
    BY DEF Linked
  <1>2. ASSUME NEW p \in Producers, qpc[p] \in Handled
        PROVE own[p].index \in Nodes /\ place[own[p].index] = "held"
    <2>1. p \in Holders
      BY <1>0, <1>2, HoldersAre
    <2>2. PICK i \in Nodes : place[i] = "held" /\ own[p] = NameOf(i, uses)
      BY <1>1, <2>1 DEF LinkedAs, HeldByOne
    <2> QED
      BY <2>2 DEF NameOf
  <1>3. ASSUME \A p \in Producers : qpc'[p] \in Handled =>
                  /\ qpc[p] \in Handled /\ own'[p] = own[p] /\ pushed'[p] = pushed[p]
                  /\ request'[own[p].index] = request[own[p].index]
        PROVE HeldRequests'
    <2>1. ASSUME NEW p \in Producers, qpc'[p] \in Handled
          PROVE  request'[own'[p].index] = <<p, pushed'[p]>>
      <3>1. /\ qpc[p] \in Handled /\ own'[p] = own[p] /\ pushed'[p] = pushed[p]
            /\ request'[own[p].index] = request[own[p].index]
        BY <1>3, <2>1, Zenon
      <3>2. request[own[p].index] = <<p, pushed[p]>>
        BY <3>1, Zenon DEF HeldRequests
      <3> QED
        BY <3>1, <3>2, Zenon
    <2> QED
      BY <2>1, Zenon DEF HeldRequests
  <1>4. CASE OnlyMoves
    <2>1. ASSUME NEW p \in Producers, qpc'[p] \in Handled
          PROVE  /\ qpc[p] \in Handled /\ own'[p] = own[p] /\ pushed'[p] = pushed[p]
                 /\ request'[own[p].index] = request[own[p].index]
      BY <1>0, <1>4, <2>1 DEF OnlyMoves, lists, regs, counts, Handled
    <2>2. \A p \in Producers : qpc'[p] \in Handled =>
              /\ qpc[p] \in Handled /\ own'[p] = own[p] /\ pushed'[p] = pushed[p]
              /\ request'[own[p].index] = request[own[p].index]
      BY <2>1
    <2> QED
      BY <1>3, <2>2
  <1>5. ASSUME NEW p \in Producers, GetCas(p)
        PROVE HeldRequests'
    <2> DEFINE me == seen[p].index
    <2>1. me \in Nodes /\ place[me] = "free"
      <3>1. PICK P \in [Nodes -> Places], R \in [Nodes -> Nat], L \in [Classes -> Nat],
                 U \in [Nodes -> 0 .. Flags - 1] :
                 R = rank /\ Popped(place, rank, len, uses, "free", me, P, L, U)
        BY <1>1, <1>5, GetCasLinked
      <3> QED
        BY <3>1 DEF Popped
    <2>2. /\ qpc'[p] = "putload" /\ pushed' = pushed
          /\ \A q \in Producers \ {p} : qpc'[q] = qpc[q] /\ own'[q] = own[q]
          /\ own'[p] = IncRequsetIndex(seen[p])
          /\ request'[me] = <<p, pushed[p]>> /\ \A i \in Nodes \ {me} : request'[i] = request[i]
      BY <1>0, <1>5, <2>1 DEF GetCas, Goto, Put, counts, QueueType
    <2>3. own'[p].index = me
      BY <1>0, <2>2, WordType DEF QueueType
    <2>4. ASSUME NEW q \in Producers, q # p, qpc'[q] \in Handled
          PROVE request'[own'[q].index] = <<q, pushed'[q]>>
      <3>1. qpc[q] \in Handled /\ own'[q] = own[q]
        BY <2>2, <2>4
      <3>2. own[q].index \in Nodes \ {me}
        BY <1>2, <2>1, <3>1
      <3> QED
        BY <2>2, <3>1, <3>2 DEF HeldRequests
    <2> QED
      BY <2>2, <2>3, <2>4 DEF HeldRequests
  <1>6. ASSUME NEW p \in Producers, Push(p) \/ Producer(p), ~GetCas(p)
        PROVE HeldRequests'
    <2>1. request' = request
      BY <1>6 DEF Push, Producer, Full, GetLoad, GetNext, GetAgain, PutLoad, PutLink, PutAgain,
                  PutRequest, lists
    <2>2. \A q \in Producers \ {p} : qpc'[q] = qpc[q] /\ own'[q] = own[q] /\ pushed'[q] = pushed[q]
      BY <1>0, <1>6 DEF Push, Producer, Full, GetLoad, GetNext, GetAgain, PutLoad, PutLink, PutAgain,
                  PutRequest, Goto, Put, Clear, QueueType, regs, counts
    <2>3. qpc'[p] \in Handled => qpc[p] \in Handled /\ own'[p] = own[p] /\ pushed'[p] = pushed[p]
      BY <1>0, <1>6 DEF Push, Producer, Full, GetLoad, GetNext, GetAgain, PutLoad, PutLink, PutAgain,
                  PutRequest, Goto, QueueType, regs, counts, Handled
    <2> QED
      BY <1>3, <2>1, <2>2, <2>3
  <1>7. CASE Handling
    <2>1. \A q \in Producers : qpc'[q] = qpc[q] /\ own'[q] = own[q] /\ pushed'[q] = pushed[q]
      BY <1>0, <1>7 DEF Handling, HandleLoad, HandleCas, HandleAgain, Walk, PutLoad, PutLink, PutAgain,
                  GiveBack, Run, RunEnd, Goto, Put, Clear, QueueType, regs, counts
    <2>2. CASE Walk
      <3> DEFINE me == own[Handler].index
      <3>1. me \in Nodes /\ place[me] = "taken"
        <4>1. PICK P \in [Nodes -> Places], R \in [Nodes -> Nat], L \in [Classes -> Nat],
                   U \in [Nodes -> 0 .. Flags - 1] :
                   Popped(place, rank, len, uses, "taken", me, P, L, uses)
          BY <1>1, <2>2, WalkLinked
        <4> QED
          BY <4>1 DEF Popped
      <3>2. \A i \in Nodes \ {me} : request'[i] = request[i]
        BY <2>2, <3>1 DEF Walk, Put, QueueType
      <3>3. \A q \in Producers : qpc[q] \in Handled => own[q].index \in Nodes \ {me}
        BY <1>2, <3>1
      <3> QED
        BY <1>3, <2>1, <3>2, <3>3
    <2>3. CASE ~Walk
      <3>1. request' = request
        BY <1>7, <2>3 DEF Handling, HandleLoad, HandleCas, HandleAgain, PutLoad, PutLink, PutAgain,
                  GiveBack, Run, RunEnd, lists
      <3> QED
        BY <1>3, <2>1, <3>1
    <2> QED
      BY <2>2, <2>3
  <1> QED
    BY <1>4, <1>5, <1>6, <1>7, StepOnQueue

\* The n-th request of a producer, for some n.
Request == Producers \X (Nat \ {0})

UpTo(s, n) == s \in Seq(Request) /\ \A k \in 1 .. Len(s) : s[k][2] <= n[s[k][1]]

\* Nothing in the queue, and nothing that has been executed, is beyond what has
\* been published.
Counted(w, b, r, n) ==
    /\ UpTo(w, n) /\ UpTo(b, n)
    /\ r \in [Producers -> Nat] /\ n \in [Producers -> Nat]
    /\ \A p \in Producers : r[p] <= n[p]

LEMMA CountedMore ==
    ASSUME NEW w, NEW b, NEW r, NEW n, Counted(w, b, r, n),
           NEW m \in [Producers -> Nat], \A p \in Producers : n[p] <= m[p]
    PROVE Counted(w, b, r, m)
  <1>1. ASSUME NEW s \in Seq(Request), NEW k \in 1 .. Len(s), s[k][2] <= n[s[k][1]]
        PROVE s[k][2] <= m[s[k][1]]
    <2>1. s[k] \in Request
      OBVIOUS
    <2>2. s[k][2] \in Nat /\ s[k][1] \in Producers
      BY <2>1 DEF Request
    <2> QED
      BY <1>1, <2>2 DEF Counted
  <1>2. UpTo(w, m) /\ UpTo(b, m)
    BY <1>1 DEF Counted, UpTo
  <1>3. \A p \in Producers : r[p] <= m[p]
    BY DEF Counted
  <1> QED
    BY <1>2, <1>3 DEF Counted

LEMMA CountedPublish ==
    ASSUME NEW w, NEW b, NEW r, NEW n, Counted(w, b, r, n),
           NEW m \in [Producers -> Nat], \A q \in Producers : n[q] <= m[q],
           NEW p \in Producers, n[p] < m[p]
    PROVE /\ Counted(Append(w, <<p, m[p]>>), b, r, m)
          /\ <<p, m[p]>> \in Request /\ r[p] < m[p]
          /\ \A i \in 1 .. Len(b \o w) : (b \o w)[i][1] = p => (b \o w)[i][2] < m[p]
          /\ Append(w, <<p, m[p]>>) # <<>>
          /\ Append(w, <<p, m[p]>>)[Len(Append(w, <<p, m[p]>>))] = <<p, m[p]>>
  <1> DEFINE a == Append(w, <<p, m[p]>>)
  <1>0. n[p] \in Nat /\ m[p] \in Nat /\ r[p] \in Nat /\ r[p] <= n[p] /\ w \in Seq(Request) /\ b \in Seq(Request)
    BY DEF Counted, UpTo
  <1>1. <<p, m[p]>> \in Request /\ r[p] < m[p]
    BY <1>0 DEF Request
  <1>2. /\ a \in Seq(Request) /\ Len(a) = Len(w) + 1 /\ a[Len(w) + 1] = <<p, m[p]>>
        /\ \A k \in 1 .. Len(w) : a[k] = w[k]
        /\ Len(w) \in Nat
    BY <1>0, <1>1, AppendProperties
  <1> HIDE DEF a
  <1>3. a # <<>> /\ a[Len(a)] = <<p, m[p]>>
    BY <1>2, EmptySeq
  <1>4. Counted(w, b, r, m)
    BY CountedMore
  <1>5. UpTo(a, m)
    <2>1. ASSUME NEW k \in 1 .. Len(a) PROVE a[k][2] <= m[a[k][1]]
      <3>1. CASE k = Len(w) + 1
        BY <1>0, <1>2, <3>1
      <3>2. CASE k # Len(w) + 1
        <4>1. k \in 1 .. Len(w)
          BY <1>2, <3>2
        <4> QED
          BY <1>2, <1>4, <4>1 DEF Counted, UpTo
      <3> QED
        BY <3>1, <3>2
    <2> QED
      BY <1>2, <2>1 DEF UpTo
  <1>6. ASSUME NEW i \in 1 .. Len(b \o w), (b \o w)[i][1] = p
        PROVE (b \o w)[i][2] < m[p]
    <2>1. /\ Len(b \o w) = Len(b) + Len(w)
          /\ (b \o w)[i] = IF i <= Len(b) THEN b[i] ELSE w[i - Len(b)]
      BY <1>0, ConcatProperties
    <2>2. Len(b) \in Nat /\ Len(w) \in Nat
      BY <1>0
    <2>3. \/ \E k \in 1 .. Len(b) : (b \o w)[i] = b[k]
          \/ \E k \in 1 .. Len(w) : (b \o w)[i] = w[k]
      <3>1. CASE i <= Len(b)
        <4>1. i \in 1 .. Len(b)
          BY <2>1, <2>2, <3>1
        <4> QED
          BY <2>1, <3>1, <4>1
      <3>2. CASE ~(i <= Len(b))
        <4>1. i - Len(b) \in 1 .. Len(w)
          BY <2>1, <2>2, <3>2
        <4> QED
          BY <2>1, <3>2, <4>1
      <3> QED
        BY <3>1, <3>2
    <2>4. (b \o w)[i] \in Request /\ (b \o w)[i][2] <= n[p]
      BY <1>0, <1>6, <2>3 DEF Counted, UpTo
    <2>5. (b \o w)[i][2] \in Nat
      BY <2>4 DEF Request
    <2> QED
      BY <1>0, <2>4, <2>5
  <1>7. Counted(a, b, r, m)
    BY <1>4, <1>5 DEF Counted
  <1> QED
    BY <1>1, <1>3, <1>6, <1>7 DEF a

LEMMA CountedExecute ==
    ASSUME NEW w, NEW b, NEW r, NEW n, Counted(w, b, r, n), b # <<>>
    PROVE Counted(w, Tail(b), [r EXCEPT ![Head(b)[1]] = Head(b)[2]], n)
  <1>0. b \in Seq(Request) /\ Len(b) \in Nat /\ Len(b) > 0
    BY EmptySeq DEF Counted, UpTo
  <1>1. /\ Head(b) = b[1] /\ Tail(b) \in Seq(Request) /\ Len(Tail(b)) = Len(b) - 1
        /\ \A k \in 1 .. Len(b) - 1 : Tail(b)[k] = b[k + 1]
    BY <1>0, HeadTailProperties
  <1>2. 1 \in 1 .. Len(b) /\ \A k \in 1 .. Len(b) - 1 : k + 1 \in 1 .. Len(b)
    BY <1>0
  <1>3. UpTo(Tail(b), n)
    BY <1>1, <1>2 DEF Counted, UpTo
  <1>4. b[1] \in Request
    BY <1>0, <1>2
  <1>5. b[1][1] \in Producers /\ b[1][2] \in Nat /\ b[1][2] <= n[b[1][1]]
    BY <1>2, <1>4 DEF Request, Counted, UpTo
  <1> QED
    BY <1>1, <1>3, <1>5 DEF Counted

Orderly == Counted(Waiting, Batch, ran, Published)

LEMMA InitQueue ==
    Init => TempFits /\ InCall /\ HeldRequests /\ Orderly /\ Queue!Init
  <1> SUFFICES ASSUME Init PROVE TempFits /\ InCall /\ HeldRequests /\ Orderly /\ Queue!Init
    OBVIOUS
  <1>0. QueueType /\ Linked
    BY TypeInit, InitLinked
  <1>1. /\ requestHead = NoWord /\ temp = <<>> /\ ran = [p \in Producers |-> 0]
        /\ pushed = [p \in Producers |-> 0] /\ qpc = [t \in Threads |-> "idle"]
    BY DEF Init, QueueInit
  <1>2. TempFits /\ InCall /\ HeldRequests
    <2>1. qpc[Handler] = "idle" /\ \A p \in Producers : qpc[p] = "idle"
      BY <1>1, Basics
    <2>2. <<>> \in Seq(Item)
      OBVIOUS
    <2> QED
      BY <1>1, <2>1, <2>2 DEF TempFits, InCall, HeldRequests, Handled
  <1>3. PICK place \in [Nodes -> Places], rank \in [Nodes -> Nat], len \in [Classes -> Nat],
             uses \in [Nodes -> 0 .. Flags - 1] : LinkedAs(place, rank, len, uses)
    BY <1>0 DEF Linked
  <1>4. len["requested"] = 0 /\ len["taken"] = 0
    <2>1. BatchHead = NoWord
      BY <1>1, Basics DEF BatchHead, GivingBack
    <2>2. /\ Points(NoWord, "requested", len["requested"], place, rank, uses)
          /\ Points(NoWord, "taken", len["taken"], place, rank, uses)
      BY <1>1, <1>3, <2>1 DEF LinkedAs, HeadsPoint, HeadOf, Classes
    <2>3. NoWord.index = None
      BY DEF NoWord
    <2> QED
      BY <2>2, <2>3, PointsNowhere
  <1>5. Up("requested", place, rank, len) = <<>> /\ Up("taken", place, rank, len) = <<>>
    <2>1. {"requested", "taken"} \subseteq Classes /\ Ranked(place, rank, len)
      BY <1>3 DEF Classes, LinkedAs
    <2>2. \A c \in {"requested", "taken"} : ListsAll(Up(c, place, rank, len), c, place, rank, 0)
      BY <1>4, <2>1, UpIs
    <2> HIDE DEF Up
    <2> QED
      BY <2>2, EmptySeq DEF ListsAll
  <1>6. Waiting = <<>> /\ Batch = <<>>
    <2> HIDE DEF Values, Up
    <2>1. /\ Waiting = Values(Up("requested", place, rank, len), request, <<>>)
          /\ Batch = Values(Up("taken", place, rank, len), request, temp)
      BY <1>0, <1>2, <1>3, ValuesAre DEF TempFits
    <2> QED
      BY <1>1, <1>5, <2>1, ValuesNone
  <1>7. Orderly
    <2>1. Published = [p \in Producers |-> 0]
      BY <1>1, Basics DEF Published
    <2>2. UpTo(<<>>, Published)
      BY EmptySeq DEF UpTo
    <2> QED
      BY <1>1, <1>6, <2>1, <2>2 DEF Orderly, Counted
  <1> QED
    BY <1>1, <1>2, <1>6, <1>7 DEF Queue!Init

\* Every step is a step of RequestQueue, or a stutter.
LEMMA QueueStep ==
    ASSUME QueueType, QueueType', TempFits, TempFits', Linked, NoFlagWraps', [Next]_vars,
           InCall, HeldRequests, Orderly
    PROVE Orderly' /\ [Queue!Next]_(Queue!vars)
  <1>1. /\ Published \in [Producers -> Nat] /\ Published' \in [Producers -> Nat]
        /\ \A p \in Producers : Published[p] <= Published'[p]
        /\ \A p \in Producers : PutRequest(p) =>
              Published'[p] = pushed[p] /\ Published[p] < Published'[p]
    BY PublishedStep
  <1> HIDE DEF Published, Waiting, Batch
  <1>2. PICK w, b, r, n, w1, b1, r1, n1 :
           /\ w = Waiting /\ b = Batch /\ r = ran /\ n = Published
           /\ w1 = Waiting' /\ b1 = Batch' /\ r1 = ran' /\ n1 = Published'
    OBVIOUS
  <1>3. Counted(w, b, r, n) /\ n1 \in [Producers -> Nat] /\ \A p \in Producers : n[p] <= n1[p]
    BY <1>1, <1>2 DEF Orderly
  <1>4. Counted(w, b, r, n1)
    BY <1>3, CountedMore
  <1>5. Counted(w1, b1, r1, n1) => Orderly'
    BY <1>2 DEF Orderly
  <1>6. CASE UNCHANGED <<Waiting, Batch, ran>>
    BY <1>2, <1>4, <1>5, <1>6 DEF Queue!vars
  <1>7. ASSUME NEW p \in Producers, Publishes(p)
        PROVE Orderly' /\ Queue!Next
    <2>1. n[p] < n1[p] /\ n1[p] = pushed[p]
      BY <1>1, <1>2, <1>7 DEF Publishes
    <2>2. request[own[p].index] = <<p, n1[p]>>
      BY <1>7, <2>1 DEF Publishes, PutRequest, HeldRequests, Handled
    <2>3. w1 = Append(w, <<p, n1[p]>>) /\ b1 = b /\ r1 = r
      BY <1>2, <1>7, <2>2 DEF Publishes
    <2>4. /\ Counted(w1, b, r, n1)
          /\ <<p, n1[p]>> \in Request /\ r[p] < n1[p]
          /\ \A i \in 1 .. Len(b \o w) : (b \o w)[i][1] = p => (b \o w)[i][2] < n1[p]
          /\ w1 # <<>> /\ w1[Len(w1)] = <<p, n1[p]>>
      BY <1>3, <2>1, <2>3, CountedPublish
    <2>5. n1[p] \in Nat /\ r[p] \in Nat
      BY <1>3 DEF Counted
    <2>6. Queue!Publish(<<p, n1[p]>>)
      BY <1>2, <2>3, <2>4, <2>5 DEF Queue!Publish
    <2>7. Queue!IsRequest(<<p, n1[p]>>)
      BY <2>4 DEF Request, Queue!IsRequest
    <2>8. Waiting' # <<>> /\ Waiting'[Len(Waiting')] = <<p, n1[p]>>
      BY <1>2, <2>4
    <2> QED
      BY <1>5, <2>3, <2>4, <2>6, <2>7, <2>8 DEF Queue!Next
  <1>8. CASE TakesAll
    <2>1. b = <<>> /\ b1 = w /\ w1 = <<>> /\ r1 = r
      BY <1>2, <1>8 DEF TakesAll
    <2>2. Counted(w1, b1, r1, n1)
      BY <1>4, <2>1 DEF Counted
    <2>3. Queue!TakeAll
      BY <1>8 DEF TakesAll, Queue!TakeAll
    <2> QED
      BY <1>5, <2>2, <2>3 DEF Queue!Next
  <1>9. CASE Executes
    <2>1. b # <<>> /\ b1 = Tail(b) /\ w1 = w /\ r1 = [r EXCEPT ![Head(b)[1]] = Head(b)[2]]
      BY <1>2, <1>9 DEF Executes, Put
    <2>2. Counted(w1, b1, r1, n1)
      BY <1>4, <2>1, CountedExecute
    <2>3. Queue!Execute
      BY <1>9 DEF Executes, Put, Queue!Execute
    <2> QED
      BY <1>5, <2>2, <2>3 DEF Queue!Next
  <1> QED
    BY <1>6, <1>7, <1>8, <1>9, Effects

\* The lock-free queue keeps the promises of RequestQueue until a flag comes back
\* to 0: what the two stacks, the batch and the vector of its requests do is to
\* publish one request, to take all, or to execute the oldest, and nothing overtakes.
THEOREM RequestQueueUntilWrap == Spec /\ []NoFlagWraps => QueueSpec
  <1> DEFINE Inv == QueueType /\ Linked /\ TempFits /\ InCall /\ HeldRequests /\ Orderly
  <1>1. Init => Inv /\ Queue!Init
    BY TypeInit, InitLinked, InitQueue
  <1>2. Inv /\ [Next]_vars /\ NoFlagWraps' => Inv' /\ [Queue!Next]_(Queue!vars)
    <2>1. SUFFICES ASSUME Inv, [Next]_vars, NoFlagWraps' PROVE Inv' /\ [Queue!Next]_(Queue!vars)
      OBVIOUS
    <2>2. QueueType' /\ Linked' /\ TempFits' /\ InCall' /\ HeldRequests'
      BY <2>1, TypeStep, LinkedStep, TempStep, PublishedStep, HeldStep
    <2> QED
      BY <2>1, <2>2, QueueStep
  <1> HIDE DEF Inv
  <1> QED
    BY <1>1, <1>2, PTL DEF Spec, QueueSpec, Queue!Spec

\* The same of any use of the queue with fewer requests than flags.
THEOREM ImplementsRequestQueue == ASSUME EnoughFlags PROVE Spec => QueueSpec
  BY FlagsNeverWrap, RequestQueueUntilWrap, PTL
=============================================================================
