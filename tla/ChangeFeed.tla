----------------------------- MODULE ChangeFeed -----------------------------
(***************************************************************************)
(* How a committed mutation reaches the screen: mutate() commits and emits *)
(* on the change bus of its server instance (services/mutate.ts, bus.ts),  *)
(* the relay carries the event to the other instances over Postgres        *)
(* LISTEN/NOTIFY (bus-relay.ts), an SSE stream carries it to the browser   *)
(* (routes/doc-events.ts), and every component of the page that shares the *)
(* stream refetches (ui useDocChangeStream.ts).                            *)
(*                                                                         *)
(* Events are triggers to refetch, so an event is the number of the        *)
(* mutation it announces and data is the number of the last mutation it    *)
(* shows.  One document scope and one browser page, whose components come  *)
(* and go with it: the page fetches its document first and opens the       *)
(* document's stream once it knows the document (DocDocument.tsx).         *)
(***************************************************************************)
EXTENDS Naturals, SequencesExt

CONSTANTS
    Instance,   \* server instances
    Consumer,   \* the components that share the document's stream
    Page,       \* the one that is the page itself, the others are its children
    Faults,     \* what may go wrong besides dropped connections (see below)
    MaxWrites,  \* bound on mutations, the one before the start included
    MaxDrops,   \* bound on dropped connections, crashes and unmounts together
    MaxFetches  \* bound on a consumer's fetches in flight

(* "crash": an instance dies and boots again;                               *)
(* "notify_fails": a NOTIFY is not executed;                                *)
(* "overtaking": the answers of two fetches of a consumer arrive, or are    *)
(*     computed, out of order;                                              *)
(* "fetch_fails": a fetch ends in an error, which is logged and forgotten.  *)
ASSUME InstanceAssumption == Instance # {}
ASSUME PageAssumption == Page \in Consumer
ASSUME FaultsAssumption ==
    Faults \subseteq {"crash", "notify_fails", "overtaking", "fetch_fails"}
ASSUME BoundsAssumption == MaxWrites \in Nat \ {0} /\ MaxDrops \in Nat /\ MaxFetches \in Nat

VARIABLES
    rev,        \* the last mutation committed; the page loads after mutation 1
    emitting,   \* emitting[i]: committed at i, bus.emit still to run
    wire,       \* wire[i]: NOTIFYs i has sent off and Postgres not executed
    inbox,      \* inbox[i]: notifications on their way to i's LISTEN, <<origin, event>>
    listen,     \* listen[i]: the LISTEN connection itself
    status,     \* status[i]: what the relay's health() says of it
    heard,      \* heard[i][e]: times i's bus dispatched event e to its streams
    logged,     \* logged[e]: activity_log rows for event e
    conn,       \* the shared stream of the document
    since,      \* history: rev when that stream first had an attached listener
    sent,       \* the stream carries a doc_change not yet delivered
    mounted,    \* consumers on the page
    view,       \* view[k]: the data k shows
    due,        \* due[k]: k's debounce timer is running
    fetches,    \* fetches[k]: k's fetches in flight, oldest first: 0 or data
    drops       \* connections dropped, crashes and unmounts so far

serverVars == <<emitting, wire, inbox, listen, status, heard, logged>>
pageVars == <<conn, since, sent, mounted, view, due, fetches>>
vars == <<rev, serverVars, pageVars, drops>>

Event == 2 .. MaxWrites
NoConn == [state |-> "none", at |-> CHOOSE i \in Instance : TRUE, ever |-> FALSE]

-----------------------------------------------------------------------------
(* The bus *)

(* dispatch: the listeners of instance i are the stream, when it is         *)
(* attached there, and the activity sink, for local events only.            *)
StreamHears(i) == sent' = (sent \/ (conn.state = "live" /\ conn.at = i))

Dispatch(i, e) == /\ heard' = [heard EXCEPT ![i][e] = @ + 1]
                  /\ StreamHears(i)

(* mutate: the write commits; if it throws nothing is emitted. *)
Commit(i) ==
    /\ rev < MaxWrites
    /\ rev' = rev + 1
    /\ emitting' = [emitting EXCEPT ![i] = @ \cup {rev + 1}]
    /\ UNCHANGED <<wire, inbox, listen, status, heard, logged, pageVars, drops>>

(* bus.emit: dispatch to every listener, then hand the event to the relay,  *)
(* whose NOTIFY is fire-and-forget.                                         *)
Emit(i, e) ==
    /\ e \in emitting[i]
    /\ emitting' = [emitting EXCEPT ![i] = @ \ {e}]
    /\ Dispatch(i, e)
    /\ logged' = [logged EXCEPT ![e] = @ + 1]
    /\ wire' = [wire EXCEPT ![i] = @ \cup {e}]
    /\ UNCHANGED <<rev, inbox, listen, status, conn, since, mounted, view, due, fetches, drops>>

-----------------------------------------------------------------------------
(* The relay *)

(* Postgres executes a NOTIFY: every session listening at that moment, the  *)
(* sender's included, will receive it.                                      *)
Notify(i, e) ==
    /\ e \in wire[i]
    /\ wire' = [wire EXCEPT ![i] = @ \ {e}]
    /\ inbox' = [j \in Instance |->
                    IF listen[j] = "up" THEN inbox[j] \cup {<<i, e>>} ELSE inbox[j]]
    /\ UNCHANGED <<rev, emitting, listen, status, heard, logged, pageVars, drops>>

(* publish(): the rejection is counted and swallowed. *)
NotifyFails(i, e) ==
    /\ "notify_fails" \in Faults
    /\ e \in wire[i]
    /\ wire' = [wire EXCEPT ![i] = @ \ {e}]
    /\ UNCHANGED <<rev, emitting, inbox, listen, status, heard, logged, pageVars, drops>>

(* Mutant: the activity sink hears relayed events too. *)
OnNotifyPersists(j, m) ==
    /\ m \in inbox[j]
    /\ inbox' = [inbox EXCEPT ![j] = @ \ {m}]
    /\ IF m[1] = j THEN UNCHANGED <<heard, logged, sent>>
       ELSE Dispatch(j, m[2]) /\ logged' = [logged EXCEPT ![m[2]] = @ + 1]
    /\ UNCHANGED <<rev, emitting, wire, listen, status, conn, since, mounted, view,
                   due, fetches, drops>>

(* onNotify: an event of our own is skipped, a foreign one dispatched to    *)
(* the local listeners and not published again (emitRelayed).               *)
OnNotify(j, m) ==
    /\ m \in inbox[j]
    /\ inbox' = [inbox EXCEPT ![j] = @ \ {m}]
    /\ IF m[1] = j THEN UNCHANGED <<heard, sent>> ELSE Dispatch(j, m[2])
    /\ UNCHANGED <<rev, emitting, wire, listen, status, logged, conn, since, mounted, view,
                   due, fetches, drops>>

(* markEstablished(true): the reconnect nudge reaches every stream. *)
Nudge(i) == StreamHears(i)

(* The first LISTEN is established: no nudge.  Only from here on does a     *)
(* stream that attached before it hear of the other instances.              *)
ListenFirst(i) ==
    /\ listen[i] = "booting"
    /\ listen' = [listen EXCEPT ![i] = "up"]
    /\ status' = [status EXCEPT ![i] = "listening"]
    /\ since' = IF conn.state = "live" /\ conn.at = i THEN rev ELSE since
    /\ UNCHANGED <<rev, emitting, wire, inbox, heard, logged, conn, sent, mounted, view,
                   due, fetches, drops>>

(* The first LISTEN is rejected: the driver goes on trying by itself. *)
ListenRejected(i) ==
    /\ listen[i] = "booting"
    /\ drops < MaxDrops
    /\ listen' = [listen EXCEPT ![i] = "rejected"]
    /\ drops' = drops + 1
    /\ UNCHANGED <<rev, emitting, wire, inbox, status, heard, logged, pageVars>>

(* postgres-js reports no drop: the status still says listening. *)
ListenDrops(i) ==
    /\ listen[i] = "up"
    /\ drops < MaxDrops
    /\ listen' = [listen EXCEPT ![i] = "down"]
    /\ inbox' = [inbox EXCEPT ![i] = {}]
    /\ drops' = drops + 1
    /\ UNCHANGED <<rev, emitting, wire, status, heard, logged, pageVars>>

(* Mutant: only a repeated onlisten is a reconnect. *)
IsReconnectRepeated(i) == listen[i] = "down"

(* bridgePgListen: a repeated onlisten, or the first one after a rejected   *)
(* listen(), is a reconnect.                                                *)
IsReconnect(i) == listen[i] = "down" \/ listen[i] = "rejected"

(* Mutant: the relay recovers without a nudge. *)
ListenRecoversSilently(i) ==
    /\ listen[i] \in {"down", "rejected"}
    /\ listen' = [listen EXCEPT ![i] = "up"]
    /\ status' = [status EXCEPT ![i] = "listening"]
    /\ UNCHANGED <<rev, emitting, wire, inbox, heard, logged, pageVars, drops>>

(* The driver listens again; the relay marks it established and nudges.     *)
ListenRecovers(i) ==
    /\ listen[i] \in {"down", "rejected"}
    /\ listen' = [listen EXCEPT ![i] = "up"]
    /\ IF IsReconnect(i)
       THEN status' = [status EXCEPT ![i] = "listening"] /\ Nudge(i)
       ELSE UNCHANGED <<status, sent>>
    /\ UNCHANGED <<rev, emitting, wire, inbox, heard, logged, conn, since, mounted, view,
                   due, fetches, drops>>

(* What was in the memory of the instance is gone. *)
Crash(i) ==
    /\ "crash" \in Faults
    /\ drops < MaxDrops
    /\ emitting' = [emitting EXCEPT ![i] = {}]
    /\ wire' = [wire EXCEPT ![i] = {}]
    /\ inbox' = [inbox EXCEPT ![i] = {}]
    /\ listen' = [listen EXCEPT ![i] = "booting"]
    /\ status' = [status EXCEPT ![i] = "connecting"]
    /\ drops' = drops + 1
    /\ IF conn.state = "live" /\ conn.at = i
       THEN conn' = [conn EXCEPT !.state = "down"] /\ sent' = FALSE
       ELSE UNCHANGED <<conn, sent>>
    /\ UNCHANGED <<rev, heard, logged, since, mounted, view, due, fetches>>

-----------------------------------------------------------------------------
(* The page *)

(* notify(): every subscriber restarts its debounce timer. *)
NotifySubscribers == due' = [k \in Consumer |-> due[k] \/ k \in mounted]

(* The page has its document, and with it the document's id. *)
Loaded == view[Page] # 0

(* A consumer mounts and fetches.  A child mounts once the page is loaded,  *)
(* and subscribes to the stream that is there by then.                      *)
Mount(k) ==
    /\ k \notin mounted
    /\ k = Page \/ Loaded
    /\ mounted' = mounted \cup {k}
    /\ fetches' = [fetches EXCEPT ![k] = <<0>>]
    /\ UNCHANGED <<rev, serverVars, conn, since, sent, view, due, drops>>

(* Until then the page hears the memex-wide stream: anything may happen in  *)
(* the memex and tell it to refetch.                                        *)
HearsAll ==
    /\ Page \in mounted
    /\ ~Loaded
    /\ due' = [due EXCEPT ![Page] = TRUE]
    /\ UNCHANGED <<rev, serverVars, conn, since, sent, mounted, view, fetches, drops>>

(* The page takes its children with it. *)
Leaving(k) == IF k = Page THEN mounted ELSE {k}

Unmounted(L) ==
    /\ mounted' = mounted \ L
    /\ view' = [k \in Consumer |-> IF k \in L THEN 0 ELSE view[k]]
    /\ due' = [k \in Consumer |-> due[k] /\ k \notin L]
    /\ fetches' = [k \in Consumer |-> IF k \in L THEN << >> ELSE fetches[k]]

(* Mutant: the last consumer leaves the stream open. *)
UnmountLeavesStream(k) ==
    /\ k \in mounted
    /\ drops < MaxDrops
    /\ Unmounted(Leaving(k))
    /\ drops' = drops + 1
    /\ UNCHANGED <<rev, serverVars, conn, since, sent>>

(* release(): the last consumer to leave aborts the stream. *)
Unmount(k) ==
    /\ k \in mounted
    /\ drops < MaxDrops
    /\ Unmounted(Leaving(k))
    /\ IF k = Page THEN conn' = NoConn /\ sent' = FALSE
       ELSE UNCHANGED <<conn, sent>>
    /\ drops' = drops + 1
    /\ UNCHANGED <<rev, serverVars, since>>

(* The stream connects, to any instance: the server has subscribed it to    *)
(* the bus by the time the browser sees the response.                       *)
Attach(i) ==
    /\ conn.state = "down"
    /\ conn' = [state |-> "live", at |-> i, ever |-> TRUE]
    /\ since' = IF conn.ever THEN since ELSE rev

(* Mutant: a reconnect does not refetch. *)
ConnectSilently(i) ==
    /\ Attach(i)
    /\ UNCHANGED <<rev, serverVars, sent, mounted, view, due, fetches, drops>>

(* Every time but the first the consumers are told to refetch. *)
Connect(i) ==
    /\ Attach(i)
    /\ IF conn.ever THEN NotifySubscribers ELSE UNCHANGED due
    /\ UNCHANGED <<rev, serverVars, sent, mounted, view, fetches, drops>>

(* The connection is lost, or the server closes it. *)
StreamDrops ==
    /\ conn.state = "live"
    /\ drops < MaxDrops
    /\ conn' = [conn EXCEPT !.state = "down"]
    /\ sent' = FALSE
    /\ drops' = drops + 1
    /\ UNCHANGED <<rev, serverVars, since, mounted, view, due, fetches>>

(* A doc_change reaches the browser. *)
Deliver ==
    /\ sent
    /\ sent' = FALSE
    /\ NotifySubscribers
    /\ UNCHANGED <<rev, serverVars, conn, since, mounted, view, fetches, drops>>

(* The debounce timer fires: onEvent refetches. *)
Refetch(k) ==
    /\ due[k]
    /\ Len(fetches[k]) < MaxFetches
    /\ due' = [due EXCEPT ![k] = FALSE]
    /\ fetches' = [fetches EXCEPT ![k] = Append(@, 0)]
    /\ UNCHANGED <<rev, serverVars, conn, since, sent, mounted, view, drops>>

(* Requests of a consumer are answered in the order they were sent, or not. *)
Turn(k, n) == n = 1 \/ "overtaking" \in Faults

(* The server answers the nth fetch in flight with what is committed. *)
Answer(k, n) ==
    /\ fetches[k][n] = 0
    /\ Turn(k, n)
    /\ fetches' = [fetches EXCEPT ![k][n] = rev]
    /\ UNCHANGED <<rev, serverVars, conn, since, sent, mounted, view, due, drops>>

(* The answer arrives and replaces what the consumer shows.  The first that *)
(* the page gets names the document: the effect leaves the memex-wide       *)
(* stream, drops the timer that stream may have started, and opens the      *)
(* stream of the document.                                                  *)
Show(k, n) ==
    /\ fetches[k][n] # 0
    /\ Turn(k, n)
    /\ view' = [view EXCEPT ![k] = fetches[k][n]]
    /\ fetches' = [fetches EXCEPT ![k] = RemoveAt(@, n)]
    /\ IF k = Page /\ ~Loaded
       THEN conn' = [NoConn EXCEPT !.state = "down"] /\ due' = [due EXCEPT ![Page] = FALSE]
       ELSE UNCHANGED <<conn, due>>
    /\ UNCHANGED <<rev, serverVars, since, sent, mounted, drops>>

(* The fetch fails: the consumer keeps what it shows. *)
FetchFails(k, n) ==
    /\ "fetch_fails" \in Faults
    /\ fetches' = [fetches EXCEPT ![k] = RemoveAt(@, n)]
    /\ UNCHANGED <<rev, serverVars, conn, since, sent, mounted, view, due, drops>>

-----------------------------------------------------------------------------
(* The page is empty and the servers are booting. *)
Init ==
    /\ rev = 1
    /\ emitting = [i \in Instance |-> {}]
    /\ wire = [i \in Instance |-> {}]
    /\ inbox = [i \in Instance |-> {}]
    /\ listen = [i \in Instance |-> "booting"]
    /\ status = [i \in Instance |-> "connecting"]
    /\ heard = [i \in Instance |-> [e \in Event |-> 0]]
    /\ logged = [e \in Event |-> 0]
    /\ conn = NoConn
    /\ since = 0
    /\ sent = FALSE
    /\ mounted = {}
    /\ view = [k \in Consumer |-> 0]
    /\ due = [k \in Consumer |-> FALSE]
    /\ fetches = [k \in Consumer |-> << >>]
    /\ drops = 0

ServerStep(i) ==
    \/ Commit(i)
    \/ ListenFirst(i) \/ ListenRejected(i) \/ ListenDrops(i) \/ ListenRecovers(i)
    \/ Crash(i)
    \/ \E e \in Event : Emit(i, e) \/ Notify(i, e) \/ NotifyFails(i, e)
    \/ \E m \in inbox[i] : OnNotify(i, m)

ConsumerStep(k) ==
    \/ Mount(k) \/ Unmount(k) \/ Refetch(k)
    \/ \E n \in DOMAIN fetches[k] : Answer(k, n) \/ Show(k, n) \/ FetchFails(k, n)

Next ==
    \/ \E i \in Instance : ServerStep(i) \/ Connect(i)
    \/ \E k \in Consumer : ConsumerStep(k)
    \/ StreamDrops \/ Deliver \/ HearsAll

Spec == Init /\ [][Next]_vars

(* What goes on by itself: the event loops of the instances, the driver's   *)
(* and the stream's own reconnect loops, the network while it is up, the    *)
(* debounce timer and the requests in flight.  Nobody has to write, to      *)
(* mount or to leave, and nothing has to fail.                              *)
Fairness ==
    /\ \A i \in Instance :
        /\ \A e \in Event : WF_vars(Emit(i, e)) /\ WF_vars(Notify(i, e))
        /\ WF_vars(\E m \in inbox[i] : OnNotify(i, m))
        /\ WF_vars(ListenFirst(i)) /\ WF_vars(ListenRecovers(i))
    /\ WF_vars(\E i \in Instance : Connect(i)) /\ WF_vars(Deliver)
    /\ \A k \in Consumer :
        /\ WF_vars(Refetch(k))
        /\ WF_vars(\E n \in DOMAIN fetches[k] : Answer(k, n) \/ Show(k, n))

FairSpec == Spec /\ Fairness

-----------------------------------------------------------------------------
(* Every variable holds values of its kind; the document's stream is open   *)
(* exactly while the loaded page or a child of it uses it, only a live      *)
(* stream carries anything, and a component that left keeps nothing         *)
(* (useDocChangeStream.ts acquire and release, DocDocument.tsx).            *)
TypeOK ==
    /\ rev \in 1 .. MaxWrites
    /\ emitting \in [Instance -> SUBSET Event]
    /\ wire \in [Instance -> SUBSET Event]
    /\ inbox \in [Instance -> SUBSET (Instance \X Event)]
    /\ listen \in [Instance -> {"booting", "rejected", "up", "down"}]
    /\ status \in [Instance -> {"connecting", "listening"}]
    /\ heard \in [Instance -> [Event -> Nat]]
    /\ logged \in [Event -> Nat]
    /\ conn \in [state : {"none", "down", "live"}, at : Instance, ever : BOOLEAN]
    /\ since \in 0 .. rev
    /\ sent \in BOOLEAN
    /\ mounted \subseteq Consumer
    /\ view \in [Consumer -> 0 .. MaxWrites]
    /\ due \in [Consumer -> BOOLEAN]
    /\ fetches \in [Consumer -> Seq(0 .. MaxWrites)]
    /\ drops \in 0 .. MaxDrops
    /\ conn.state = "none" <=> ~Loaded
    /\ ~Loaded => mounted \subseteq {Page}
    /\ \A k \in Consumer \ mounted : view[k] = 0 /\ ~due[k] /\ fetches[k] = << >>
    /\ sent => conn.state = "live"

(* No instance dispatches an event twice, its own included, whatever fails: *)
(* the origin's NOTIFY comes back to it and the instances re-emit what they *)
(* receive (bus-relay.ts onNotify, bus.ts emitRelayed).                     *)
DispatchedOnce == \A i \in Instance, e \in Event : heard[i][e] <= 1

(* An event is persisted by its origin alone: at most one activity_log row  *)
(* (bus.ts dispatch, localOnly).                                            *)
LoggedOnce == \A e \in Event : logged[e] <= 1

(* An event that travels to every instance and back is handled once: each   *)
(* instance dispatches it at most once, and one instance persists it        *)
(* (bus-relay.ts onNotify, bus.ts emitRelayed and dispatch).                *)
HandledOnce == DispatchedOnce /\ LoggedOnce

(* An instance whose LISTEN is up says so, however it came up               *)
(* (bus-relay.ts bridgePgListen, markEstablished).                          *)
HealthTruthful == \A i \in Instance : listen[i] = "up" => status[i] = "listening"

(* What consumer k will show last, if nothing more happens. *)
WillShow(k) == IF fetches[k] = << >> THEN view[k] ELSE Last(fetches[k])

(* Event e has yet to reach the streams of instance i, or may still. *)
OnItsWay(e, i) ==
    \/ e \in emitting[i]
    \/ \E j \in Instance \ {i} :
        \/ listen[i] \in {"booting", "up"} /\ e \in emitting[j] \cup wire[j]
        \/ <<j, e>> \in inbox[i]

(* Something is under way that will make every consumer refetch. *)
WillRefetch ==
    \/ sent
    \/ conn.state = "down" /\ conn.ever
    \/ conn.state = "live" /\ (listen[conn.at] \in {"down", "rejected"} \/ OnItsWay(rev, conn.at))

(* What k shows is the latest, or will be. *)
Heeded(k) == WillShow(k) \in {0, rev} \/ due[k] \/ WillRefetch

(* The stream has been attached, and the instance that serves it has        *)
(* listened once.                                                           *)
Attends == conn.ever /\ (conn.state = "live" => listen[conn.at] # "booting")

(* A mutation made since the stream was first attached is never forgotten:  *)
(* whatever connections drop, as long as a component's latest fetch         *)
(* predates it something under way will make it fetch again (the NOTIFY,    *)
(* the relay's nudge, the refetch on reconnect, a timer), although the      *)
(* document was fetched before its stream was opened                        *)
(* (useDocChangeStream.ts:57-74, bus-relay.ts:373-385).                     *)
NothingForgotten == Attends /\ rev > since => \A k \in mounted : Heeded(k)

(* Once the writing stops, every component of the page comes to show what   *)
(* was written last, over dropped LISTENs and dropped streams, unless that  *)
(* was written before the stream was attached (useDocChangeStream.ts,       *)
(* bus-relay.ts).                                                           *)
Converges == <>[](rev > since => \A k \in mounted : view[k] = rev)

(* What the comment in useDocChangeStream.ts:57-59 says, that the           *)
(* component's own fetch covers what was written before the stream          *)
(* connected first.  It does not (README, section 6).                       *)
FirstConnectHasNoGap == conn.ever => \A k \in mounted : Heeded(k)

(* What the comment in bus-relay.ts:373-375 says, that a relay's first      *)
(* LISTEN has no gap to make up for.  It has (README, section 6).           *)
FirstListenHasNoGap == conn.ever /\ rev > since => \A k \in mounted : Heeded(k)
=============================================================================
