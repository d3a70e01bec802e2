--------------------------------- MODULE Tui ---------------------------------
(***************************************************************************)
(* KamaTuiApp (tui/app.py): a worker that connects, subscribes, creates a  *)
(* session and reconnects; the prompt; the approvals on the screen; one    *)
(* worker per message that is sent.                                        *)
(*                                                                         *)
(* The app handles one message (a key, a submit, a decision) at a time and *)
(* awaits the reply of permission.respond in between.  CancelledError is   *)
(* no Exception: it passes the except clauses, and what waited is over.    *)
(***************************************************************************)
EXTENDS Service, SequencesExt

VARIABLES
    worker,   \* the await _socket_loop() stopped at
    app,      \* the message the app is awaiting in, or "free"; "over"
    queued,   \* workers of _do_send_message() and _do_compact() yet to start
    busy,     \* _busy
    enabled,  \* the prompt takes input
    blocks,   \* _pending_permission_blocks
    selects   \* the PermissionSelects on the screen, oldest first

tuiVars == <<worker, app, queued, busy, enabled, blocks, selects>>

TuiTypeOK ==
    /\ worker \in {"disconnected", "subscribing", "creating", "ready", "over"}
    /\ app \in {"free", "responding", "quitting", "over"}
    /\ queued \subseteq Sends \cup {"compact"}
    /\ busy \in BOOLEAN /\ enabled \in BOOLEAN
    /\ blocks \subseteq Asks
    /\ Range(selects) \subseteq Asks

TuiInit ==
    /\ worker = "disconnected" /\ app = "free" /\ queued = {}
    /\ busy = FALSE /\ enabled = FALSE
    /\ blocks = {} /\ selects = <<>>

Connected == worker \in {"subscribing", "creating", "ready"}   \* _client is set

-----------------------------------------------------------------------------
(* Slips in this code that the properties must notice.                      *)

\* waiting_for_input does not end the turn; it ends it, but leaves the prompt off
WaitingEnablesOnly ==
    /\ DispatchEvent("waiting")
    /\ enabled' = TRUE
    /\ UNCHANGED <<serviceVars, worker, app, queued, busy, blocks, selects>>

WaitingFreesOnly ==
    /\ DispatchEvent("waiting")
    /\ busy' = FALSE
    /\ UNCHANGED <<serviceVars, worker, app, queued, enabled, blocks, selects>>

-----------------------------------------------------------------------------
(* _socket_loop()                                                           *)

\* A connection that is refused is tried again after two seconds.
TuiConnect ==
    /\ worker = "disconnected"
    /\ Open("subscribe")
    /\ worker' = "subscribing"
    /\ UNCHANGED <<serviceVars, app, queued, busy, enabled, blocks, selects>>

Subscribed ==
    /\ worker = "subscribing" /\ future["subscribe"] = "ok"
    /\ worker' = "creating"
    /\ \E o \in Outcomes :
          future' = [future EXCEPT !["subscribe"] = "none", !["create"] = o]
    /\ sent' = IF conn = "up" THEN Append(sent, [name |-> "create", about |-> "none"])
               ELSE sent
    /\ UNCHANGED <<conn, connections, reader, wire, serviceVars,
                   app, queued, busy, enabled, blocks, selects>>

Created ==
    /\ worker = "creating" /\ future["create"] = "ok"
    /\ Taken("create")
    /\ worker' = "ready" /\ enabled' = TRUE
    /\ UNCHANGED <<serviceVars, app, queued, busy, blocks, selects>>

\* The finally clause leaves _busy and the approvals as they are.
Leave(c, next) ==
    /\ CloseTaking(c)
    /\ worker' = next
    /\ enabled' = FALSE
    /\ session' = "none" /\ serving' = "none" /\ subscribed' = FALSE
    /\ UNCHANGED <<ask, others, app, queued, busy, blocks, selects>>

\* An IpcError is caught; an OSError or a cancelled future ends the worker.
SetUpFails ==
    /\ \E c \in {"subscribe", "create"} :
          /\ worker = IF c = "subscribe" THEN "subscribing" ELSE "creating"
          /\ future[c] \in {"error", "cancelled", "raised"}
          /\ Leave(c, IF future[c] = "error" THEN "disconnected" ELSE "over")

TuiDisconnected ==
    /\ worker = "ready" /\ reader = "over"
    /\ Leave("none", "disconnected")

-----------------------------------------------------------------------------
(* The prompt                                                               *)

Idle == app = "free" /\ enabled /\ worker = "ready" /\ ~busy

Submit(c) ==
    /\ Idle /\ future[c] = "none" /\ c \notin queued
    /\ busy' = TRUE /\ enabled' = FALSE
    /\ queued' = queued \cup {c}
    /\ UNCHANGED <<linkVars, serviceVars, worker, app, blocks, selects>>

SubmitCompact ==
    /\ Idle /\ future["compact"] = "none" /\ "compact" \notin queued
    /\ queued' = queued \cup {"compact"}
    /\ UNCHANGED <<linkVars, serviceVars, worker, app, busy, enabled, blocks, selects>>

\* The worker starts; it returns at once if there is no client any more.
TuiSend(c) ==
    /\ c \in queued
    /\ queued' = queued \ {c}
    /\ IF Connected THEN Send(c, "none") ELSE UNCHANGED linkVars
    /\ UNCHANGED <<serviceVars, worker, app, busy, enabled, blocks, selects>>

\* A message that was refused may be sent again; a cancelled one is not
\* noticed.  The outcome of a compaction is only shown.
TuiSent(c) ==
    /\ c \in Sends \cup {"compact"} /\ future[c] \in Settled
    /\ Taken(c)
    /\ IF c \in Sends /\ future[c] \in {"error", "raised"}
       THEN busy' = FALSE /\ enabled' = TRUE
       ELSE UNCHANGED <<busy, enabled>>
    /\ UNCHANGED <<serviceVars, worker, app, queued, blocks, selects>>

\* Leaving the program closes the session first.
Quit ==
    /\ app = "free"
    /\ IF worker = "ready"
       THEN app' = "quitting" /\ Send("close", "none")
       ELSE app' = "over" /\ Exit
    /\ UNCHANGED <<serviceVars, worker, queued, busy, enabled, blocks, selects>>

QuitDone ==
    /\ app = "quitting" /\ future["close"] \in Settled
    /\ app' = "over" /\ Exit
    /\ UNCHANGED <<serviceVars, worker, queued, busy, enabled, blocks, selects>>

-----------------------------------------------------------------------------
(* Approvals                                                                *)

\* A decision in any of the selects, by key or by cursor.
Decide(i) ==
    /\ app = "free" /\ i \in DOMAIN selects
    /\ selects' = RemoveAt(selects, i)
    /\ blocks' = blocks \ {selects[i]}
    /\ IF Connected
       THEN app' = "responding" /\ Send("respond", selects[i]) /\ UNCHANGED enabled
       ELSE /\ enabled' = (enabled \/ blocks' = {})
            /\ UNCHANGED <<app, linkVars>>
    /\ UNCHANGED <<serviceVars, worker, queued, busy>>

\* The prompt takes input again, busy or not.
Decided ==
    /\ app = "responding" /\ future["respond"] \in Settled \ {"cancelled"}
    /\ Taken("respond")
    /\ app' = "free"
    /\ enabled' = (enabled \/ blocks = {})
    /\ UNCHANGED <<serviceVars, worker, queued, busy, blocks, selects>>

\* CancelledError ends the loop that handles the app's messages.
DecisionCancelled ==
    /\ app = "responding" /\ future["respond"] = "cancelled"
    /\ app' = "over" /\ Exit
    /\ UNCHANGED <<serviceVars, worker, queued, busy, enabled, blocks, selects>>

-----------------------------------------------------------------------------
(* Events, of whatever session                                              *)

OnWaiting ==
    /\ DispatchEvent("waiting")
    /\ busy' = FALSE /\ enabled' = TRUE
    /\ UNCHANGED <<serviceVars, worker, app, queued, blocks, selects>>

OnClosed ==
    /\ DispatchEvent("closed")
    /\ busy' = FALSE /\ enabled' = FALSE
    /\ UNCHANGED <<serviceVars, worker, app, queued, blocks, selects>>

OnRequested ==
    /\ DispatchEvent("requested")
    /\ blocks' = blocks \cup {Head(wire).about}
    /\ selects' = Append(selects, Head(wire).about)
    /\ enabled' = FALSE
    /\ UNCHANGED <<serviceVars, worker, app, queued, busy>>

\* It is the first select that is removed, whichever request was denied.
OnDenied ==
    /\ DispatchEvent("denied")
    /\ IF Head(wire).about \in blocks
       THEN /\ blocks' = blocks \ {Head(wire).about}
            /\ selects' = IF selects = <<>> THEN selects ELSE Tail(selects)
            /\ enabled' = (enabled \/ blocks' = {})
       ELSE UNCHANGED <<blocks, selects, enabled>>
    /\ UNCHANGED <<serviceVars, worker, app, queued, busy>>

\* Runs, steps and tools are only shown.
OnOther ==
    /\ DispatchEvent("finished")
    /\ UNCHANGED <<serviceVars, tuiVars>>

-----------------------------------------------------------------------------

\* The task of run_event_loop()
TuiReads ==
    /\ app # "over"
    /\ \/ OnWaiting \/ OnClosed \/ OnRequested \/ OnDenied \/ OnOther
       \/ (DispatchReply \/ LoopEnds) /\ UNCHANGED <<serviceVars, tuiVars>>

TuiStep ==
    /\ app # "over"
    /\ \/ Subscribed \/ Created \/ SetUpFails \/ TuiDisconnected
       \/ \E c \in Sends \cup {"compact"} : TuiSend(c) \/ TuiSent(c)
       \/ Decided \/ DecisionCancelled \/ QuitDone

TuiUser ==
    /\ app # "over"
    /\ \/ TuiConnect \/ SubmitCompact \/ Quit
       \/ \E c \in Sends : Submit(c)
       \/ \E i \in DOMAIN selects : Decide(i)
=============================================================================
