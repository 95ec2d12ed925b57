------------------------------ MODULE Realtime ------------------------------
(***************************************************************************)
(* The live feeds: the websocket gateway's Kafka consumer and metrics      *)
(* emitter, its rooms, and the dashboard's single socket with the hooks    *)
(* that use it (RealtimeIndicator, always mounted inside the dashboard,    *)
(* and the page "Live Events").                                            *)
(*                                                                         *)
(* The socket client puts emits made while it is down into a buffer and    *)
(* sends them once connected; what was on its way when the connection      *)
(* broke is gone, and so are the rooms the server kept for it.             *)
(***************************************************************************)
EXTENDS Integers, Sequences, SequencesExt

CONSTANTS
    Window,    \* METRICS_WINDOW_MS, also the period of the emitter
    MaxEvents, \* rows "Live Events" keeps (100)
    MaxClock, MaxRequests, MaxCalls \* bounds: time, events, mounts and breaks

ASSUME RealtimeAssumption ==
    Window \in Nat \ {0} /\ MaxEvents \in Nat \ {0} /\ {MaxClock, MaxRequests, MaxCalls} \subseteq Nat

VARIABLES
    clock, due,     \* now, and when the emitter's interval is over
    received,       \* when each request event was received
    recentRequests, \* the samples the emitter still has
    counted,        \* updates that counted each request
    emitted,        \* when updates were emitted
    late,           \* samples that an update met which came after its time
    up,             \* the socket is connected
    rooms,          \* rooms of the connection at the server
    wire, buffer,   \* emits on their way; emits made while down
    mounted,        \* rooms whose hook is mounted
    current,        \* of these, the hooks mounted since the last break
    live, shown, isPaused, \* the hook's list and the list on the page
    calls           \* mounts, unmounts and breaks so far

metricVars == <<clock, due, received, recentRequests, counted, emitted, late>>
feedVars == <<up, rooms, wire, buffer, mounted, current, live, shown, isPaused, calls>>
realtimeVars == <<metricVars, feedVars>>

Rooms == {"metrics", "events"}
Requests == 1..MaxRequests
Messages == {"subscribe", "unsubscribe"} \X Rooms

RealtimeTypeOK ==
    /\ clock \in 0..MaxClock /\ due \in Nat
    /\ received \in Seq(0..MaxClock) /\ Len(received) <= MaxRequests
    /\ recentRequests \subseteq DOMAIN received
    /\ counted \in [Requests -> Nat] /\ emitted \subseteq 0..MaxClock
    /\ up \in BOOLEAN /\ isPaused \in BOOLEAN /\ late \subseteq Requests
    /\ rooms \subseteq Rooms /\ current \subseteq mounted /\ mounted \subseteq Rooms
    /\ wire \in Seq(Messages) /\ buffer \in Seq(Messages)
    /\ live \in Seq(Requests) /\ shown \in Seq(Requests) /\ Len(live) <= MaxEvents
    /\ calls \in 0..MaxCalls

RealtimeInit ==
    /\ clock = 0 /\ due = Window /\ received = <<>> /\ recentRequests = {}
    /\ counted = [r \in Requests |-> 0] /\ emitted = {} /\ late = {}
    /\ up = FALSE /\ rooms = {} /\ wire = <<>> /\ buffer = <<>>
    /\ mounted = {} /\ current = {}
    /\ live = <<>> /\ shown = <<>> /\ isPaused = FALSE /\ calls = 0
-----------------------------------------------------------------------------
(* The websocket gateway.                                                   *)

Show(list, paused) == live' = list /\ shown' = IF paused THEN shown ELSE list

ListWith(r) == SubSeq(<<r>> \o live, 1, Min({MaxEvents, Len(live) + 1}))

\* A request event: sampled, and emitted to the room "events"; the page lists
\* it unless it is paused.
Receive ==
    /\ Len(received) < MaxRequests
    /\ received' = Append(received, clock)
    /\ recentRequests' = recentRequests \cup {Len(received')}
    /\ IF up /\ "events" \in rooms /\ "events" \in mounted
       THEN Show(ListWith(Len(received')), isPaused)
       ELSE UNCHANGED <<live, shown>>
    /\ UNCHANGED <<clock, due, counted, emitted, late,
                   up, rooms, wire, buffer, mounted, current, isPaused, calls>>

Pass ==
    /\ clock < MaxClock
    /\ clock' = clock + 1
    /\ UNCHANGED <<due, received, recentRequests, counted, emitted, late, feedVars>>

\* Mutant: the cutoff leaves out the first instant and one more.
InWindowShort(r) == received[r] > clock - Window + 1

InWindow(r) == received[r] >= clock - Window

\* The interval's callback, which may come late; the next one is due a whole
\* period after it.
EmitMetrics ==
    /\ clock >= due
    /\ recentRequests' = {r \in recentRequests : InWindow(r)}
    /\ counted' = [r \in Requests |-> counted[r] + IF r \in recentRequests' THEN 1 ELSE 0]
    /\ emitted' = emitted \cup {clock}
    /\ late' = IF clock > due THEN late \cup recentRequests ELSE late
    /\ due' = clock + Window
    /\ UNCHANGED <<clock, received, feedVars>>
-----------------------------------------------------------------------------
(* The socket.                                                              *)

Call == calls < MaxCalls /\ calls' = calls + 1

\* autoConnect and reconnection: the server starts with no room.
Connect ==
    /\ ~up
    /\ up' = TRUE
    /\ rooms' = {}
    /\ wire' = buffer
    /\ buffer' = <<>>
    /\ UNCHANGED <<metricVars, mounted, current, live, shown, isPaused, calls>>

Break ==
    /\ up /\ Call
    /\ up' = FALSE
    /\ rooms' = {}
    /\ wire' = <<>>
    /\ current' = {}
    /\ UNCHANGED <<metricVars, buffer, mounted, live, shown, isPaused>>

\* handleSubscribe and handleUnsubscribe.
Handle ==
    /\ up /\ wire # <<>>
    /\ LET m == Head(wire)
       IN  rooms' = IF m[1] = "subscribe" THEN rooms \cup {m[2]} ELSE rooms \ {m[2]}
    /\ wire' = Tail(wire)
    /\ UNCHANGED <<metricVars, up, buffer, mounted, current, live, shown, isPaused, calls>>

Emit(m) ==
    IF up THEN wire' = Append(wire, m) /\ UNCHANGED buffer
          ELSE buffer' = Append(buffer, m) /\ UNCHANGED wire
-----------------------------------------------------------------------------
(* The hooks and the page.                                                  *)

\* The effect of useRealtimeMetrics or useRealtimeEvents.
Mount(room) ==
    /\ room \notin mounted /\ Call
    /\ mounted' = mounted \cup {room}
    /\ current' = current \cup {room}
    /\ Emit(<<"subscribe", room>>)
    /\ IF room = "events" THEN live' = <<>> /\ shown' = <<>> /\ isPaused' = FALSE
                          ELSE UNCHANGED <<live, shown, isPaused>>
    /\ UNCHANGED <<metricVars, up, rooms>>

\* Mutant: the cleanup removes the handler and stays in the room.
UnmountStays(room) ==
    /\ room \in mounted /\ Call
    /\ mounted' = mounted \ {room}
    /\ current' = current \ {room}
    /\ UNCHANGED <<metricVars, up, rooms, wire, buffer, live, shown, isPaused>>

Unmount(room) ==
    /\ room \in mounted /\ Call
    /\ mounted' = mounted \ {room}
    /\ current' = current \ {room}
    /\ Emit(<<"unsubscribe", room>>)
    /\ UNCHANGED <<metricVars, up, rooms, live, shown, isPaused>>

\* Pause and Resume; the next render copies the live list when not paused.
Pause ==
    /\ "events" \in mounted
    /\ isPaused' = ~isPaused
    /\ Show(live, isPaused')
    /\ UNCHANGED <<metricVars, up, rooms, wire, buffer, mounted, current, calls>>

RealtimeNext ==
    \/ Receive \/ Pass \/ EmitMetrics
    \/ Connect \/ Break \/ Handle \/ Pause
    \/ \E room \in Rooms : Mount(room) \/ Unmount(room)

RealtimeSpec == RealtimeInit /\ [][RealtimeNext]_realtimeVars
-----------------------------------------------------------------------------
\* Every request counts in an update of the metrics, unless the first update
\* to come after it was late (what fell out of its window is never counted); it
\* counts twice only when it came in the very millisecond of an update, which
\* both windows take in.
MetricsCountOnce ==
    \A r \in DOMAIN received :
        /\ counted[r] = 0 => r \in recentRequests \/ r \in late
        /\ counted[r] <= 2
        /\ counted[r] = 2 => received[r] \in emitted

\* Once what the client sent has arrived, the connection is in exactly the
\* rooms of the hooks mounted since the connection last broke: no room is kept
\* for a page that was left, and no feed is missed that was asked for.  (Hooks
\* mounted before a break stay without their room: they do not ask again.)  The
\* list such a page has is newest first without repetition and, unless it is
\* paused, the one it shows.
FeedFollowsHooks ==
    /\ up /\ wire = <<>> => rooms = current
    /\ \A i, j \in DOMAIN live : i < j => live[i] > live[j]
    /\ "events" \in mounted /\ ~isPaused => shown = live
=============================================================================
