------------------------------- MODULE EventBus -------------------------------
(***************************************************************************)
(* The events of one run, from whoever publishes them to the listeners of  *)
(* a process: at once with the bus in memory; with Redis over a connection *)
(* that subscribes when the first listener comes, unsubscribes when the    *)
(* last one leaves, and waits for neither.  Commands and messages keep     *)
(* their order on it; it may be lost once and comes back.  Every listener  *)
(* leaves once, as the callers do.                                         *)
(***************************************************************************)
EXTENDS Naturals, SequencesExt

CONSTANTS
  Listeners,     \* numbers, in the order in which they come
  MaxPublished   \* bound: events of the run, numbered as they are published

ASSUME BusAssumption == MaxPublished \in Nat

VARIABLES
  bus,        \* "memory" or "redis"
  published,  \* events published so far
  fannedOut,  \* of these, the ones Redis (or the bus in memory) has passed on
  member,     \* each listener: where it is, what it heard, and since when it hears all
  commands,   \* on their way to Redis
  messages,   \* on their way from it
  subscribed, \* Redis has the process on its list
  line,       \* the connection: "up", "down", "again"
  lost        \* events lost with the connection

busVars == <<bus, published, fannedOut, member, commands, messages, subscribed, line, lost>>

Unconfirmed == MaxPublished + 1
Listening == {l \in Listeners : member[l].at = "on"}
Hear(n) == [l \in Listeners |-> IF l \in Listening
                                THEN [member[l] EXCEPT !.heard = Append(@, n)] ELSE member[l]]

BusInit ==
  /\ bus \in {"memory", "redis"}
  /\ published = 0 /\ fannedOut = 0 /\ subscribed = FALSE /\ line = "up" /\ lost = {}
  /\ commands = << >> /\ messages = << >>
  /\ member = [l \in Listeners |->
                 [at |-> "idle", heard |-> << >>, since |-> Unconfirmed]]

-----------------------------------------------------------------------------
(* The first listener of the run has the process subscribe.                *)
Subscribe(l) ==
  LET sent == IF bus = "redis" /\ Listening = {} THEN Append(commands, "subscribe") ELSE commands IN
  /\ member[l].at = "idle" /\ \A k \in Listeners : k < l => member[k].at # "idle"
  /\ commands' = sent
  /\ member' = [member EXCEPT ![l].at = "on",
                              ![l].since = IF sent = << >> THEN fannedOut ELSE Unconfirmed]
  /\ UNCHANGED <<bus, published, fannedOut, messages, subscribed, line, lost>>

(* Mutant: whoever leaves unsubscribes for all.                            *)
LeaveForAll(l) ==
  /\ member[l].at = "on"
  /\ member' = [member EXCEPT ![l].at = "off"]
  /\ commands' = IF bus = "redis" THEN Append(commands, "unsubscribe") ELSE commands
  /\ UNCHANGED <<bus, published, fannedOut, messages, subscribed, line, lost>>

Unsubscribe(l) ==
  /\ member[l].at = "on"
  /\ member' = [member EXCEPT ![l].at = "off"]
  /\ commands' = IF bus = "redis" /\ Listening = {l} THEN Append(commands, "unsubscribe") ELSE commands
  /\ UNCHANGED <<bus, published, fannedOut, messages, subscribed, line, lost>>

PublishInMemory ==
  /\ bus = "memory" /\ published < MaxPublished
  /\ published' = published + 1 /\ fannedOut' = published + 1
  /\ member' = Hear(published + 1)
  /\ UNCHANGED <<bus, commands, messages, subscribed, line, lost>>

PublishToRedis ==
  /\ bus = "redis" /\ published < MaxPublished
  /\ published' = published + 1
  /\ UNCHANGED <<bus, fannedOut, member, commands, messages, subscribed, line, lost>>

(* A listener that throws is passed over; the others hear the event.       *)
Dispatch ==
  /\ messages # << >>
  /\ member' = Hear(Head(messages))
  /\ messages' = Tail(messages)
  /\ UNCHANGED <<bus, published, fannedOut, commands, subscribed, line, lost>>

-----------------------------------------------------------------------------
(* Redis, and the library that subscribes again when the line is back.     *)

RedisObeys ==
  /\ commands # << >> /\ line # "down"
  /\ subscribed' = (Head(commands) = "subscribe")
  /\ commands' = Tail(commands)
  /\ member' = [l \in Listeners |->
                  IF l \in Listening /\ Len(commands) = 1
                  THEN [member[l] EXCEPT !.since = fannedOut] ELSE member[l]]
  /\ UNCHANGED <<bus, published, fannedOut, messages, line, lost>>

RedisFansOut ==
  LET n == fannedOut + 1 IN
  /\ bus = "redis" /\ fannedOut < published
  /\ fannedOut' = n
  /\ messages' = IF subscribed /\ line # "down" THEN Append(messages, n) ELSE messages
  /\ lost' = IF subscribed /\ line = "down" THEN lost \cup {n} ELSE lost
  /\ UNCHANGED <<bus, published, member, commands, subscribed, line>>

LineLost ==
  /\ bus = "redis" /\ line = "up"
  /\ line' = "down" /\ messages' = << >> /\ lost' = lost \cup ToSet(messages)
  /\ UNCHANGED <<bus, published, fannedOut, member, commands, subscribed>>

LineBack ==
  /\ line = "down" /\ line' = "again"
  /\ UNCHANGED <<bus, published, fannedOut, member, commands, messages, subscribed, lost>>

BusNext ==
  \/ \E l \in Listeners : Subscribe(l) \/ Unsubscribe(l)
  \/ PublishInMemory \/ PublishToRedis \/ Dispatch
  \/ RedisObeys \/ RedisFansOut \/ LineLost \/ LineBack

-----------------------------------------------------------------------------
(* Whoever listens hears events once and in the order of their publishing, *)
(* and, from the moment Redis has obeyed the subscription he relies on, all*)
(* of them but those lost with the connection - however listeners come and *)
(* go before and beside him; and when Redis has obeyed all, the process is *)
(* on its list just if somebody listens (RedisEventBus.subscribe counts    *)
(* the listeners of a channel).                                            *)
ListenersHear ==
  /\ \A l \in Listeners : LET heard == member[l].heard IN
       /\ \A i \in 2 .. Len(heard) : heard[i - 1] < heard[i]
       /\ l \in Listening => \A n \in 1 .. fannedOut :
            n > member[l].since => n \in ToSet(heard) \cup ToSet(messages) \cup lost
  /\ bus = "redis" /\ commands = << >> => (subscribed <=> Listening # {})

(* "Same EventBus contract as InMemoryEventBus", it says: with Redis an    *)
(* event passed on while somebody listens may miss him, and a listener may *)
(* hear what was on its way before he came.                                *)
NothingMissed ==
  [][fannedOut' > fannedOut /\ bus = "redis" /\ line # "down" /\ Listening # {}
     => messages' # messages]_busVars
NothingFromBefore ==
  [][\A l \in Listeners : member[l].at = "idle" /\ member'[l].at = "on" => messages = << >>]_busVars

=============================================================================
