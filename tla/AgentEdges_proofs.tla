-------------------------- MODULE AgentEdges_proofs --------------------------
(***************************************************************************)
(* What holds at the edges of Agent OS for every size of them: the event   *)
(* buses, the conversation inside an execution, the child processes, the   *)
(* memory, the roster and its seed, the team panel, the line messages are  *)
(* written in, the reactions, and Prisma's repository, which acts as the   *)
(* in-memory one.  Each edge has its specification, the inductive          *)
(* invariant that its theorem needs, and the steps that keep it.           *)
(***************************************************************************)
EXTENDS EventBus, AgentLoop, ModelCli, Memory, Roster, Seed, TeamView, Composer, Reactions,
        RepositoryPrisma, FunctionTheorems, SequenceTheorems, Induction

(* The least of a set of numbers.                                          *)
LEMMA MinIsLeast ==
  ASSUME NEW S \in SUBSET Nat, S # {}
  PROVE  Min(S) \in S /\ \A k \in S : Min(S) <= k
<1>1. \E n \in S : \A k \in S : n <= k BY LeastNumber
<1> QED BY <1>1 DEF Min

-----------------------------------------------------------------------------
(* The event buses: who listens hears, whatever comes and goes beside him. *)

BusSpec == BusInit /\ [][BusNext]_busVars

Members == [at : {"idle", "on", "off"}, heard : Seq(Nat), since : Nat]

BusTypeOK ==
  /\ bus \in {"memory", "redis"} /\ line \in {"up", "down", "again"}
  /\ published \in 0 .. MaxPublished /\ fannedOut \in 0 .. published
  /\ member \in [Listeners -> Members]
  /\ commands \in Seq({"subscribe", "unsubscribe"})
  /\ messages \in Seq(1 .. fannedOut)
  /\ subscribed \in BOOLEAN /\ lost \subseteq Nat

(* What Redis will have been told when it has obeyed all that is under way.*)
Wanted == IF commands = << >> THEN subscribed ELSE commands[Len(commands)] = "subscribe"

BusAgrees ==
  /\ bus = "memory" => commands = << >> /\ messages = << >> /\ fannedOut = published
  /\ bus = "redis" => (Wanted <=> Listening # {})

(* A listener who counts on the list waits for no command.                 *)
Relied ==
  \A l \in Listeners : member[l].at = "on" /\ member[l].since <= MaxPublished => commands = << >>

(* What is on its way is in order, and after all that was heard.           *)
InOrder ==
  /\ \A i, j \in DOMAIN messages : i < j => messages[i] < messages[j]
  /\ \A l \in Listeners : \A i \in DOMAIN member[l].heard :
       /\ member[l].heard[i] <= fannedOut
       /\ \A j \in DOMAIN messages : member[l].heard[i] < messages[j]
       /\ i > 1 => member[l].heard[i - 1] < member[l].heard[i]

(* Who listens has heard what he relies on, or it is on its way or lost.   *)
Heard ==
  \A l \in Listeners : member[l].at = "on" =>
    \A n \in 1 .. fannedOut : n > member[l].since =>
      n \in ToSet(member[l].heard) \cup ToSet(messages) \cup lost

BusInv == BusTypeOK /\ BusAgrees /\ Relied /\ InOrder /\ Heard

LEMMA Joined ==
  ASSUME NEW S, NEW s \in Seq(S), NEW x \in S
  PROVE  /\ Append(s, x) \in Seq(S) /\ Len(Append(s, x)) = Len(s) + 1 /\ Append(s, x) # << >>
         /\ DOMAIN Append(s, x) = 1 .. Len(s) + 1
         /\ \A i \in 1 .. Len(s) : Append(s, x)[i] = s[i]
         /\ Append(s, x)[Len(s) + 1] = x
         /\ ToSet(Append(s, x)) = ToSet(s) \cup {x}
<1> DEFINE t == Append(s, x)
<1>1. /\ t \in Seq(S) /\ Len(t) = Len(s) + 1 /\ t # << >> /\ DOMAIN t = 1 .. Len(s) + 1
      /\ \A i \in 1 .. Len(s) : t[i] = s[i] /\ t[Len(s) + 1] = x
      /\ Len(s) \in Nat /\ DOMAIN s = 1 .. Len(s)
  OBVIOUS
<1>2. t[Len(s) + 1] = x
  OBVIOUS
<1> HIDE DEF t
<1>3. ToSet(t) = ToSet(s) \cup {x}
  <2>1. ASSUME NEW y \in ToSet(t) PROVE y \in ToSet(s) \cup {x}
    BY <1>1, <1>2 DEF ToSet
  <2>2. ASSUME NEW y \in ToSet(s) PROVE y \in ToSet(t)
    BY <1>1 DEF ToSet
  <2>3. x \in ToSet(t)
    BY <1>1, <1>2 DEF ToSet
  <2> QED BY <2>1, <2>2, <2>3
<1> QED BY <1>1, <1>2, <1>3 DEF t

LEMMA Served ==
  ASSUME NEW S, NEW s \in Seq(S), s # << >>
  PROVE  /\ Tail(s) \in Seq(S) /\ Len(Tail(s)) = Len(s) - 1 /\ Head(s) = s[1] /\ s[1] \in S
         /\ DOMAIN Tail(s) = 1 .. Len(s) - 1 /\ 1 \in DOMAIN s
         /\ \A i \in 1 .. Len(s) - 1 : Tail(s)[i] = s[i + 1] /\ i + 1 \in DOMAIN s
         /\ ToSet(s) = ToSet(Tail(s)) \cup {s[1]}
<1> DEFINE t == Tail(s)
<1>1. /\ t \in Seq(S) /\ Len(t) = Len(s) - 1 /\ Head(s) = s[1] /\ s[1] \in S
      /\ DOMAIN t = 1 .. Len(s) - 1 /\ 1 \in DOMAIN s
      /\ DOMAIN s = 1 .. Len(s) /\ Len(s) \in Nat
  OBVIOUS
<1>2. \A i \in 1 .. Len(s) - 1 : t[i] = s[i + 1] /\ i + 1 \in DOMAIN s
  OBVIOUS
<1> HIDE DEF t
<1>3. ToSet(s) = ToSet(t) \cup {s[1]}
  <2>1. ASSUME NEW y \in ToSet(s) PROVE y \in ToSet(t) \cup {s[1]}
    <3>1. PICK i \in DOMAIN s : y = s[i]
      BY DEF ToSet
    <3>2. CASE i = 1
      BY <3>1, <3>2
    <3>3. CASE i # 1
      <4>1. i - 1 \in 1 .. Len(s) - 1 /\ (i - 1) + 1 = i
        BY <1>1, <3>3
      <4>2. t[i - 1] = y
        BY <1>2, <3>1, <4>1
      <4> QED BY <1>1, <4>1, <4>2 DEF ToSet
    <3> QED BY <3>2, <3>3
  <2>2. ASSUME NEW y \in ToSet(t) PROVE y \in ToSet(s)
    BY <1>1, <1>2, <2>2 DEF ToSet
  <2>3. s[1] \in ToSet(s)
    BY <1>1 DEF ToSet
  <2> QED BY <2>1, <2>2, <2>3
<1> QED BY <1>1, <1>2, <1>3 DEF t

(* A listener comes, leaves, or counts on the list: what he heard stays.   *)
LEMMA HearIs ==
  ASSUME BusTypeOK, NEW n \in Nat
  PROVE  /\ Hear(n) \in [Listeners -> Members]
         /\ \A l \in Listeners :
              /\ Hear(n)[l].at = member[l].at /\ Hear(n)[l].since = member[l].since
              /\ member[l].at # "on" => Hear(n)[l].heard = member[l].heard
              /\ member[l].at = "on" =>
                   /\ DOMAIN Hear(n)[l].heard = 1 .. Len(member[l].heard) + 1
                   /\ \A i \in 1 .. Len(member[l].heard) : Hear(n)[l].heard[i] = member[l].heard[i]
                   /\ Hear(n)[l].heard[Len(member[l].heard) + 1] = n
                   /\ ToSet(Hear(n)[l].heard) = ToSet(member[l].heard) \cup {n}
<1>1. \A l \in Listeners : member[l] \in Members
  BY DEF BusTypeOK
<1>2. ASSUME NEW l \in Listeners
      PROVE  /\ [member[l] EXCEPT !.heard = Append(@, n)] \in Members
             /\ [member[l] EXCEPT !.heard = Append(@, n)].at = member[l].at
             /\ [member[l] EXCEPT !.heard = Append(@, n)].since = member[l].since
             /\ [member[l] EXCEPT !.heard = Append(@, n)].heard = Append(member[l].heard, n)
  <2>1. Append(member[l].heard, n) \in Seq(Nat)
    BY <1>1 DEF Members
  <2> QED BY <1>1, <2>1 DEF Members
<1>3. Hear(n) \in [Listeners -> Members]
  BY <1>1, <1>2 DEF Hear, Listening
<1>4. ASSUME NEW l \in Listeners
      PROVE  /\ Hear(n)[l].at = member[l].at /\ Hear(n)[l].since = member[l].since
             /\ Hear(n)[l].heard = IF member[l].at = "on" THEN Append(member[l].heard, n) ELSE member[l].heard
             /\ member[l].heard \in Seq(Nat)
  BY <1>1, <1>2 DEF Hear, Listening, Members
<1>5. ASSUME NEW l \in Listeners, member[l].at = "on"
      PROVE  /\ DOMAIN Hear(n)[l].heard = 1 .. Len(member[l].heard) + 1
             /\ \A i \in 1 .. Len(member[l].heard) : Hear(n)[l].heard[i] = member[l].heard[i]
             /\ Hear(n)[l].heard[Len(member[l].heard) + 1] = n
             /\ ToSet(Hear(n)[l].heard) = ToSet(member[l].heard) \cup {n}
  <2> DEFINE s == member[l].heard
  <2>1. Hear(n)[l].heard = Append(s, n) /\ s \in Seq(Nat)
    BY <1>4, <1>5
  <2> HIDE DEF s
  <2> QED BY <2>1, Joined DEF s
<1> QED BY <1>3, <1>4, <1>5

LEMMA HeardBy ==
  ASSUME BusTypeOK, NEW n \in Nat, NEW m, m = Hear(n)
  PROVE  /\ m \in [Listeners -> Members]
         /\ \A l \in Listeners :
              /\ m[l].at = member[l].at /\ m[l].since = member[l].since
              /\ member[l].at # "on" => m[l].heard = member[l].heard
         /\ \A l \in Listeners : member[l].at = "on" =>
              /\ DOMAIN m[l].heard = 1 .. Len(member[l].heard) + 1
              /\ \A i \in 1 .. Len(member[l].heard) : m[l].heard[i] = member[l].heard[i]
              /\ m[l].heard[Len(member[l].heard) + 1] = n
              /\ ToSet(m[l].heard) = ToSet(member[l].heard) \cup {n}
<1>1. \A l \in Listeners :
        /\ Hear(n)[l].at = member[l].at /\ Hear(n)[l].since = member[l].since
        /\ member[l].at # "on" => Hear(n)[l].heard = member[l].heard
  BY HearIs, Zenon
<1>2. ASSUME NEW l \in Listeners, member[l].at = "on"
      PROVE  /\ DOMAIN Hear(n)[l].heard = 1 .. Len(member[l].heard) + 1
             /\ \A i \in 1 .. Len(member[l].heard) : Hear(n)[l].heard[i] = member[l].heard[i]
             /\ Hear(n)[l].heard[Len(member[l].heard) + 1] = n
             /\ ToSet(Hear(n)[l].heard) = ToSet(member[l].heard) \cup {n}
  BY <1>2, HearIs, ZenonT(40)
<1>3. Hear(n) \in [Listeners -> Members]
  BY HearIs, Zenon
<1> QED BY <1>1, <1>2, <1>3, ZenonT(40)

LEMMA BusFirst == BusInit => BusInv
<1> SUFFICES ASSUME BusInit PROVE BusInv
  OBVIOUS
<1>1. /\ \A l \in Listeners : member[l].at = "idle" /\ member[l].heard = << >>
      /\ commands = << >> /\ messages = << >> /\ published = 0 /\ fannedOut = 0 /\ lost = {}
      /\ subscribed = FALSE /\ line = "up" /\ bus \in {"memory", "redis"}
  BY DEF BusInit
<1>2. member \in [Listeners -> Members]
  BY BusAssumption DEF BusInit, Members, Unconfirmed
<1>3. BusTypeOK
  <2>1. published \in 0 .. MaxPublished /\ fannedOut \in 0 .. published
    BY <1>1, BusAssumption
  <2>2. commands \in Seq({"subscribe", "unsubscribe"}) /\ messages \in Seq(1 .. fannedOut)
    BY <1>1
  <2> QED BY <1>1, <1>2, <2>1, <2>2 DEF BusTypeOK
<1>4. BusAgrees
  BY <1>1 DEF BusAgrees, Wanted, Listening
<1>5. Relied /\ InOrder /\ Heard
  BY <1>1 DEF Relied, InOrder, Heard
<1> QED BY <1>3, <1>4, <1>5 DEF BusInv

LEMMA BusHeld ==
  ASSUME BusInv
  PROVE  /\ \A l \in Listeners : member[l] \in Members /\ member[l].heard \in Seq(Nat) /\ member[l].since \in Nat
         /\ member \in [Listeners -> Members] /\ MaxPublished \in Nat /\ published \in Nat /\ fannedOut \in Nat
         /\ commands \in Seq({"subscribe", "unsubscribe"}) /\ messages \in Seq(1 .. fannedOut)
         /\ messages \in Seq(Nat) /\ published <= MaxPublished /\ fannedOut <= published
         /\ \A l : l \in Listening <=> l \in Listeners /\ member[l].at = "on"
<1>1. \A l \in Listeners : member[l] \in Members
  BY DEF BusInv, BusTypeOK
<1> QED BY <1>1, BusAssumption DEF BusInv, BusTypeOK, Members, Listening

LEMMA SubscribeKeeps ==
  ASSUME BusInv, NEW l \in Listeners, Subscribe(l)
  PROVE  BusInv'
<1>0. /\ member \in [Listeners -> Members] /\ member[l] \in Members
      /\ commands \in Seq({"subscribe", "unsubscribe"}) /\ MaxPublished \in Nat /\ fannedOut \in Nat
      /\ \A k : k \in Listening <=> k \in Listeners /\ member[k].at = "on"
  BY BusHeld
<1>1. /\ commands' = IF bus = "redis" /\ Listening = {} THEN Append(commands, "subscribe") ELSE commands
      /\ member' = [member EXCEPT ![l].at = "on",
                                  ![l].since = IF commands' = << >> THEN fannedOut ELSE Unconfirmed]
      /\ UNCHANGED <<bus, published, fannedOut, messages, subscribed, line, lost>>
      /\ member[l].at = "idle"
  BY DEF Subscribe
<1>2. /\ member' \in [Listeners -> Members]
      /\ member'[l].at = "on" /\ member'[l].heard = member[l].heard
      /\ member'[l].since = IF commands' = << >> THEN fannedOut ELSE MaxPublished + 1
      /\ \A k \in Listeners \ {l} : member'[k] = member[k]
  <2> DEFINE s == IF commands' = << >> THEN fannedOut ELSE MaxPublished + 1
  <2>1. s \in Nat /\ member' = [member EXCEPT ![l].at = "on", ![l].since = s]
    BY <1>0, <1>1 DEF Unconfirmed
  <2> HIDE DEF s
  <2>2. /\ [member[l] EXCEPT !.at = "on", !.since = s] \in Members
        /\ [member[l] EXCEPT !.at = "on", !.since = s].at = "on"
        /\ [member[l] EXCEPT !.at = "on", !.since = s].heard = member[l].heard
        /\ [member[l] EXCEPT !.at = "on", !.since = s].since = s
    BY <1>0, <2>1 DEF Members
  <2>3. member' = [member EXCEPT ![l] = [member[l] EXCEPT !.at = "on", !.since = s]]
    BY <1>0, <2>1
  <2> QED BY <1>0, <2>2, <2>3 DEF s
<1>3. Listening' = Listening \cup {l} /\ l \notin Listening
  BY <1>0, <1>1, <1>2 DEF Listening
<1>4. /\ commands' \in Seq({"subscribe", "unsubscribe"})
      /\ bus = "redis" /\ Listening = {} =>
           commands' # << >> /\ commands'[Len(commands')] = "subscribe"
  BY <1>0, <1>1, Joined
<1>5. BusTypeOK'
  BY <1>1, <1>2, <1>4 DEF BusInv, BusTypeOK
<1>6. BusAgrees'
  <2>1. CASE bus = "redis" /\ Listening = {}
    BY <1>1, <1>3, <1>4, <2>1 DEF BusAgrees, Wanted
  <2>2. CASE ~ (bus = "redis" /\ Listening = {})
    BY <1>1, <1>3, <2>2 DEF BusInv, BusAgrees, Wanted
  <2> QED BY <2>1, <2>2
<1>7. Relied'
  <2> SUFFICES ASSUME NEW k \in Listeners, member'[k].at = "on", member'[k].since <= MaxPublished
               PROVE  commands' = << >>
    BY DEF Relied
  <2>1. CASE k = l
    BY <1>0, <1>2, <2>1
  <2>2. CASE k # l
    <3>1. Listening # {} /\ commands = << >>
      BY <1>0, <1>2, <2>2 DEF BusInv, Relied
    <3> QED BY <1>1, <3>1
  <2> QED BY <2>1, <2>2
<1>8. InOrder'
  <2>1. \A k \in Listeners : member'[k].heard = member[k].heard
    BY <1>2
  <2> QED BY <1>1, <2>1 DEF BusInv, InOrder
<1>9. Heard'
  <2>1. fannedOut <= MaxPublished
    BY BusHeld
  <2> QED BY <1>0, <1>1, <1>2, <2>1 DEF BusInv, Heard
<1> QED BY <1>5, <1>6, <1>7, <1>8, <1>9 DEF BusInv

LEMMA UnsubscribeKeeps ==
  ASSUME BusInv, NEW l \in Listeners, Unsubscribe(l)
  PROVE  BusInv'
<1>0. /\ member \in [Listeners -> Members] /\ member[l] \in Members
      /\ commands \in Seq({"subscribe", "unsubscribe"})
      /\ \A k : k \in Listening <=> k \in Listeners /\ member[k].at = "on"
  BY BusHeld
<1>1. /\ commands' = IF bus = "redis" /\ Listening = {l} THEN Append(commands, "unsubscribe") ELSE commands
      /\ member' = [member EXCEPT ![l].at = "off"]
      /\ UNCHANGED <<bus, published, fannedOut, messages, subscribed, line, lost>>
      /\ member[l].at = "on"
  BY DEF Unsubscribe
<1>2. /\ member' \in [Listeners -> Members]
      /\ member'[l].at = "off" /\ member'[l].heard = member[l].heard
      /\ \A k \in Listeners \ {l} : member'[k] = member[k]
  BY <1>0, <1>1 DEF Members
<1>3. Listening' = Listening \ {l} /\ l \in Listening
  BY <1>0, <1>1, <1>2 DEF Listening
<1>4. /\ commands' \in Seq({"subscribe", "unsubscribe"})
      /\ bus = "redis" /\ Listening = {l} =>
           commands' # << >> /\ commands'[Len(commands')] = "unsubscribe"
  BY <1>0, <1>1, Joined
<1>5. BusTypeOK'
  BY <1>1, <1>2, <1>4 DEF BusInv, BusTypeOK
<1>6. BusAgrees'
  <2>1. CASE bus = "redis" /\ Listening = {l}
    BY <1>1, <1>3, <1>4, <2>1 DEF BusAgrees, Wanted
  <2>2. CASE ~ (bus = "redis" /\ Listening = {l})
    BY <1>1, <1>3, <2>2 DEF BusInv, BusAgrees, Wanted
  <2> QED BY <2>1, <2>2
<1>7. Relied'
  <2> SUFFICES ASSUME NEW k \in Listeners, member'[k].at = "on", member'[k].since <= MaxPublished
               PROVE  commands' = << >>
    BY DEF Relied
  <2>1. k # l /\ commands = << >> /\ k \in Listening
    BY <1>0, <1>1, <1>2 DEF BusInv, Relied
  <2> QED BY <1>1, <2>1
<1>8. InOrder'
  <2>1. \A k \in Listeners : member'[k].heard = member[k].heard
    BY <1>2
  <2> QED BY <1>1, <2>1 DEF BusInv, InOrder
<1>9. Heard'
  BY <1>1, <1>2 DEF BusInv, Heard
<1> QED BY <1>5, <1>6, <1>7, <1>8, <1>9 DEF BusInv

LEMMA InMemoryKeeps ==
  ASSUME BusInv, PublishInMemory
  PROVE  BusInv'
<1> DEFINE n == published + 1
<1>0. /\ \A k \in Listeners : member[k].heard \in Seq(Nat) /\ DOMAIN member[k].heard = 1 .. Len(member[k].heard)
      /\ MaxPublished \in Nat /\ published \in Nat /\ fannedOut \in Nat
      /\ \A k : k \in Listening <=> k \in Listeners /\ member[k].at = "on"
  BY BusHeld
<1>1. /\ bus = "memory" /\ published' = n /\ fannedOut' = n /\ member' = Hear(n) /\ n <= MaxPublished /\ n \in Nat
      /\ n = published + 1
      /\ UNCHANGED <<bus, commands, messages, subscribed, line, lost>>
      /\ commands = << >> /\ messages = << >> /\ fannedOut = published
  BY <1>0 DEF PublishInMemory, BusInv, BusAgrees
<1> HIDE DEF n
<1>2. /\ member' \in [Listeners -> Members]
      /\ \A k \in Listeners :
           /\ member'[k].at = member[k].at /\ member'[k].since = member[k].since
           /\ member[k].at # "on" => member'[k].heard = member[k].heard
  <2>1. BusTypeOK /\ n \in Nat /\ member' = Hear(n)
    BY <1>1 DEF BusInv
  <2> QED BY <2>1, HeardBy
<1>3. \A k \in Listeners : member[k].at = "on" =>
        /\ DOMAIN member'[k].heard = 1 .. Len(member[k].heard) + 1
        /\ \A i \in 1 .. Len(member[k].heard) : member'[k].heard[i] = member[k].heard[i]
        /\ member'[k].heard[Len(member[k].heard) + 1] = n
        /\ ToSet(member'[k].heard) = ToSet(member[k].heard) \cup {n}
  <2>1. BusTypeOK /\ n \in Nat /\ member' = Hear(n)
    BY <1>1 DEF BusInv
  <2> QED BY <2>1, HeardBy
<1>4. BusTypeOK'
  <2>1. /\ bus' \in {"memory", "redis"} /\ line' \in {"up", "down", "again"}
        /\ commands' \in Seq({"subscribe", "unsubscribe"})
        /\ subscribed' \in BOOLEAN /\ lost' \subseteq Nat
    BY <1>1, Zenon DEF BusInv, BusTypeOK
  <2>2. published' \in 0 .. MaxPublished /\ fannedOut' \in 0 .. published'
    BY <1>0, <1>1
  <2>3. messages' \in Seq(1 .. fannedOut')
    BY <1>1
  <2> QED BY <1>2, <2>1, <2>2, <2>3, Zenon DEF BusTypeOK
<1>5. BusAgrees' /\ Relied'
  BY <1>1, <1>2 DEF BusAgrees, Relied
<1>6. InOrder'
  <2> SUFFICES ASSUME NEW k \in Listeners, NEW i \in DOMAIN member'[k].heard
               PROVE  /\ member'[k].heard[i] <= n
                      /\ i > 1 => member'[k].heard[i - 1] < member'[k].heard[i]
    BY <1>1 DEF InOrder
  <2>1. CASE member[k].at = "on" /\ i = Len(member[k].heard) + 1
    <3>1. member'[k].heard[i] = n
      BY <1>3, <2>1
    <3>2. ASSUME i > 1 PROVE member'[k].heard[i - 1] < n
      <4>1. i - 1 \in 1 .. Len(member[k].heard) /\ i - 1 \in DOMAIN member[k].heard
        BY <1>0, <2>1, <3>2
      <4>2. member[k].heard[i - 1] <= fannedOut /\ member[k].heard[i - 1] \in Nat
        BY <1>0, <4>1 DEF BusInv, InOrder
      <4>3. member'[k].heard[i - 1] = member[k].heard[i - 1]
        BY <1>3, <2>1, <4>1
      <4> QED BY <1>0, <1>1, <4>2, <4>3
    <3> QED BY <1>1, <3>1, <3>2
  <2>2. CASE i \in 1 .. Len(member[k].heard)
    <3>1. i \in DOMAIN member[k].heard /\ member'[k].heard[i] = member[k].heard[i]
      BY <1>0, <1>2, <1>3, <2>2
    <3>2. member[k].heard[i] <= fannedOut /\ member[k].heard[i] \in Nat
      BY <1>0, <3>1 DEF BusInv, InOrder
    <3>3. ASSUME i > 1 PROVE member'[k].heard[i - 1] < member'[k].heard[i]
      <4>1. i - 1 \in 1 .. Len(member[k].heard)
        BY <1>0, <2>2, <3>3
      <4>2. member'[k].heard[i - 1] = member[k].heard[i - 1]
        BY <1>2, <1>3, <4>1
      <4> QED BY <3>1, <3>3, <4>2 DEF BusInv, InOrder
    <3> QED BY <1>0, <1>1, <3>1, <3>2, <3>3
  <2> QED BY <1>0, <1>2, <1>3, <2>1, <2>2
<1>7. Heard'
  <2> SUFFICES ASSUME NEW k \in Listeners, member[k].at = "on", NEW e \in 1 .. n, e > member[k].since
               PROVE  e \in ToSet(member'[k].heard) \cup ToSet(messages) \cup lost
    BY <1>1, <1>2 DEF Heard
  <2>1. CASE e = n
    BY <1>3, <2>1
  <2>2. CASE e # n
    <3>1. e \in 1 .. fannedOut
      BY <1>0, <1>1, <2>2
    <3> QED BY <1>3, <3>1 DEF BusInv, Heard
  <2> QED BY <2>1, <2>2
<1> QED BY <1>4, <1>5, <1>6, <1>7 DEF BusInv

LEMMA DispatchKeeps ==
  ASSUME BusInv, Dispatch
  PROVE  BusInv'
<1> DEFINE n == messages[1]
<1>0. /\ \A k \in Listeners : member[k].heard \in Seq(Nat) /\ DOMAIN member[k].heard = 1 .. Len(member[k].heard)
      /\ messages \in Seq(1 .. fannedOut) /\ fannedOut \in Nat /\ messages # << >> /\ Len(messages) \in Nat
      /\ DOMAIN messages = 1 .. Len(messages)
      /\ \A k : k \in Listening <=> k \in Listeners /\ member[k].at = "on"
  BY BusHeld DEF Dispatch
<1>1. /\ messages' \in Seq(1 .. fannedOut) /\ Head(messages) = n /\ n \in 1 .. fannedOut /\ n \in Nat
      /\ DOMAIN messages' = 1 .. Len(messages) - 1 /\ 1 \in DOMAIN messages
      /\ \A i \in 1 .. Len(messages) - 1 : messages'[i] = messages[i + 1] /\ i + 1 \in DOMAIN messages
      /\ ToSet(messages) = ToSet(messages') \cup {n}
  <2> DEFINE t == Tail(messages)
  <2>1. /\ t \in Seq(1 .. fannedOut) /\ Head(messages) = n /\ n \in 1 .. fannedOut
        /\ DOMAIN t = 1 .. Len(messages) - 1 /\ 1 \in DOMAIN messages
        /\ \A i \in 1 .. Len(messages) - 1 : t[i] = messages[i + 1] /\ i + 1 \in DOMAIN messages
        /\ ToSet(messages) = ToSet(t) \cup {n}
    BY <1>0, Served, ZenonT(40)
  <2>2. messages' = t
    BY DEF Dispatch
  <2> HIDE DEF n, t
  <2>3. n \in Nat
    BY <1>0, <2>1
  <2> QED BY <2>1, <2>2, <2>3, Zenon
<1>2. /\ member' = Hear(n)
      /\ UNCHANGED <<bus, published, fannedOut, commands, subscribed, line, lost>>
  BY <1>1 DEF Dispatch
<1> HIDE DEF n
<1>3. /\ member' \in [Listeners -> Members]
      /\ \A k \in Listeners :
           /\ member'[k].at = member[k].at /\ member'[k].since = member[k].since
           /\ member[k].at # "on" => member'[k].heard = member[k].heard
  <2>1. BusTypeOK /\ n \in Nat /\ member' = Hear(n)
    BY <1>1, <1>2 DEF BusInv
  <2> QED BY <2>1, HeardBy
<1>4. \A k \in Listeners : member[k].at = "on" =>
        /\ DOMAIN member'[k].heard = 1 .. Len(member[k].heard) + 1
        /\ \A i \in 1 .. Len(member[k].heard) : member'[k].heard[i] = member[k].heard[i]
        /\ member'[k].heard[Len(member[k].heard) + 1] = n
        /\ ToSet(member'[k].heard) = ToSet(member[k].heard) \cup {n}
  <2>1. BusTypeOK /\ n \in Nat /\ member' = Hear(n)
    BY <1>1, <1>2 DEF BusInv
  <2> QED BY <2>1, HeardBy
<1>5. BusTypeOK'
  <2>1. /\ bus' \in {"memory", "redis"} /\ line' \in {"up", "down", "again"}
        /\ published' \in 0 .. MaxPublished /\ fannedOut' \in 0 .. published'
        /\ commands' \in Seq({"subscribe", "unsubscribe"})
        /\ subscribed' \in BOOLEAN /\ lost' \subseteq Nat
    BY <1>2, Zenon DEF BusInv, BusTypeOK
  <2>2. messages' \in Seq(1 .. fannedOut')
    BY <1>1, <1>2, Zenon
  <2> QED BY <1>3, <2>1, <2>2, Zenon DEF BusTypeOK
<1>6. BusAgrees' /\ Relied'
  <2>1. Listening' = Listening
    BY <1>0, <1>3 DEF Listening
  <2>2. bus # "memory"
    BY <1>0 DEF BusInv, BusAgrees
  <2> QED BY <1>2, <1>3, <2>1, <2>2 DEF BusInv, BusAgrees, Relied, Wanted
<1>7. InOrder'
  <2>1. ASSUME NEW i \in DOMAIN messages', NEW j \in DOMAIN messages', i < j PROVE messages'[i] < messages'[j]
    <3>1. i \in 1 .. Len(messages) - 1 /\ j \in 1 .. Len(messages) - 1
      BY <1>1
    <3>2. i + 1 < j + 1 /\ i + 1 \in DOMAIN messages /\ j + 1 \in DOMAIN messages
      BY <1>0, <2>1, <3>1
    <3> QED BY <1>1, <3>1, <3>2 DEF BusInv, InOrder
  <2>2. \A j \in DOMAIN messages' : n < messages'[j]
    <3> SUFFICES ASSUME NEW j \in DOMAIN messages' PROVE n < messages'[j]
      OBVIOUS
    <3>1. j \in 1 .. Len(messages) - 1
      BY <1>1
    <3>2. 1 < j + 1 /\ j + 1 \in DOMAIN messages
      BY <1>0, <3>1
    <3> QED BY <1>1, <3>1, <3>2 DEF BusInv, InOrder, n
  <2>3. ASSUME NEW k \in Listeners, NEW i \in DOMAIN member'[k].heard
        PROVE  /\ member'[k].heard[i] <= fannedOut
               /\ \A j \in DOMAIN messages' : member'[k].heard[i] < messages'[j]
               /\ i > 1 => member'[k].heard[i - 1] < member'[k].heard[i]
    <3>1. CASE member[k].at = "on" /\ i = Len(member[k].heard) + 1
      <4>1. member'[k].heard[i] = n
        BY <1>4, <3>1
      <4>2. ASSUME i > 1 PROVE member'[k].heard[i - 1] < n
        <5>1. i - 1 \in 1 .. Len(member[k].heard) /\ i - 1 \in DOMAIN member[k].heard
          BY <1>0, <3>1, <4>2
        <5>2. member[k].heard[i - 1] < n
          BY <1>1, <5>1 DEF BusInv, InOrder, n
        <5> QED BY <1>4, <3>1, <5>1, <5>2
      <4> QED BY <1>0, <1>1, <2>2, <4>1, <4>2
    <3>2. CASE i \in 1 .. Len(member[k].heard)
      <4>1. i \in DOMAIN member[k].heard /\ member'[k].heard[i] = member[k].heard[i]
        BY <1>0, <1>3, <1>4, <3>2
      <4>2. \A j \in DOMAIN messages' : member[k].heard[i] < messages'[j]
        BY <1>1, <4>1 DEF BusInv, InOrder
      <4>3. ASSUME i > 1 PROVE member'[k].heard[i - 1] < member'[k].heard[i]
        <5>1. i - 1 \in 1 .. Len(member[k].heard)
          BY <1>0, <3>2, <4>3
        <5>2. member'[k].heard[i - 1] = member[k].heard[i - 1]
          BY <1>3, <1>4, <5>1
        <5> QED BY <4>1, <4>3, <5>2 DEF BusInv, InOrder
      <4> QED BY <4>1, <4>2, <4>3 DEF BusInv, InOrder
    <3>3. (member[k].at = "on" /\ i = Len(member[k].heard) + 1) \/ i \in 1 .. Len(member[k].heard)
      <4>1. CASE member[k].at = "on"
        <5>1. Len(member[k].heard) \in Nat
          BY <1>0
        <5>2. DOMAIN member'[k].heard = 1 .. Len(member[k].heard) + 1
          BY <1>4, <4>1
        <5>3. i \in 1 .. Len(member[k].heard) + 1
          BY <5>2
        <5> QED BY <4>1, <5>1, <5>3
      <4>2. CASE member[k].at # "on"
        BY <1>0, <1>3, <4>2
      <4> QED BY <4>1, <4>2
    <3> QED BY <3>1, <3>2, <3>3
  <2> QED BY <1>2, <2>1, <2>3 DEF InOrder
<1>8. Heard'
  <2> SUFFICES ASSUME NEW k \in Listeners, member[k].at = "on", NEW e \in 1 .. fannedOut, e > member[k].since
               PROVE  e \in ToSet(member'[k].heard) \cup ToSet(messages') \cup lost
    BY <1>2, <1>3 DEF Heard
  <2>1. e \in ToSet(member[k].heard) \cup ToSet(messages) \cup lost
    BY DEF BusInv, Heard
  <2> QED BY <1>1, <1>4, <2>1
<1> QED BY <1>5, <1>6, <1>7, <1>8 DEF BusInv

LEMMA RedisObeysKeeps ==
  ASSUME BusInv, RedisObeys
  PROVE  BusInv'
<1>0. /\ member \in [Listeners -> Members] /\ \A k \in Listeners : member[k] \in Members
      /\ commands \in Seq({"subscribe", "unsubscribe"}) /\ commands # << >>
      /\ MaxPublished \in Nat /\ fannedOut \in Nat /\ fannedOut <= MaxPublished
      /\ \A k : k \in Listening <=> k \in Listeners /\ member[k].at = "on"
  BY BusHeld DEF RedisObeys
<1>1. /\ commands' = Tail(commands) /\ subscribed' = (Head(commands) = "subscribe")
      /\ UNCHANGED <<bus, published, fannedOut, messages, line, lost>>
      /\ member' = [l \in Listeners |-> IF l \in Listening /\ Len(commands) = 1
                                        THEN [member[l] EXCEPT !.since = fannedOut] ELSE member[l]]
  BY DEF RedisObeys
<1>2. bus = "redis"
  BY <1>0 DEF BusInv, BusAgrees, BusTypeOK
<1>3. /\ commands' \in Seq({"subscribe", "unsubscribe"}) /\ Head(commands) = commands[1]
      /\ Len(commands') = Len(commands) - 1
      /\ \A i \in 1 .. Len(commands) - 1 : commands'[i] = commands[i + 1]
  BY <1>0, <1>1, Served
<1>4. /\ member' \in [Listeners -> Members]
      /\ \A k \in Listeners :
           /\ member'[k].at = member[k].at /\ member'[k].heard = member[k].heard
           /\ member'[k].since = IF k \in Listening /\ Len(commands) = 1 THEN fannedOut ELSE member[k].since
  BY <1>0, <1>1 DEF Members
<1>5. subscribed' \in BOOLEAN
  BY <1>1
<1>6. BusTypeOK'
  BY <1>1, <1>3, <1>4, <1>5 DEF BusInv, BusTypeOK
<1>7. Listening' = Listening
  BY <1>0, <1>4 DEF Listening
<1>8. Wanted' = Wanted
  <2>1. Wanted = (commands[Len(commands)] = "subscribe")
    BY <1>0 DEF Wanted
  <2>2. CASE Len(commands) = 1
    <3>1. commands' = << >>
      BY <1>3, <2>2
    <3> QED BY <1>1, <1>3, <2>1, <2>2, <3>1 DEF Wanted
  <2>3. CASE Len(commands) # 1
    <3>1. Len(commands) - 1 \in 1 .. Len(commands) - 1 /\ commands' # << >>
      BY <1>0, <1>3, <2>3
    <3>2. commands'[Len(commands')] = commands[Len(commands)]
      BY <1>0, <1>3, <3>1
    <3> QED BY <2>1, <3>1, <3>2 DEF Wanted
  <2> QED BY <2>2, <2>3
<1>9. BusAgrees'
  BY <1>1, <1>2, <1>7, <1>8 DEF BusInv, BusAgrees
<1>10. Relied'
  <2> SUFFICES ASSUME NEW k \in Listeners, member'[k].at = "on", member'[k].since <= MaxPublished
               PROVE  commands' = << >>
    BY DEF Relied
  <2>1. CASE Len(commands) = 1
    BY <1>3, <2>1
  <2>2. CASE Len(commands) # 1
    BY <1>0, <1>4, <2>2 DEF BusInv, Relied
  <2> QED BY <2>1, <2>2
<1>11. InOrder'
  BY <1>1, <1>4 DEF BusInv, InOrder
<1>12. Heard'
  BY <1>0, <1>1, <1>4 DEF BusInv, Heard
<1> QED BY <1>6, <1>9, <1>10, <1>11, <1>12 DEF BusInv

LEMMA FansOutKeeps ==
  ASSUME BusInv, RedisFansOut
  PROVE  BusInv'
<1> DEFINE n == fannedOut + 1
<1>0. /\ \A k \in Listeners : /\ member[k].heard \in Seq(Nat) /\ member[k].since \in Nat
                              /\ \A i \in DOMAIN member[k].heard : member[k].heard[i] \in Nat
      /\ messages \in Seq(1 .. fannedOut) /\ fannedOut \in Nat /\ published \in Nat /\ MaxPublished \in Nat
      /\ published <= MaxPublished
      /\ \A k : k \in Listening <=> k \in Listeners /\ member[k].at = "on"
  BY BusHeld, SMTT(30)
<1>1. /\ bus = "redis" /\ fannedOut < published /\ fannedOut' = n
      /\ messages' = IF subscribed /\ line # "down" THEN Append(messages, n) ELSE messages
      /\ lost' = IF subscribed /\ line = "down" THEN lost \cup {n} ELSE lost
      /\ UNCHANGED <<bus, published, member, commands, subscribed, line>>
  BY DEF RedisFansOut
<1>2. n \in Nat /\ n \in 1 .. published /\ n \in 1 .. n /\ messages \in Seq(1 .. n)
  <2>1. 1 .. fannedOut \subseteq 1 .. n
    BY <1>0
  <2>2. messages \in Seq(1 .. n)
    BY <1>0, <2>1
  <2> QED BY <1>0, <1>1, <2>2
<1>3. \A i \in DOMAIN messages : messages[i] < n /\ messages[i] \in Nat
  <2> SUFFICES ASSUME NEW i \in DOMAIN messages PROVE messages[i] < n /\ messages[i] \in Nat
    OBVIOUS
  <2>1. messages[i] \in 1 .. fannedOut
    BY <1>0
  <2> QED BY <1>0, <2>1
<1> HIDE DEF n
<1>4. /\ messages' \in Seq(1 .. n)
      /\ ToSet(messages) \subseteq ToSet(messages')
      /\ subscribed /\ line # "down" => n \in ToSet(messages')
      /\ \A i \in DOMAIN messages' :
           messages'[i] = n \/ (i \in DOMAIN messages /\ messages'[i] = messages[i])
      /\ \A i \in DOMAIN messages' : i \in DOMAIN messages \/ \A j \in DOMAIN messages' : j <= i
  <2>1. CASE subscribed /\ line # "down"
    <3>1. /\ messages' \in Seq(1 .. n) /\ DOMAIN messages' = 1 .. Len(messages) + 1
          /\ \A i \in 1 .. Len(messages) : messages'[i] = messages[i]
          /\ messages'[Len(messages) + 1] = n
          /\ ToSet(messages') = ToSet(messages) \cup {n}
      BY <1>1, <1>2, <2>1, Joined
    <3>2. DOMAIN messages = 1 .. Len(messages) /\ Len(messages) \in Nat
      BY <1>0
    <3> QED BY <3>1, <3>2
  <2>2. CASE ~ (subscribed /\ line # "down")
    BY <1>1, <1>2, <2>2
  <2> QED BY <2>1, <2>2
<1>5. BusTypeOK'
  <2>1. lost' \subseteq Nat
    BY <1>1, <1>2 DEF BusInv, BusTypeOK
  <2> QED BY <1>0, <1>1, <1>2, <1>4, <2>1 DEF BusInv, BusTypeOK
<1>6. BusAgrees' /\ Relied'
  BY <1>1 DEF BusInv, BusAgrees, Relied, Wanted, Listening
<1>7. InOrder'
  <2>1. ASSUME NEW i \in DOMAIN messages', NEW j \in DOMAIN messages', i < j PROVE messages'[i] < messages'[j]
    <3>2. i \in DOMAIN messages
      BY <1>0, <1>4, <2>1
    <3>3. messages'[i] = messages[i]
      <4>1. CASE subscribed /\ line # "down"
        BY <1>0, <1>1, <1>2, <3>2, <4>1, Joined
      <4>2. CASE ~ (subscribed /\ line # "down")
        BY <1>1, <4>2
      <4> QED BY <4>1, <4>2
    <3> QED BY <1>3, <1>4, <2>1, <3>2, <3>3 DEF BusInv, InOrder
  <2>2. ASSUME NEW k \in Listeners, NEW i \in DOMAIN member[k].heard
        PROVE  /\ member[k].heard[i] <= n
               /\ \A j \in DOMAIN messages' : member[k].heard[i] < messages'[j]
               /\ i > 1 => member[k].heard[i - 1] < member[k].heard[i]
    <3>1. member[k].heard[i] <= fannedOut /\ member[k].heard[i] \in Nat
      BY <1>0 DEF BusInv, InOrder
    <3>2. member[k].heard[i] < n
      BY <1>0, <3>1 DEF n
    <3>3. ASSUME NEW j \in DOMAIN messages' PROVE member[k].heard[i] < messages'[j]
      BY <1>4, <3>2 DEF BusInv, InOrder
    <3>4. i > 1 => member[k].heard[i - 1] < member[k].heard[i]
      BY DEF BusInv, InOrder
    <3>5. member[k].heard[i] <= n
      BY <1>2, <3>1, <3>2
    <3> QED BY <3>3, <3>4, <3>5
  <2> QED BY <1>1, <2>1, <2>2 DEF InOrder
<1>8. Heard'
  <2> SUFFICES ASSUME NEW k \in Listeners, member[k].at = "on", NEW e \in 1 .. n, e > member[k].since
               PROVE  e \in ToSet(member[k].heard) \cup ToSet(messages') \cup lost'
    BY <1>1 DEF Heard
  <2>1. CASE e = n
    <3>1. member[k].since <= MaxPublished
      BY <1>0, <1>1, <1>2, <2>1
    <3>2. commands = << >> /\ Listening # {}
      BY <1>0, <3>1 DEF BusInv, Relied
    <3>3. subscribed
      BY <1>1, <3>2 DEF BusInv, BusAgrees, Wanted
    <3> QED BY <1>1, <1>4, <2>1, <3>3
  <2>2. CASE e # n
    <3>1. e \in 1 .. fannedOut
      BY <1>0, <1>2, <2>2 DEF n
    <3>2. e \in ToSet(member[k].heard) \cup ToSet(messages) \cup lost
      BY <3>1 DEF BusInv, Heard
    <3> QED BY <1>1, <1>4, <3>2
  <2> QED BY <2>1, <2>2
<1> QED BY <1>5, <1>6, <1>7, <1>8 DEF BusInv

LEMMA LineLostKeeps ==
  ASSUME BusInv, LineLost
  PROVE  BusInv'
<1>0. messages \in Seq(Nat) /\ fannedOut \in Nat
  BY BusHeld
<1>1. /\ bus = "redis" /\ line' = "down" /\ messages' = << >> /\ lost' = lost \cup ToSet(messages)
      /\ UNCHANGED <<bus, published, fannedOut, member, commands, subscribed>>
  BY DEF LineLost
<1>2. ToSet(messages) \subseteq Nat
  BY <1>0 DEF ToSet
<1>3. BusTypeOK'
  <2>1. lost' \subseteq Nat
    BY <1>1, <1>2 DEF BusInv, BusTypeOK
  <2>2. messages' \in Seq(1 .. fannedOut)
    BY <1>1
  <2> QED BY <1>1, <2>1, <2>2 DEF BusInv, BusTypeOK
<1>4. BusAgrees' /\ Relied'
  BY <1>1 DEF BusInv, BusAgrees, Relied, Wanted, Listening
<1>5. InOrder'
  BY <1>1 DEF BusInv, InOrder
<1>6. Heard'
  BY <1>1 DEF BusInv, Heard
<1> QED BY <1>3, <1>4, <1>5, <1>6 DEF BusInv

LEMMA OthersKeep ==
  ASSUME BusInv, PublishToRedis \/ LineBack \/ UNCHANGED busVars
  PROVE  BusInv'
<1>1. /\ UNCHANGED <<bus, fannedOut, member, commands, messages, subscribed, lost>>
      /\ published' = published \/ (bus = "redis" /\ published' = published + 1 /\ published < MaxPublished)
      /\ line' \in {line, "again"}
  BY DEF PublishToRedis, LineBack, busVars
<1>2. published \in Nat /\ fannedOut \in Nat /\ fannedOut <= published /\ published <= MaxPublished /\ MaxPublished \in Nat
  BY BusHeld
<1>3. published' \in 0 .. MaxPublished /\ fannedOut \in 0 .. published'
  BY <1>1, <1>2
<1>4. BusTypeOK'
  BY <1>1, <1>3 DEF BusInv, BusTypeOK
<1>5. BusAgrees' /\ Relied'
  BY <1>1 DEF BusInv, BusAgrees, Relied, Wanted, Listening
<1>6. InOrder' /\ Heard'
  BY <1>1 DEF BusInv, InOrder, Heard
<1> QED BY <1>4, <1>5, <1>6 DEF BusInv

LEMMA BusKept == BusInv /\ [BusNext]_busVars => BusInv'
BY SubscribeKeeps, UnsubscribeKeeps, InMemoryKeeps, DispatchKeeps, RedisObeysKeeps, FansOutKeeps,
   LineLostKeeps, OthersKeep DEF BusNext

(* Whoever listens hears events once and in order, and from the moment the *)
(* process is on Redis' list for him all but those lost with the           *)
(* connection, for any number of listeners that come and go in any order   *)
(* and any number of events (RedisEventBus counts the listeners of a       *)
(* channel and awaits neither command).                                    *)
THEOREM EventsAreHeard == BusSpec => []ListenersHear
<1>1. BusInv => ListenersHear
  <2> SUFFICES ASSUME BusInv PROVE ListenersHear
    OBVIOUS
  <2>1. \A l \in Listeners : \A i \in 2 .. Len(member[l].heard) : member[l].heard[i - 1] < member[l].heard[i]
    <3> SUFFICES ASSUME NEW l \in Listeners, NEW i \in 2 .. Len(member[l].heard)
                 PROVE  member[l].heard[i - 1] < member[l].heard[i]
      OBVIOUS
    <3>1. i \in DOMAIN member[l].heard /\ i > 1
      BY BusHeld
    <3> QED BY <3>1 DEF BusInv, InOrder
  <2>2. \A l \in Listeners : l \in Listening => member[l].at = "on"
    BY DEF Listening
  <2>3. bus = "redis" /\ commands = << >> => (subscribed <=> Listening # {})
    BY DEF BusInv, BusAgrees, Wanted
  <2> QED BY <2>1, <2>2, <2>3 DEF ListenersHear, BusInv, Heard
<1> QED BY <1>1, BusFirst, BusKept, PTL DEF BusSpec

-----------------------------------------------------------------------------
(* The trace of an execution: one attempt writes over the rows of another. *)

LoopSpec == LoopInit /\ [][LoopNext]_loopVars

(* A sequence of rows; what a row holds besides its output does not matter.*)
Row(x) == "output" \in DOMAIN x
RowSeq(s) == s \in Seq({s[i] : i \in DOMAIN s}) /\ \A i \in DOMAIN s : Row(s[i])

(* The rows up to the attempt's last hold its outputs, an attempt that is  *)
(* about to succeed has just written its answer, and one that is at work   *)
(* has stored none.                                                        *)
TraceInv ==
  /\ RowSeq(trace) /\ RowSeq(said) /\ Row(held)
  /\ Len(said) <= Len(trace)
  /\ \A i \in DOMAIN said : trace[i].output = said[i].output
  /\ at = "succeed" => said # << >> /\ said[Len(said)].output = Unmask(known, reply.text)
  /\ tries \in Nat /\ answered \in 0 .. tries
  /\ final # Blank /\ answered = tries =>
       /\ at \in {"close", "done", "over"}
       /\ said # << >> /\ final = <<said[Len(said)].output>>

LEMMA RowAdded ==
  ASSUME NEW s, RowSeq(s), NEW x, Row(x)
  PROVE  /\ RowSeq(Append(s, x)) /\ Len(Append(s, x)) = Len(s) + 1 /\ Len(s) \in Nat
         /\ DOMAIN s = 1 .. Len(s) /\ DOMAIN Append(s, x) = 1 .. Len(s) + 1
         /\ \A i \in 1 .. Len(s) : Append(s, x)[i] = s[i]
         /\ Append(s, x)[Len(s) + 1] = x
<1> DEFINE S == {s[i] : i \in DOMAIN s} \cup {x}
           t == Append(s, x)
<1>1. s \in Seq(S)
  BY DEF RowSeq
<1>2. x \in S
  OBVIOUS
<1> HIDE DEF S
<1>3. /\ t \in Seq(S) /\ Len(t) = Len(s) + 1 /\ Len(s) \in Nat
      /\ DOMAIN s = 1 .. Len(s) /\ DOMAIN t = 1 .. Len(s) + 1
      /\ \A i \in 1 .. Len(s) : t[i] = s[i]
  BY <1>1, <1>2
<1>4. t[Len(s) + 1] = x
  BY <1>1, <1>2
<1> HIDE DEF t
<1>5. \A i \in DOMAIN t : Row(t[i])
  BY <1>3, <1>4 DEF RowSeq
<1>6. t \in Seq({t[i] : i \in DOMAIN t})
  BY <1>3
<1> QED BY <1>3, <1>4, <1>5, <1>6 DEF t, RowSeq

LEMMA RowWritten ==
  ASSUME NEW s, RowSeq(s), NEW k \in DOMAIN s, NEW x, Row(x)
  PROVE  /\ RowSeq([s EXCEPT ![k] = x]) /\ Len([s EXCEPT ![k] = x]) = Len(s)
         /\ [s EXCEPT ![k] = x][k] = x
         /\ \A i \in DOMAIN s \ {k} : [s EXCEPT ![k] = x][i] = s[i]
<1> DEFINE S == {s[i] : i \in DOMAIN s} \cup {x}
           t == [s EXCEPT ![k] = x]
<1>1. s \in Seq(S) /\ x \in S
  BY DEF RowSeq
<1> HIDE DEF S
<1>2. /\ t \in Seq(S) /\ Len(t) = Len(s) /\ DOMAIN t = DOMAIN s /\ t[k] = x
      /\ \A i \in DOMAIN s \ {k} : t[i] = s[i]
  BY <1>1
<1> HIDE DEF t
<1>3. \A i \in DOMAIN t : Row(t[i])
  BY <1>2 DEF RowSeq
<1>4. t \in Seq({t[i] : i \in DOMAIN t})
  BY <1>2
<1> QED BY <1>2, <1>3, <1>4 DEF t, RowSeq

(* appendStep puts the row where the attempt counts it.                    *)
LEMMA WriteAligns ==
  ASSUME TraceInv, NEW entry, Row(entry), Write(entry)
  PROVE  /\ RowSeq(trace)' /\ RowSeq(said)' /\ (Len(said) <= Len(trace))'
         /\ \A i \in DOMAIN said' : trace'[i].output = said'[i].output
         /\ said' # << >> /\ said'[Len(said')] = entry
<1>1. /\ said' = Append(said, entry) /\ trace' = Upserted(trace, Len(said) + 1, entry)
      /\ RowSeq(trace) /\ RowSeq(said) /\ Len(said) <= Len(trace)
      /\ \A i \in DOMAIN said : trace[i].output = said[i].output
  BY DEF Write, TraceInv
<1>2. /\ RowSeq(said') /\ Len(said') = Len(said) + 1 /\ Len(said) \in Nat
      /\ DOMAIN said = 1 .. Len(said) /\ DOMAIN said' = 1 .. Len(said) + 1
      /\ \A i \in 1 .. Len(said) : said'[i] = said[i]
      /\ said'[Len(said) + 1] = entry
  BY <1>1, RowAdded
<1>3. Len(trace) \in Nat /\ DOMAIN trace = 1 .. Len(trace)
  BY <1>1 DEF RowSeq
<1>4. /\ RowSeq(trace') /\ Len(trace') >= Len(said) + 1
      /\ trace'[Len(said) + 1].output = entry.output
      /\ \A i \in 1 .. Len(said) : trace'[i] = trace[i]
  <2>1. CASE Len(said) + 1 > Len(trace)
    <3>1. Len(trace) = Len(said)
      <4>1. Len(said) <= Len(trace) /\ Len(said) \in Nat /\ Len(trace) \in Nat
        BY <1>1, <1>2, <1>3
      <4> QED BY <2>1, <4>1
    <3>2. trace' = Append(trace, entry)
      BY <1>1, <2>1, Zenon DEF Upserted
    <3>3. /\ RowSeq(Append(trace, entry)) /\ Len(Append(trace, entry)) = Len(trace) + 1
          /\ \A i \in 1 .. Len(trace) : Append(trace, entry)[i] = trace[i]
          /\ Append(trace, entry)[Len(trace) + 1] = entry
      BY <1>1, RowAdded
    <3> QED BY <1>2, <3>1, <3>2, <3>3
  <2>2. CASE ~ (Len(said) + 1 > Len(trace))
    <3> DEFINE k == Len(said) + 1
               x == IF KeepsCreated THEN Kept(trace[k], entry) ELSE entry
    <3>1. k \in DOMAIN trace
      BY <1>2, <1>3, <2>2
    <3>2. Row(trace[k])
      BY <1>1, <3>1 DEF RowSeq
    <3>3. Row(x) /\ x.output = entry.output
      BY <3>2 DEF Kept, Row
    <3>4. trace' = [trace EXCEPT ![k] = x]
      BY <1>1, <2>2 DEF Upserted
    <3> HIDE DEF x
    <3>5. /\ RowSeq(trace') /\ Len(trace') = Len(trace) /\ trace'[k] = x
          /\ \A i \in DOMAIN trace \ {k} : trace'[i] = trace[i]
      BY <1>1, <3>1, <3>3, <3>4, RowWritten
    <3> QED BY <1>2, <1>3, <2>2, <3>3, <3>5
  <2> QED BY <2>1, <2>2
<1>5. \A i \in DOMAIN said' : trace'[i].output = said'[i].output
  <2> SUFFICES ASSUME NEW i \in DOMAIN said' PROVE trace'[i].output = said'[i].output
    OBVIOUS
  <2>1. CASE i = Len(said) + 1
    BY <1>2, <1>4, <2>1
  <2>2. CASE i \in 1 .. Len(said)
    BY <1>1, <1>2, <1>4, <2>2
  <2> QED BY <1>2, <2>1, <2>2
<1>6. said' # << >>
  BY <1>2
<1> QED BY <1>2, <1>4, <1>5, <1>6

LEMMA TraceKept == TraceInv /\ [LoopNext]_loopVars => TraceInv'
<1> SUFFICES ASSUME TraceInv, [LoopNext]_loopVars PROVE TraceInv'
  OBVIOUS
<1>0. /\ Row(Said({})) /\ RowSeq(<< >>) /\ Len(<< >>) = 0 /\ DOMAIN << >> = {}
      /\ RowSeq(trace) /\ Len(trace) \in Nat /\ tries \in Nat /\ answered \in 0 .. tries
  BY DEF Row, Said, RowSeq, TraceInv
<1>1. CASE LogTurn
  <2> DEFINE text == Unmask(known, reply.text)
  <2>1. /\ Write(Said(text)) /\ at = "log" /\ UNCHANGED <<final, tries, answered, known, reply, held>>
        /\ at' = IF reply.calls # << >> THEN "tool" ELSE IF text = {} THEN "empty" ELSE "succeed"
    BY <1>1 DEF LogTurn
  <2>2. Row(Said(text)) /\ Said(text).output = text
    BY DEF Said, Row
  <2>3. ~ (final # Blank /\ answered = tries)
    BY <2>1 DEF TraceInv
  <2> HIDE DEF text
  <2>4. /\ RowSeq(trace)' /\ RowSeq(said)' /\ (Len(said) <= Len(trace))'
        /\ \A i \in DOMAIN said' : trace'[i].output = said'[i].output
        /\ said' # << >> /\ said'[Len(said')] = Said(text)
    BY <2>1, <2>2, WriteAligns
  <2>5. text = Unmask(known', reply'.text)
    BY <2>1 DEF text
  <2> QED BY <2>1, <2>2, <2>3, <2>4, <2>5 DEF TraceInv
<1>2. CASE LogTool
  <2>1. /\ Write(held) /\ at' \in {"ask", "tool"} /\ UNCHANGED <<final, tries, answered>> /\ held' = Said({})
        /\ ~ (final # Blank /\ answered = tries)
    BY <1>2 DEF LogTool, TraceInv
  <2>2. /\ RowSeq(trace)' /\ RowSeq(said)' /\ (Len(said) <= Len(trace))'
        /\ \A i \in DOMAIN said' : trace'[i].output = said'[i].output
    BY <2>1, WriteAligns DEF TraceInv
  <2> QED BY <1>0, <2>1, <2>2 DEF TraceInv
<1>3. CASE AttemptEnds
  <2>1. held' = Said({}) /\ at' = "over" /\ UNCHANGED <<trace, final, tries, said, answered>>
    BY <1>3 DEF AttemptEnds
  <2> QED BY <1>0, <2>1 DEF TraceInv
<1>4. CASE Succeed
  <2>1. /\ at = "succeed" /\ at' = "close" /\ answered' = tries /\ final' = <<Unmask(known, reply.text)>>
        /\ UNCHANGED <<trace, tries, known, reply, held, said>>
    BY <1>4 DEF Succeed, attemptVars
  <2>2. said # << >> /\ final' = <<said[Len(said)].output>>
    BY <2>1 DEF TraceInv
  <2>3. answered' \in 0 .. tries'
    BY <1>0, <2>1
  <2> QED BY <1>0, <2>1, <2>2, <2>3 DEF TraceInv
<1>5. CASE RunTool
  <2>1. Row(held')
    BY <1>5 DEF RunTool, Row
  <2>2. /\ UNCHANGED <<trace, final, tries, said, answered>> /\ at' = "logTool"
        /\ ~ (final # Blank /\ answered = tries)
    BY <1>5 DEF RunTool, TraceInv
  <2> QED BY <2>1, <2>2 DEF TraceInv
<1>6. CASE Ask \/ ModelReplies
  <2>1. /\ UNCHANGED <<trace, final, tries, said, answered, held>> /\ at' \in {"wait", "log"}
        /\ ~ (final # Blank /\ answered = tries)
    BY <1>6 DEF Ask, ModelReplies, TraceInv
  <2> QED BY <2>1 DEF TraceInv
<1>7. CASE BeginAttempt
  <2>1. /\ UNCHANGED <<trace, final, answered, held>> /\ said' = << >> /\ at' = "ask" /\ tries' = tries + 1
    BY <1>7 DEF BeginAttempt
  <2>2. tries' \in Nat /\ answered' \in 0 .. tries' /\ answered' # tries'
    BY <1>0, <2>1
  <2> QED BY <1>0, <2>1, <2>2 DEF TraceInv
<1>8. CASE Closes
  <2>1. /\ UNCHANGED <<trace, final, tries, known, reply, held, said, answered>> /\ at' = "done"
    BY <1>8 DEF Closes, attemptVars
  <2> QED BY <2>1 DEF TraceInv
<1>9. CASE UNCHANGED loopVars
  BY <1>9 DEF loopVars, TraceInv
<1> QED BY <1>1, <1>2, <1>3, <1>4, <1>5, <1>6, <1>7, <1>8, <1>9 DEF LoopNext

(* However attempts are cut off and begun again, the rows up to the last   *)
(* step of an attempt hold its own outputs, and the answer it stored is    *)
(* what the last of them says, also when it threw after that and until     *)
(* another is begun, for any number of attempts and turns (runtime.ts      *)
(* counts the index in two places, appendStep writes over what is there).  *)
THEOREM TraceIsTheAttempts == LoopSpec => []TraceOfAttempt
<1>1. LoopInit => TraceInv
  BY DEF LoopInit, TraceInv, RowSeq, Row, Said
<1>2. TraceInv => TraceOfAttempt
  <2> SUFFICES ASSUME TraceInv PROVE TraceOfAttempt
    OBVIOUS
  <2>1. Len(trace) \in Nat /\ Len(said) \in Nat /\ DOMAIN said = 1 .. Len(said)
    BY DEF TraceInv, RowSeq
  <2>2. ASSUME final # Blank, answered = tries PROVE said # << >> /\ final = <<trace[Len(said)].output>>
    <3>1. said # << >> /\ final = <<said[Len(said)].output>>
      BY <2>2 DEF TraceInv
    <3>2. Len(said) \in DOMAIN said
      BY <2>1, <3>1 DEF TraceInv, RowSeq
    <3> QED BY <3>1, <3>2 DEF TraceInv
  <2> QED BY <2>1, <2>2 DEF TraceInv, TraceOfAttempt
<1> QED BY <1>1, <1>2, TraceKept, PTL DEF LoopSpec
-----------------------------------------------------------------------------
(* Masking: the secrets a run knows, each under a token of its own.        *)

(* SetToSeq lists a finite set.                                            *)
LEMMA ListsAll ==
  ASSUME NEW S, IsFiniteSet(S)
  PROVE  SetToSeq(S) \in Seq(S) /\ Range(SetToSeq(S)) = S
<1> DEFINE n == Cardinality(S)
           f == SetToSeq(S)
<1>1. n \in Nat /\ ExistsBijection(1 .. n, S) BY FS_CardinalityType
<1>2. \E g \in [1 .. n -> S] : IsInjective(g)
  <2>1. PICK g \in Bijection(1 .. n, S) : TRUE BY <1>1 DEF ExistsBijection
  <2> QED BY <2>1 DEF Bijection, Injection
<1>3. f \in [1 .. n -> S] /\ IsInjective(f) BY <1>2 DEF SetToSeq
<1> HIDE DEF f
<1>4. f \in Seq(S)
  <2> HIDE DEF n
  <2> QED BY <1>1, <1>3
<1>5. Range(f) = S
  <2>1. f \in Injection(1 .. n, S) BY <1>3 DEF Injection
  <2>2. f \in Bijection(1 .. n, Range(f)) BY <2>1, Fun_InjMeansBijImage
  <2>3. IsFiniteSet(1 .. n) /\ Cardinality(1 .. n) = n
    <3> HIDE DEF n
    <3>1. IsFiniteSet(1 .. n) /\ Cardinality(1 .. n) = IF 1 > n THEN 0 ELSE n - 1 + 1 BY <1>1, FS_Interval
    <3> QED BY <1>1, <3>1
  <2>4. Cardinality(Range(f)) = n BY <2>2, <2>3, FS_Bijection DEF ExistsBijection
  <2>5. Range(f) \in SUBSET S BY <1>3 DEF Range
  <2> QED BY <2>4, <2>5, FS_Subset
<1> QED BY <1>4, <1>5 DEF f

LEMMA LearnsSecrets ==
  ASSUME NEW tokens \in Seq(Secrets), NEW text
  PROVE  /\ Learn(tokens, text) \in Seq(Secrets)
         /\ DOMAIN tokens \subseteq DOMAIN Learn(tokens, text)
         /\ text \cap Secrets \subseteq Range(Learn(tokens, text))
<1> DEFINE new == (text \cap Secrets) \ Range(tokens)
           t == SetToSeq(new)
           c == tokens \o t
<1>1. new \in SUBSET Secrets OBVIOUS
<1>2. IsFiniteSet(new) BY <1>1, LoopAssumption, FS_Subset
<1> HIDE DEF new
<1>3. t \in Seq(new) /\ Range(t) = new BY <1>2, ListsAll
<1> HIDE DEF t
<1>4. t \in Seq(Secrets) BY <1>1, <1>3
<1>5. /\ c \in Seq(Secrets) /\ Len(c) = Len(tokens) + Len(t)
      /\ \A i \in 1 .. Len(tokens) + Len(t) : c[i] = IF i <= Len(tokens) THEN tokens[i] ELSE t[i - Len(tokens)]
  BY <1>4, ConcatProperties
<1>6. /\ Len(tokens) \in Nat /\ Len(t) \in Nat /\ DOMAIN tokens = 1 .. Len(tokens) /\ DOMAIN t = 1 .. Len(t)
  BY <1>4, LenProperties
<1>7. DOMAIN c = 1 .. Len(tokens) + Len(t) BY <1>5, LenProperties
<1> HIDE DEF c
<1>8. DOMAIN tokens \subseteq DOMAIN c BY <1>6, <1>7
<1>9. ASSUME NEW a \in text \cap Secrets PROVE a \in Range(c)
  <2>1. CASE a \in Range(tokens)
    <3>1. PICK i \in DOMAIN tokens : tokens[i] = a BY <2>1 DEF Range
    <3>2. i \in DOMAIN c /\ c[i] = a BY <1>5, <1>6, <1>7, <3>1
    <3> QED BY <3>2 DEF Range
  <2>2. CASE a \notin Range(tokens)
    <3>1. a \in Range(t) BY <1>3, <2>2 DEF new
    <3>2. PICK i \in DOMAIN t : t[i] = a BY <3>1 DEF Range
    <3> DEFINE k == Len(tokens) + i
    <3>3. k \in 1 .. Len(tokens) + Len(t) /\ ~(k <= Len(tokens)) /\ k - Len(tokens) = i BY <1>6, <3>2
    <3>4. k \in DOMAIN c /\ c[k] = a BY <1>5, <1>7, <3>2, <3>3
    <3> QED BY <3>4 DEF Range
  <2> QED BY <2>1, <2>2
<1> QED BY <1>5, <1>8, <1>9 DEF c, t, new, Learn

LEMMA TokensAreNoSecrets ==
  /\ Tokens \subseteq Nat \ {0} /\ Tokens \cap Secrets = {} /\ Word \notin Tokens /\ Word \notin Secrets
<1>1. Cardinality(Secrets) \in Nat BY LoopAssumption, FS_CardinalityType
<1>2. Tokens \subseteq Nat \ {0} BY <1>1 DEF Tokens
<1> QED BY <1>2, LoopAssumption DEF Word

(* A text whose secrets are known is shown without them.                   *)
LEMMA MaskHides ==
  ASSUME NEW tokens \in Seq(Secrets), NEW text, text \cap Secrets \subseteq Range(tokens)
  PROVE  Mask(tokens, text) \cap Secrets = {}
<1> SUFFICES ASSUME NEW a \in text
             PROVE  (IF a \in Secrets THEN CHOOSE n \in DOMAIN tokens : tokens[n] = a ELSE a) \notin Secrets
  BY DEF Mask
<1>1. CASE a \notin Secrets BY <1>1
<1>2. CASE a \in Secrets
  <2>1. \E n \in DOMAIN tokens : tokens[n] = a BY <1>2 DEF Range
  <2>2. (CHOOSE n \in DOMAIN tokens : tokens[n] = a) \in DOMAIN tokens BY <2>1
  <2>3. DOMAIN tokens \subseteq Nat BY LenProperties
  <2> QED BY <1>2, <2>2, <2>3, LoopAssumption
<1> QED BY <1>1, <1>2

(* What the model says with the tokens it was shown comes back without any.*)
LEMMA UnmaskReveals ==
  ASSUME NEW tokens \in Seq(Secrets), NEW text \in SUBSET ({Word} \cup DOMAIN tokens)
  PROVE  Unmask(tokens, text) \cap Tokens = {}
<1> SUFFICES ASSUME NEW a \in text PROVE (IF a \in DOMAIN tokens THEN tokens[a] ELSE a) \notin Tokens
  BY DEF Unmask
<1>1. CASE a \in DOMAIN tokens
  <2>1. tokens[a] \in Secrets BY <1>1, ElementOfSeq, LenProperties
  <2> QED BY <1>1, <2>1, TokensAreNoSecrets
<1>2. CASE a \notin DOMAIN tokens
  <2>1. a = Word BY <1>2
  <2> QED BY <1>2, <2>1, TokensAreNoSecrets
<1> QED BY <1>1, <1>2

(* A model only ever says tokens it was shown, and what is about to be     *)
(* written as a tool's row is a tool's row.                                *)
MaskInv ==
  /\ known \in Seq(Secrets)
  /\ reply.text \subseteq {Word} \cup DOMAIN known
  /\ at = "logTool" => held.role = "tool"
  /\ MaskedOutsideOnly

(* A row that has no tokens in it if it is the assistant's.                *)
ReadableRow(entry) == entry.role = "assistant" => entry.output \cap Tokens = {}

LEMMA WrittenIsReadable ==
  ASSUME RowSeq(said), \A i \in DOMAIN said : ReadableRow(said[i]),
         NEW entry, Row(entry), ReadableRow(entry), said' = Append(said, entry)
  PROVE  \A i \in DOMAIN said' : ReadableRow(said'[i])
<1>1. /\ DOMAIN said = 1 .. Len(said) /\ DOMAIN said' = 1 .. Len(said) + 1 /\ Len(said) \in Nat
      /\ \A i \in 1 .. Len(said) : said'[i] = said[i]
      /\ said'[Len(said) + 1] = entry
  BY RowAdded
<1> SUFFICES ASSUME NEW i \in 1 .. Len(said) + 1 PROVE ReadableRow(said'[i]) BY <1>1
<1>2. CASE i = Len(said) + 1 BY <1>1, <1>2
<1>3. CASE i \in 1 .. Len(said)
  <2>1. said'[i] = said[i] /\ i \in DOMAIN said BY <1>1, <1>3
  <2> QED BY <2>1
<1> QED BY <1>1, <1>2, <1>3

LEMMA MaskingKept == TraceInv /\ MaskInv /\ [LoopNext]_loopVars => MaskInv'
<1> SUFFICES ASSUME TraceInv, MaskInv, [LoopNext]_loopVars PROVE MaskInv' OBVIOUS
<1>0. /\ known \in Seq(Secrets) /\ reply.text \subseteq {Word} \cup DOMAIN known
      /\ sent \cap Secrets = {} /\ \A i \in DOMAIN said : ReadableRow(said[i])
      /\ final # Blank => final[1] \cap Tokens = {}
      /\ RowSeq(said) /\ Row(held)
  BY DEF MaskInv, MaskedOutsideOnly, ReadableRow, TraceInv
<1>a. ASSUME \A i \in DOMAIN said' : ReadableRow(said'[i]), sent' \cap Secrets = {},
             final' # Blank => final'[1] \cap Tokens = {}
      PROVE  MaskedOutsideOnly'
  BY <1>a DEF MaskedOutsideOnly, ReadableRow
<1>1. CASE Ask
  <2> DEFINE all == UNION Range(talk)
  <2>1. /\ known' = Learn(known, all) /\ at' = "wait" /\ UNCHANGED <<final, reply, held, said>>
        /\ sent' = sent \cup UNION {Mask(known', talk[i]) : i \in DOMAIN talk}
    BY <1>1 DEF Ask
  <2>2. /\ known' \in Seq(Secrets) /\ DOMAIN known \subseteq DOMAIN known' /\ all \cap Secrets \subseteq Range(known')
    BY <1>0, <2>1, LearnsSecrets
  <2>3. ASSUME NEW i \in DOMAIN talk PROVE Mask(known', talk[i]) \cap Secrets = {}
    <3>1. talk[i] \subseteq all BY DEF Range
    <3> HIDE DEF all
    <3>2. talk[i] \cap Secrets \subseteq Range(known') BY <2>2, <3>1
    <3> QED BY <2>2, <3>2, MaskHides
  <2>4. sent' \cap Secrets = {} BY <1>0, <2>1, <2>3
  <2>5. MaskedOutsideOnly' BY <1>0, <1>a, <2>1, <2>4
  <2> QED BY <1>0, <2>1, <2>2, <2>5 DEF MaskInv
<1>2. CASE ModelReplies
  <2>1. /\ reply'.text \in {{}, {Word} \cup DOMAIN known} /\ at' = "log"
        /\ UNCHANGED <<final, known, held, said, sent>>
    BY <1>2 DEF ModelReplies
  <2>2. MaskedOutsideOnly' BY <1>0, <1>a, <2>1
  <2> QED BY <1>0, <2>1, <2>2 DEF MaskInv
<1>3. CASE LogTurn
  <2> DEFINE text == Unmask(known, reply.text)
  <2>1. /\ said' = Append(said, Said(text)) /\ at' # "logTool" /\ UNCHANGED <<final, known, reply, held, sent>>
    BY <1>3 DEF LogTurn, Write
  <2>2. text \cap Tokens = {} BY <1>0, UnmaskReveals
  <2> HIDE DEF text
  <2>3. ReadableRow(Said(text)) /\ Row(Said(text)) BY <2>2 DEF ReadableRow, Said, Row
  <2>4. \A i \in DOMAIN said' : ReadableRow(said'[i]) BY <1>0, <2>1, <2>3, WrittenIsReadable
  <2>5. MaskedOutsideOnly' BY <1>0, <1>a, <2>1, <2>4
  <2> QED BY <1>0, <2>1, <2>5 DEF MaskInv
<1>4. CASE RunTool
  <2>1. held'.role = "tool" /\ at' = "logTool" /\ UNCHANGED <<final, known, reply, said, sent>>
    BY <1>4 DEF RunTool
  <2>2. MaskedOutsideOnly' BY <1>0, <1>a, <2>1
  <2> QED BY <1>0, <2>1, <2>2 DEF MaskInv
<1>5. CASE LogTool
  <2>1. /\ said' = Append(said, held) /\ at' \in {"ask", "tool"} /\ UNCHANGED <<final, known, sent>>
        /\ reply' = [reply EXCEPT !.calls = Tail(@)] /\ held.role = "tool"
    BY <1>5 DEF LogTool, Write, MaskInv
  <2>2. ReadableRow(held) BY <2>1 DEF ReadableRow
  <2>3. \A i \in DOMAIN said' : ReadableRow(said'[i]) BY <1>0, <2>1, <2>2, WrittenIsReadable
  <2>4. reply'.text = reply.text BY <2>1
  <2>5. MaskedOutsideOnly' BY <1>0, <1>a, <2>1, <2>3
  <2> QED BY <1>0, <2>1, <2>4, <2>5 DEF MaskInv
<1>6. CASE Succeed
  <2>1. /\ final' = <<Unmask(known, reply.text)>> /\ at' = "close" /\ UNCHANGED <<known, reply, held, said, sent>>
    BY <1>6 DEF Succeed, attemptVars
  <2>2. final'[1] \cap Tokens = {} BY <1>0, <2>1, UnmaskReveals
  <2>3. MaskedOutsideOnly' BY <1>0, <1>a, <2>1, <2>2
  <2> QED BY <1>0, <2>1, <2>3 DEF MaskInv
<1>7. CASE AttemptEnds
  <2>1. /\ known' = << >> /\ reply' = Nothing /\ at' = "over" /\ UNCHANGED <<final, said, sent>>
    BY <1>7 DEF AttemptEnds
  <2>2. reply'.text = {} BY <2>1 DEF Nothing
  <2>3. << >> \in Seq(Secrets) OBVIOUS
  <2>4. MaskedOutsideOnly' BY <1>0, <1>a, <2>1
  <2> QED BY <2>1, <2>2, <2>3, <2>4 DEF MaskInv
<1>8. CASE BeginAttempt
  <2>1. at' = "ask" /\ said' = << >> /\ UNCHANGED <<final, known, reply, held, sent>> BY <1>8 DEF BeginAttempt
  <2>2. DOMAIN said' = {} BY <2>1
  <2>3. MaskedOutsideOnly' BY <1>0, <1>a, <2>1, <2>2
  <2> QED BY <1>0, <2>1, <2>3 DEF MaskInv
<1>10. CASE Closes
  <2>1. at' = "done" /\ UNCHANGED <<final, known, reply, held, said, sent>> BY <1>10 DEF Closes, attemptVars
  <2>2. MaskedOutsideOnly' BY <1>0, <1>a, <2>1
  <2> QED BY <1>0, <2>1, <2>2 DEF MaskInv
<1>9. CASE UNCHANGED loopVars BY <1>9 DEF loopVars, MaskInv, MaskedOutsideOnly
<1> QED BY <1>1, <1>2, <1>3, <1>4, <1>5, <1>6, <1>7, <1>8, <1>9, <1>10 DEF LoopNext

(* No provider is shown a secret, over any number of turns and attempts    *)
(* and whatever the tools return, and the assistant's rows and the answer  *)
(* have the originals in them again (RegexPiiMasker in executeRun): for    *)
(* any finite set of secrets.                                              *)
THEOREM SecretsStayInside == LoopSpec => []MaskedOutsideOnly
<1>1. LoopInit => TraceInv BY DEF LoopInit, TraceInv, RowSeq, Row, Said
<1>2. LoopInit => MaskInv
  <2> SUFFICES ASSUME LoopInit PROVE MaskInv OBVIOUS
  <2>1. known = << >> /\ said = << >> /\ final = Blank /\ sent = {} /\ at = "idle" /\ reply = Nothing
    BY DEF LoopInit
  <2>2. DOMAIN said = {} BY <2>1
  <2> QED BY <2>1, <2>2 DEF MaskInv, MaskedOutsideOnly, Nothing
<1>3. MaskInv => MaskedOutsideOnly BY DEF MaskInv
<1> QED BY <1>1, <1>2, <1>3, TraceKept, MaskingKept, PTL DEF LoopSpec
-----------------------------------------------------------------------------
(* The tokens a trace reports, and the tokens spent.                       *)

Sums(rows, m, f) == f = [n \in 0 .. m |-> IF n = 0 THEN 0 ELSE f[n - 1] + rows[n].tokens]

(* The recursion of Burn is defined at every length.                       *)
LEMMA SumsExist ==
  ASSUME NEW rows, NEW m \in Nat
  PROVE  \E f : Sums(rows, m, f)
<1> DEFINE S == {k \in Nat : \E f : Sums(rows, k, f)}
<1>1. 0 \in S
  <2>1. Sums(rows, 0, [n \in 0 .. 0 |-> 0]) BY DEF Sums
  <2> QED BY <2>1
<1>2. ASSUME NEW k \in Nat, k \in S PROVE k + 1 \in S
  <2>1. PICK f : Sums(rows, k, f) BY <1>2
  <2> DEFINE h == [n \in 0 .. k + 1 |-> IF n <= k THEN f[n] ELSE f[k] + rows[n].tokens]
  <2>2. Sums(rows, k + 1, h)
    <3> SUFFICES ASSUME NEW n \in 0 .. k + 1
                 PROVE  h[n] = IF n = 0 THEN 0 ELSE h[n - 1] + rows[n].tokens
      BY DEF Sums
    <3>1. CASE n = 0 BY <2>1, <3>1 DEF Sums
    <3>2. CASE n \in 1 .. k
      <4>1. n - 1 \in 0 .. k /\ n \in 0 .. k /\ n # 0 BY <3>2
      <4>2. h[n] = f[n] /\ h[n - 1] = f[n - 1] BY <4>1
      <4> QED BY <2>1, <4>1, <4>2 DEF Sums
    <3>3. CASE n = k + 1
      <4>1. n - 1 = k /\ h[n - 1] = f[k] BY <3>3
      <4> QED BY <3>3, <4>1
    <3> QED BY <3>1, <3>2, <3>3
  <2> QED BY <2>2
<1> HIDE DEF S
<1>3. m \in S BY <1>1, <1>2, NumberInduction
<1> QED BY <1>3 DEF S

LEMMA BurnIsSum ==
  ASSUME NEW rows, Len(rows) \in Nat
  PROVE  \E f : Sums(rows, Len(rows), f) /\ Burn(rows) = f[Len(rows)]
<1> DEFINE g == CHOOSE g : Sums(rows, Len(rows), g)
<1>1. Sums(rows, Len(rows), g) BY SumsExist
<1>2. Burn(rows) = g[Len(rows)] BY DEF Burn, Sums
<1> QED BY <1>1, <1>2

(* Row by row, but for one that may have more by d; with k = 0 none may.   *)
LEMMA SumsCompare ==
  ASSUME NEW s, NEW t, NEW m \in Nat, NEW l \in Nat, m <= l, NEW f, NEW g, Sums(s, m, f), Sums(t, l, g),
         \A n \in 1 .. m : s[n].tokens \in Nat, \A n \in 1 .. l : t[n].tokens \in Nat,
         NEW k, NEW d \in Nat,
         \A n \in 1 .. m : s[n].tokens <= t[n].tokens + (IF n = k THEN d ELSE 0)
  PROVE  f[m] \in Nat /\ g[l] \in Nat /\ f[m] <= g[l] + d
<1> DEFINE S == {n \in 0 .. m : /\ f[n] \in Nat /\ g[n] \in Nat
                                /\ f[n] <= g[n] + d /\ (k \notin 1 .. n => f[n] <= g[n])}
           T == {n \in 0 .. l : g[n] \in Nat /\ (n >= m => g[n] >= g[m])}
<1>0. /\ f[0] = 0 /\ g[0] = 0
      /\ \A n \in 1 .. m : f[n] = f[n - 1] + s[n].tokens
      /\ \A n \in 1 .. l : g[n] = g[n - 1] + t[n].tokens
  BY DEF Sums
<1>1. 0 \in S BY <1>0
<1>2. ASSUME NEW n \in 0 .. m - 1, n \in S PROVE n + 1 \in S
  <2> DEFINE a == f[n]  b == g[n]  x == s[n + 1].tokens  y == t[n + 1].tokens
  <2>1. n + 1 \in 1 .. m /\ n + 1 \in 1 .. l /\ (n + 1) - 1 = n /\ n + 1 \in 0 .. m OBVIOUS
  <2>2. f[n + 1] = a + x /\ g[n + 1] = b + y BY <1>0, <2>1
  <2>3. x \in Nat /\ y \in Nat /\ x <= y + (IF n + 1 = k THEN d ELSE 0) BY <2>1
  <2>4. a \in Nat /\ b \in Nat /\ a <= b + d /\ (k \notin 1 .. n => a <= b) BY <1>2
  <2>5. n + 1 = k => k \notin 1 .. n BY <2>1
  <2>6. k \notin 1 .. n + 1 => k \notin 1 .. n /\ n + 1 # k BY <2>1
  <2> HIDE DEF a, b, x, y
  <2>7. a + x \in Nat /\ b + y \in Nat BY <2>3, <2>4
  <2>8. a + x <= b + y + d BY <2>3, <2>4, <2>5
  <2>9. k \notin 1 .. n + 1 => a + x <= b + y BY <2>3, <2>4, <2>6
  <2> QED BY <2>1, <2>2, <2>7, <2>8, <2>9
<1>3. m \in S
  <2> HIDE DEF S
  <2>1. 0 .. m \subseteq S BY <1>1, <1>2, InductionUpTo
  <2> QED BY <2>1
<1>4. 0 \in T BY <1>0, <1>3
<1>5. ASSUME NEW n \in 0 .. l - 1, n \in T PROVE n + 1 \in T
  <2> DEFINE b == g[n]  y == t[n + 1].tokens
  <2>1. n + 1 \in 1 .. l /\ (n + 1) - 1 = n /\ n + 1 \in 0 .. l OBVIOUS
  <2>2. g[n + 1] = b + y BY <1>0, <2>1
  <2>3. y \in Nat /\ b \in Nat /\ g[m] \in Nat /\ (n >= m => b >= g[m]) BY <1>3, <1>5, <2>1
  <2>4. n + 1 >= m => n >= m \/ n + 1 = m OBVIOUS
  <2> HIDE DEF b, y
  <2>5. n + 1 >= m => g[n + 1] >= g[m] BY <2>2, <2>3, <2>4
  <2> QED BY <2>1, <2>2, <2>3, <2>5
<1>6. l \in T
  <2> HIDE DEF T
  <2>1. 0 .. l \subseteq T BY <1>4, <1>5, InductionUpTo
  <2> QED BY <2>1
<1> QED BY <1>3, <1>6

Counted(rows) == RowSeq(rows) /\ \A i \in DOMAIN rows : "tokens" \in DOMAIN rows[i] /\ rows[i].tokens \in Nat

LEMMA BurnCompares ==
  ASSUME NEW s, NEW t, Counted(s), Counted(t), Len(s) <= Len(t), NEW k, NEW d \in Nat,
         \A n \in DOMAIN s : s[n].tokens <= t[n].tokens + (IF n = k THEN d ELSE 0)
  PROVE  Burn(s) \in Nat /\ Burn(t) \in Nat /\ Burn(s) <= Burn(t) + d
<1>1. /\ Len(s) \in Nat /\ DOMAIN s = 1 .. Len(s) /\ Len(t) \in Nat /\ DOMAIN t = 1 .. Len(t)
      /\ \A n \in 1 .. Len(s) : s[n].tokens \in Nat
      /\ \A n \in 1 .. Len(t) : t[n].tokens \in Nat
  BY DEF Counted, RowSeq
<1>2. PICK f : Sums(s, Len(s), f) /\ Burn(s) = f[Len(s)] BY <1>1, BurnIsSum
<1>3. PICK g : Sums(t, Len(t), g) /\ Burn(t) = g[Len(t)] BY <1>1, BurnIsSum
<1>4. f[Len(s)] \in Nat /\ g[Len(t)] \in Nat /\ f[Len(s)] <= g[Len(t)] + d
  BY <1>1, <1>2, <1>3, SumsCompare
<1> QED BY <1>2, <1>3, <1>4

LEMMA BurnIsCounted == ASSUME NEW s, Counted(s) PROVE Burn(s) \in Nat
<1>1. Len(s) \in Nat /\ \A n \in DOMAIN s : s[n].tokens \in Nat BY DEF Counted, RowSeq
<1>2. Len(s) <= Len(s) /\ \A n \in DOMAIN s : s[n].tokens <= s[n].tokens + (IF n = 0 THEN 0 ELSE 0)
  BY <1>1
<1> QED BY <1>2, BurnCompares

LEMMA BurnAdds ==
  ASSUME NEW s, Counted(s), NEW x, Row(x), "tokens" \in DOMAIN x, x.tokens \in Nat
  PROVE  Counted(Append(s, x)) /\ Burn(Append(s, x)) <= Burn(s) + x.tokens
<1> DEFINE t == Append(s, x)
<1>1. /\ RowSeq(t) /\ Len(t) = Len(s) + 1 /\ Len(s) \in Nat
      /\ DOMAIN s = 1 .. Len(s) /\ DOMAIN t = 1 .. Len(s) + 1
      /\ \A i \in 1 .. Len(s) : t[i] = s[i]
      /\ t[Len(s) + 1] = x
  BY RowAdded DEF Counted
<1> HIDE DEF t
<1>2. \A i \in DOMAIN t : "tokens" \in DOMAIN t[i] /\ t[i].tokens \in Nat
  <2> SUFFICES ASSUME NEW i \in 1 .. Len(s) + 1 PROVE "tokens" \in DOMAIN t[i] /\ t[i].tokens \in Nat BY <1>1
  <2>1. CASE i = Len(s) + 1 BY <1>1, <2>1
  <2>2. CASE i \in 1 .. Len(s) BY <1>1, <2>2 DEF Counted
  <2> QED BY <1>1, <2>1, <2>2
<1>3. Counted(t) BY <1>1, <1>2 DEF Counted
<1>4. PICK f : Sums(t, Len(t), f) /\ Burn(t) = f[Len(t)] BY <1>1, BurnIsSum
<1>5. PICK g : Sums(s, Len(s), g) /\ Burn(s) = g[Len(s)] BY <1>1, BurnIsSum
<1> DEFINE h == [n \in 0 .. Len(s) |-> f[n]]
<1>6. Sums(t, Len(s), h)
  <2> SUFFICES ASSUME NEW n \in 0 .. Len(s) PROVE f[n] = IF n = 0 THEN 0 ELSE h[n - 1] + t[n].tokens
    BY DEF Sums
  <2>1. n \in 0 .. Len(t) BY <1>1
  <2>2. f[n] = IF n = 0 THEN 0 ELSE f[n - 1] + t[n].tokens BY <1>4, <2>1 DEF Sums
  <2>3. n # 0 => n - 1 \in 0 .. Len(s) BY <1>1
  <2> QED BY <2>2, <2>3
<1>7. h[Len(s)] = f[Len(s)] BY <1>1
<1> HIDE DEF h
<1>8. \A n \in 1 .. Len(s) : /\ t[n].tokens \in Nat /\ s[n].tokens \in Nat
                             /\ t[n].tokens <= s[n].tokens + (IF n = 0 THEN 0 ELSE 0)
  <2> SUFFICES ASSUME NEW n \in 1 .. Len(s)
               PROVE  /\ t[n].tokens \in Nat /\ s[n].tokens \in Nat
                      /\ t[n].tokens <= s[n].tokens + (IF n = 0 THEN 0 ELSE 0)
    OBVIOUS
  <2>1. t[n] = s[n] /\ s[n].tokens \in Nat BY <1>1 DEF Counted
  <2> QED BY <2>1
<1>9. h[Len(s)] \in Nat /\ g[Len(s)] \in Nat /\ h[Len(s)] <= g[Len(s)] + 0
  <2>1. Len(s) <= Len(s) BY <1>1
  <2> QED BY <1>1, <1>5, <1>6, <1>8, <2>1, SumsCompare
<1>10. f[Len(t)] = f[Len(s)] + x.tokens
  <2>1. Len(t) \in 0 .. Len(t) /\ Len(t) # 0 /\ Len(t) - 1 = Len(s) BY <1>1
  <2> QED BY <1>1, <1>4, <2>1 DEF Sums
<1>11. Burn(t) <= Burn(s) + x.tokens BY <1>4, <1>5, <1>7, <1>9, <1>10
<1> QED BY <1>3, <1>11 DEF t

(* No more is reported than was spent, the answer that is still to be      *)
(* written down apart; a row has at least the tokens the attempt put there.*)
BurnInv ==
  /\ spent \in Nat /\ Counted(trace) /\ Counted(said)
  /\ "tokens" \in DOMAIN held /\ held.tokens \in Nat /\ (at = "logTool" => held.tokens = 0)
  /\ \A i \in DOMAIN said : said[i].tokens <= trace[i].tokens
  /\ Burn(trace) + (IF at = "log" THEN 1 ELSE 0) <= spent

LEMMA WriteCounts ==
  ASSUME TraceInv, BurnInv, NEW entry, Row(entry), "tokens" \in DOMAIN entry, entry.tokens \in Nat, Write(entry)
  PROVE  /\ Counted(trace') /\ Counted(said') /\ Burn(trace') <= Burn(trace) + entry.tokens
         /\ \A i \in DOMAIN said' : said'[i].tokens <= trace'[i].tokens
<1> DEFINE k == Len(said) + 1
<1>0. Counted(trace) /\ Counted(said) BY DEF BurnInv
<1>1. /\ said' = Append(said, entry) /\ trace' = Upserted(trace, k, entry)
      /\ RowSeq(trace) /\ RowSeq(said) /\ Len(said) <= Len(trace)
  BY DEF Write, TraceInv
<1>2. /\ Len(said) \in Nat /\ DOMAIN said = 1 .. Len(said) /\ DOMAIN said' = 1 .. k
      /\ \A i \in 1 .. Len(said) : said'[i] = said[i]
      /\ said'[k] = entry
  BY <1>1, RowAdded
<1>3. Counted(said')
  <2>1. Counted(Append(said, entry)) BY <1>0, BurnAdds
  <2> QED BY <1>1, <2>1
<1>4. Len(trace) \in Nat /\ DOMAIN trace = 1 .. Len(trace) BY <1>1 DEF RowSeq
<1>5. /\ Counted(trace') /\ Burn(trace') <= Burn(trace) + entry.tokens
      /\ entry.tokens <= trace'[k].tokens
      /\ \A i \in 1 .. Len(said) : trace'[i] = trace[i]
  <2>1. CASE k > Len(trace)
    <3>1. Len(trace) = Len(said)
      <4>1. Len(said) <= Len(trace) /\ Len(said) \in Nat /\ Len(trace) \in Nat BY <1>1, <1>2, <1>4
      <4> QED BY <2>1, <4>1
    <3>2. trace' = Append(trace, entry) BY <1>1, <2>1 DEF Upserted
    <3>3. Counted(Append(trace, entry)) /\ Burn(Append(trace, entry)) <= Burn(trace) + entry.tokens
      BY <1>0, BurnAdds
    <3>4. /\ \A i \in 1 .. Len(trace) : Append(trace, entry)[i] = trace[i]
          /\ Append(trace, entry)[Len(trace) + 1] = entry
      BY <1>1, RowAdded
    <3>5. trace'[k] = entry BY <3>1, <3>2, <3>4
    <3>6. entry.tokens <= entry.tokens OBVIOUS
    <3> QED BY <3>1, <3>2, <3>3, <3>4, <3>5, <3>6
  <2>2. CASE ~(k > Len(trace))
    <3> DEFINE old == trace[k]
               x == IF KeepsCreated THEN Kept(old, entry) ELSE entry
    <3>1. k \in DOMAIN trace BY <1>2, <1>4, <2>2
    <3>2. Row(old) /\ "tokens" \in DOMAIN old /\ old.tokens \in Nat BY <1>0, <3>1 DEF Counted, RowSeq
    <3>3. trace' = [trace EXCEPT ![k] = x] BY <1>1, <2>2 DEF Upserted
    <3> HIDE DEF old
    <3>4. Row(x) /\ "tokens" \in DOMAIN x /\ x.tokens = IF KeepsCreated /\ entry.tokens = 0 THEN old.tokens ELSE entry.tokens
      <4>1. Row(Kept(old, entry)) /\ "tokens" \in DOMAIN Kept(old, entry) BY <3>2 DEF Kept, Row
      <4>2. Kept(old, entry).tokens = IF entry.tokens = 0 THEN old.tokens ELSE entry.tokens BY <3>2 DEF Kept
      <4> QED BY <4>1, <4>2
    <3> HIDE DEF x
    <3>5. x.tokens \in Nat /\ entry.tokens <= x.tokens /\ x.tokens <= old.tokens + entry.tokens BY <3>2, <3>4
    <3>6. /\ RowSeq(trace') /\ Len(trace') = Len(trace) /\ trace'[k] = x
          /\ \A i \in DOMAIN trace \ {k} : trace'[i] = trace[i]
      BY <1>1, <3>1, <3>3, <3>4, RowWritten
    <3>7. DOMAIN trace' = 1 .. Len(trace) BY <3>6 DEF RowSeq
    <3>8. ASSUME NEW i \in DOMAIN trace'
          PROVE  /\ "tokens" \in DOMAIN trace'[i] /\ trace'[i].tokens \in Nat
                 /\ trace'[i].tokens <= trace[i].tokens + (IF i = k THEN entry.tokens ELSE 0)
      <4>1. CASE i = k BY <3>4, <3>5, <3>6, <4>1 DEF old
      <4>2. CASE i # k
        <5>1. i \in DOMAIN trace /\ trace'[i] = trace[i] BY <1>4, <3>6, <3>7, <4>2
        <5>2. "tokens" \in DOMAIN trace[i] /\ trace[i].tokens \in Nat BY <1>0, <5>1 DEF Counted
        <5> QED BY <4>2, <5>1, <5>2
      <4> QED BY <4>1, <4>2
    <3>9. Counted(trace') BY <3>6, <3>8 DEF Counted
    <3>10. Len(trace') <= Len(trace) BY <1>4, <3>6
    <3>11. Burn(trace') <= Burn(trace) + entry.tokens BY <1>0, <3>8, <3>9, <3>10, BurnCompares
    <3>12. \A i \in 1 .. Len(said) : i \in DOMAIN trace \ {k} BY <1>2, <1>4, <3>1
    <3> QED BY <3>5, <3>6, <3>9, <3>11, <3>12
  <2> QED BY <2>1, <2>2
<1>6. ASSUME NEW i \in DOMAIN said' PROVE said'[i].tokens <= trace'[i].tokens
  <2>1. CASE i = k BY <1>2, <1>5, <2>1
  <2>2. CASE i \in 1 .. Len(said) BY <1>2, <1>5, <2>2 DEF BurnInv
  <2> QED BY <1>2, <2>1, <2>2
<1> QED BY <1>3, <1>5, <1>6

LEMMA BurnKept == TraceInv /\ BurnInv /\ [LoopNext]_loopVars => BurnInv'
<1> SUFFICES ASSUME TraceInv, BurnInv, [LoopNext]_loopVars PROVE BurnInv' OBVIOUS
<1>0. /\ spent \in Nat /\ Burn(trace) \in Nat /\ Burn(trace) <= spent
      /\ at = "log" => Burn(trace) + 1 <= spent
  <2>1. spent \in Nat /\ Burn(trace) \in Nat BY BurnIsCounted DEF BurnInv
  <2> QED BY <2>1 DEF BurnInv
<1>a. \A text : Row(Said(text)) /\ "tokens" \in DOMAIN Said(text) /\ Said(text).tokens = 1
  BY DEF Said, Row
<1>1. CASE LogTurn
  <2> DEFINE entry == Said(Unmask(known, reply.text))
  <2>1. Write(entry) /\ at = "log" /\ at' \notin {"log", "logTool"} /\ UNCHANGED <<held, spent>>
    BY <1>1 DEF LogTurn
  <2>2. Row(entry) /\ "tokens" \in DOMAIN entry /\ entry.tokens = 1 BY <1>a
  <2> HIDE DEF entry
  <2>3. /\ Counted(trace') /\ Counted(said') /\ Burn(trace') <= Burn(trace) + 1
        /\ \A i \in DOMAIN said' : said'[i].tokens <= trace'[i].tokens
    BY <2>1, <2>2, WriteCounts
  <2>4. Burn(trace)' = Burn(trace') BY DEF Burn
  <2>5. Burn(trace') \in Nat BY <2>3, BurnIsCounted
  <2>6. Burn(trace') + 0 <= spent BY <1>0, <2>1, <2>3, <2>5
  <2> QED BY <2>1, <2>3, <2>4, <2>6 DEF BurnInv, Counted
<1>2. CASE LogTool
  <2>1. /\ Write(held) /\ at = "logTool" /\ at' \in {"ask", "tool"} /\ held' = Said({}) /\ spent' = spent
    BY <1>2 DEF LogTool
  <2>2. Row(held) /\ "tokens" \in DOMAIN held /\ held.tokens = 0 BY <2>1 DEF TraceInv, BurnInv
  <2>3. /\ Counted(trace') /\ Counted(said') /\ Burn(trace') <= Burn(trace) + 0
        /\ \A i \in DOMAIN said' : said'[i].tokens <= trace'[i].tokens
    BY <2>1, <2>2, WriteCounts
  <2>4. Burn(trace)' = Burn(trace') BY DEF Burn
  <2>5. Burn(trace') \in Nat BY <2>3, BurnIsCounted
  <2>6. Burn(trace') + 0 <= spent BY <1>0, <2>3, <2>5
  <2> QED BY <1>0, <1>a, <2>1, <2>3, <2>4, <2>6 DEF BurnInv, Counted
<1>3. CASE BeginAttempt
  <2>1. /\ said' = << >> /\ held' = held /\ at' = "ask" /\ UNCHANGED <<trace, spent>>
    BY <1>3 DEF BeginAttempt
  <2>2. DOMAIN said' = {} /\ Counted(<< >>) BY <2>1 DEF Counted, RowSeq
  <2>3. Burn(trace)' = Burn(trace) BY <2>1 DEF Burn
  <2>4. Counted(trace)' BY <2>1 DEF BurnInv, Counted
  <2>5. Counted(said)' BY <2>1, <2>2 DEF Counted, RowSeq
  <2> QED BY <1>0, <2>1, <2>2, <2>3, <2>4, <2>5 DEF BurnInv
<1>b. ASSUME UNCHANGED <<trace, said>>, spent' \in Nat, spent' >= spent,
             "tokens" \in DOMAIN held', held'.tokens \in Nat, at' = "logTool" => held'.tokens = 0,
             at' = "log" => at = "log" \/ spent' >= spent + 1
      PROVE  BurnInv'
  <2>1. Burn(trace)' = Burn(trace) BY <1>b DEF Burn
  <2>2. Counted(trace)' /\ Counted(said)' BY <1>b DEF BurnInv, Counted
  <2>3. \A i \in DOMAIN said' : said'[i].tokens <= trace'[i].tokens BY <1>b DEF BurnInv
  <2>4. Burn(trace) + (IF at' = "log" THEN 1 ELSE 0) <= spent' BY <1>0, <1>b
  <2> QED BY <1>b, <2>1, <2>2, <2>3, <2>4 DEF BurnInv
<1>c. "tokens" \in DOMAIN held /\ held.tokens \in Nat /\ (at = "logTool" => held.tokens = 0) BY DEF BurnInv
<1>4. CASE ModelReplies
  <2>1. UNCHANGED <<trace, said, held>> /\ spent' = spent + 1 /\ at' = "log" BY <1>4 DEF ModelReplies
  <2>2. spent' \in Nat /\ spent' >= spent /\ spent' >= spent + 1 BY <1>0, <2>1
  <2> QED BY <1>b, <1>c, <2>1, <2>2
<1>5. CASE RunTool
  <2>1. UNCHANGED <<trace, said, spent>> /\ at' = "logTool" BY <1>5 DEF RunTool
  <2>2. "tokens" \in DOMAIN held' /\ held'.tokens = 0 BY <1>5 DEF RunTool
  <2>3. spent' \in Nat /\ spent' >= spent BY <1>0, <2>1
  <2> QED BY <1>b, <2>1, <2>2, <2>3
<1>6. CASE Ask \/ Succeed \/ Closes
  <2>1. UNCHANGED <<trace, said, held, spent>> /\ at' \notin {"log", "logTool"}
    BY <1>6 DEF Ask, Succeed, Closes, attemptVars
  <2>2. spent' \in Nat /\ spent' >= spent BY <1>0, <2>1
  <2> QED BY <1>b, <1>c, <2>1, <2>2
<1>8. CASE AttemptEnds
  <2>1. UNCHANGED <<trace, said, spent>> /\ at' = "over" /\ held' = Said({})
    BY <1>8 DEF AttemptEnds
  <2>2. spent' \in Nat /\ spent' >= spent BY <1>0, <2>1
  <2>3. "tokens" \in DOMAIN held' /\ held'.tokens \in Nat BY <1>a, <2>1
  <2> QED BY <1>b, <2>1, <2>2, <2>3
<1>7. CASE UNCHANGED loopVars
  <2>1. UNCHANGED <<trace, said, held, spent, at>> BY <1>7 DEF loopVars
  <2>2. spent' \in Nat /\ spent' >= spent BY <1>0, <2>1
  <2> QED BY <1>b, <1>c, <2>1, <2>2
<1> QED BY <1>1, <1>2, <1>3, <1>4, <1>5, <1>6, <1>7, <1>8 DEF LoopNext

(* The tokens that the metrics sum over a run's rows were all spent, and   *)
(* those of the attempt that wrote last are among them, whatever rows of   *)
(* earlier attempts it wrote over (runMetrics over what appendStep kept):  *)
(* for any number of attempts and turns, with either repository.           *)
THEOREM BurnWasSpent == LoopSpec => []BurnAccounted
<1>1. LoopInit => TraceInv BY DEF LoopInit, TraceInv, RowSeq, Row, Said
<1>2. LoopInit => BurnInv
  <2> SUFFICES ASSUME LoopInit PROVE BurnInv OBVIOUS
  <2>1. trace = << >> /\ said = << >> /\ spent = 0 /\ held = Said({}) /\ at = "idle" BY DEF LoopInit
  <2>2. Counted(<< >>) /\ DOMAIN << >> = {} /\ Len(<< >>) = 0 BY DEF Counted, RowSeq
  <2>3. Burn(<< >>) = 0
    <3>1. PICK f : Sums(<< >>, 0, f) /\ Burn(<< >>) = f[0] BY <2>2, BurnIsSum
    <3> QED BY <3>1 DEF Sums
  <2> QED BY <2>1, <2>2, <2>3 DEF BurnInv, Said
<1>3. TraceInv /\ BurnInv => BurnAccounted
  <2> SUFFICES ASSUME TraceInv, BurnInv PROVE BurnAccounted OBVIOUS
  <2>1. /\ Counted(trace) /\ Counted(said) /\ Len(said) <= Len(trace) /\ spent \in Nat
        /\ \A i \in DOMAIN said : said[i].tokens <= trace[i].tokens
        /\ Burn(trace) + (IF at = "log" THEN 1 ELSE 0) <= spent
    BY DEF TraceInv, BurnInv
  <2>2. \A i \in DOMAIN said : said[i].tokens <= trace[i].tokens + (IF i = 0 THEN 0 ELSE 0)
    <3> SUFFICES ASSUME NEW i \in DOMAIN said PROVE said[i].tokens <= trace[i].tokens + 0 OBVIOUS
    <3>1. i \in DOMAIN trace BY <2>1 DEF Counted, RowSeq
    <3>2. trace[i].tokens \in Nat BY <2>1, <3>1 DEF Counted
    <3> QED BY <2>1, <3>2
  <2>3. Burn(said) \in Nat /\ Burn(trace) \in Nat /\ Burn(said) <= Burn(trace) + 0
    BY <2>1, <2>2, BurnCompares
  <2>4. Burn(trace) <= spent BY <2>1, <2>3
  <2> QED BY <2>3, <2>4 DEF BurnAccounted
<1> QED BY <1>1, <1>2, <1>3, TraceKept, BurnKept, PTL DEF LoopSpec

-----------------------------------------------------------------------------
(* The child processes: one promise, and what is left of its processes.    *)

CliSpec == CliInit /\ [][CliNext]_cliVars

Pieces == Lines \cup {Output}
Processes ==
  [phase : {"none", "running", "exited", "closed"}, code : {"none", "ok", "error", "killed"},
   wrote : Seq(Pieces), read : Nat, torn : BOOLEAN, timer : BOOLEAN]

(* A process, its pipes and its timer.                                     *)
SoundAs(r, p) ==
  /\ p.read <= Len(p.wrote)
  /\ p.phase \in {"none", "running"} => p.code = "none" /\ ~ p.torn
  /\ p.phase = "none" => ~ p.timer /\ p.wrote = << >>
  /\ p.phase = "running" => p.timer
  /\ p.torn => r = "stream"
  /\ p.phase = "closed" => p.read = Len(p.wrote)

(* A process is over for the promise when it cannot run or be stopped.     *)
IsOver(p) == p.phase # "running" /\ ~ p.timer
CallOver(r) == IsOver(proc[r])
Unused(r) == proc[r].phase = "none"

(* Only the process that is awaited may run; the later ones are not begun. *)
StageSound ==
  /\ stage = "none" => Unused("stream") /\ Unused("buffer") /\ Unused("box")
  /\ stage = "stream" => Unused("buffer") /\ Unused("box")
  /\ stage = "buffer" => CallOver("stream") /\ Unused("box")
  /\ stage = "box" => Unused("stream") /\ Unused("buffer")

(* What is said of the promise, but for a stream's text and a program.     *)
SettledWell ==
  stage = "settled" =>
    /\ \A r \in Roles : IsOver(proc[r])
    /\ settled.by \in {"stream", "buffer"} => proc[settled.by].code = "ok"
    /\ settled.by \in {"buffer", "box"} => settled.text = proc[settled.by].wrote
    /\ settled.late <=> settled.by = "box" /\ proc["box"].code = "killed"

CliInv ==
  /\ proc \in [Roles -> Processes] /\ stage \in {"none", "stream", "buffer", "box", "settled"}
  /\ \A r \in Roles : SoundAs(r, proc[r])
  /\ StageSound /\ SettledWell

Begun == [NoProcess EXCEPT !.phase = "running", !.timer = TRUE]

LEMMA BegunIs ==
  /\ NoProcess \in Processes /\ Begun \in Processes /\ Begun.phase = "running"
  /\ \A r \in Roles : SoundAs(r, NoProcess) /\ SoundAs(r, Begun)
<1>1. << >> \in Seq(Pieces) /\ Len(<< >>) = 0
  OBVIOUS
<1>2. NoProcess \in Processes
  BY <1>1 DEF NoProcess, Processes
<1>3. Begun \in Processes
  BY <1>1 DEF NoProcess, Begun, Processes
<1>4. \A r \in Roles : SoundAs(r, NoProcess) /\ SoundAs(r, Begun)
  BY <1>1 DEF NoProcess, Begun, SoundAs
<1> QED BY <1>2, <1>3, <1>4 DEF Begun, NoProcess

LEMMA UnusedIsOver == CliInv => \A r \in Roles : Unused(r) => CallOver(r)
BY DEF CliInv, SoundAs, Unused, CallOver, IsOver

(* A process takes a step that its promise does not hear of.               *)
LEMMA Unheard ==
  ASSUME CliInv, NEW r \in Roles, ~ Unused(r), NEW q \in Processes, SoundAs(r, q),
         proc' = [proc EXCEPT ![r] = q], UNCHANGED <<stage, settled>>, q.phase # "none",
         CallOver(r) => IsOver(q) /\ q.wrote = proc[r].wrote /\ q.code = proc[r].code
  PROVE  CliInv'
<1>1. /\ proc \in [Roles -> Processes] /\ proc' \in [Roles -> Processes]
      /\ proc'[r] = q /\ \A x \in Roles \ {r} : proc'[x] = proc[x]
      /\ {"stream", "buffer", "box"} = Roles
  BY DEF CliInv, Roles
<1>2. \A x \in Roles : SoundAs(x, proc'[x])
  BY <1>1 DEF CliInv
<1>3. StageSound'
  BY <1>1 DEF CliInv, StageSound, Unused, CallOver
<1>4. SettledWell'
  <2> SUFFICES ASSUME stage = "settled" PROVE SettledWell'
    BY DEF SettledWell
  <2>1. \A x \in Roles : CallOver(x)
    BY DEF CliInv, SettledWell, CallOver, IsOver
  <2>2. \A x \in Roles : IsOver(proc'[x]) /\ proc'[x].wrote = proc[x].wrote /\ proc'[x].code = proc[x].code
    BY <1>1, <2>1 DEF CallOver
  <2> QED BY <1>1, <2>2 DEF CliInv, SettledWell
<1> QED BY <1>1, <1>2, <1>3, <1>4 DEF CliInv

(* The process that is awaited is over, and the promise hears of it.       *)
CallEnded(r, q, after) ==
  /\ q \in Processes /\ SoundAs(r, q) /\ IsOver(q) /\ q.phase # "none"
  /\ after = [proc EXCEPT ![r] = q]
  /\ q.wrote = proc[r].wrote /\ (CallOver(r) => q.code = proc[r].code)

LEMMA OthersOver ==
  ASSUME CliInv, NEW r \in Roles, stage = r, NEW x \in Roles \ {r}, r # "stream"
  PROVE  CallOver(x)
BY UnusedIsOver DEF CliInv, StageSound, Roles

LEMMA GivesUpKeeps ==
  ASSUME CliInv, NEW r \in Roles, ~ Unused(r), NEW q, NEW after, CallEnded(r, q, after), GivesUp(r, after)
  PROVE  CliInv'
<1>1. /\ proc \in [Roles -> Processes] /\ after \in [Roles -> Processes] /\ q \in Processes
      /\ after[r] = q /\ \A x \in Roles \ {r} : after[x] = proc[x]
      /\ {"stream", "buffer", "box"} = Roles
      /\ IsOver(q) /\ SoundAs(r, q)
  BY DEF CliInv, Roles, CallEnded
<1>2. CASE stage # r
  <2>1. UNCHANGED <<stage, settled>> /\ proc' = [proc EXCEPT ![r] = q]
    BY <1>2 DEF GivesUp, CallEnded
  <2> QED BY <1>1, <2>1, Unheard DEF CallEnded
<1>3. CASE stage = r /\ r = "stream"
  <2>1. /\ stage' = "buffer" /\ proc' = [after EXCEPT !["buffer"] = Spawned("buffer")["buffer"]]
    BY <1>3 DEF GivesUp
  <2>2. Spawned("buffer")["buffer"] = Begun
    BY <1>1 DEF Spawned, Begun
  <2>3. /\ proc' \in [Roles -> Processes] /\ proc'["stream"] = q /\ proc'["buffer"] = Begun
        /\ proc'["box"] = proc["box"]
    BY <1>1, <1>3, <2>1, <2>2, BegunIs
  <2>4. \A x \in Roles : SoundAs(x, proc'[x])
    BY <1>1, <1>3, <2>3, BegunIs DEF CliInv
  <2>5. StageSound'
    BY <1>1, <1>3, <2>1, <2>3 DEF CliInv, StageSound, CallOver, Unused
  <2> QED BY <2>1, <2>3, <2>4, <2>5 DEF CliInv, SettledWell
<1>4. CASE stage = r /\ r # "stream"
  <2>1. stage' = "settled" /\ settled' = Pending /\ proc' = after
    BY <1>4 DEF GivesUp
  <2>2. \A x \in Roles : IsOver(proc'[x])
    BY <1>1, <1>4, <2>1, OthersOver DEF CallOver
  <2>3. SettledWell'
    BY <1>1, <2>1, <2>2 DEF SettledWell, IsOver, Pending
  <2>4. \A x \in Roles : SoundAs(x, proc'[x])
    BY <1>1, <2>1 DEF CliInv
  <2>5. StageSound'
    BY <2>1 DEF StageSound
  <2> QED BY <1>1, <2>1, <2>3, <2>4, <2>5 DEF CliInv
<1> QED BY <1>2, <1>3, <1>4

LEMMA AnswersKeeps ==
  ASSUME CliInv, NEW r \in Roles, ~ Unused(r), NEW q, NEW after, CallEnded(r, q, after),
         NEW text, NEW late, Answers(r, text, late, after),
         r # "stream" => text = q.wrote,
         r # "box" => q.code = "ok",
         late <=> r = "box" /\ q.code = "killed"
  PROVE  CliInv'
<1>1. /\ proc \in [Roles -> Processes] /\ after \in [Roles -> Processes] /\ q \in Processes
      /\ after[r] = q /\ \A x \in Roles \ {r} : after[x] = proc[x]
      /\ {"stream", "buffer", "box"} = Roles
      /\ IsOver(q) /\ SoundAs(r, q)
  BY DEF CliInv, Roles, CallEnded
<1>2. CASE stage # r
  <2>1. UNCHANGED <<stage, settled>> /\ proc' = [proc EXCEPT ![r] = q]
    BY <1>2 DEF Answers, CallEnded
  <2> QED BY <1>1, <2>1, Unheard DEF CallEnded
<1>3. CASE stage = r
  <2>1. stage' = "settled" /\ settled' = [by |-> r, text |-> text, late |-> late] /\ proc' = after
    BY <1>3 DEF Answers
  <2>2. \A x \in Roles : IsOver(proc'[x])
    <3>1. ASSUME NEW x \in Roles \ {r} PROVE CallOver(x)
      BY <1>3, <1>1, <3>1, UnusedIsOver DEF CliInv, StageSound
    <3> QED BY <1>1, <2>1, <3>1 DEF CallOver
  <2>4. SettledWell'
    BY <1>1, <2>1, <2>2 DEF SettledWell
  <2>5. \A x \in Roles : SoundAs(x, proc'[x])
    BY <1>1, <2>1 DEF CliInv
  <2>6. StageSound'
    BY <2>1 DEF StageSound
  <2> QED BY <1>1, <2>1, <2>4, <2>5, <2>6 DEF CliInv
<1> QED BY <1>2, <1>3

LEMMA WholeText ==
  ASSUME NEW S, NEW s \in Seq(S)
  PROVE  SubSeq(s, 1, Len(s)) = s
OBVIOUS

LEMMA CliBegins ==
  ASSUME CliInv, stage = "none", NEW r \in Roles, stage' = r, proc' = Spawned(r)
  PROVE  CliInv'
<1>1. {"stream", "buffer", "box"} = Roles /\ proc \in [Roles -> Processes] /\ \A x \in Roles : Unused(x) /\ CallOver(x)
  BY UnusedIsOver DEF CliInv, StageSound, Roles
<1>2. proc' = [proc EXCEPT ![r] = Begun]
  BY DEF Spawned, Begun
<1>3. /\ proc' \in [Roles -> Processes] /\ proc'[r] = Begun /\ \A x \in Roles \ {r} : proc'[x] = proc[x]
  BY <1>1, <1>2, BegunIs
<1>4. \A x \in Roles : SoundAs(x, proc'[x])
  BY <1>3, BegunIs DEF CliInv
<1>5. StageSound'
  BY <1>1, <1>3 DEF StageSound, Unused, CallOver
<1>6. SettledWell' /\ stage' \in {"none", "stream", "buffer", "box", "settled"}
  BY <1>1 DEF SettledWell
<1> QED BY <1>3, <1>4, <1>5, <1>6 DEF CliInv

LEMMA CliFacts ==
  ASSUME CliInv, NEW r \in Roles
  PROVE  /\ proc \in [Roles -> Processes] /\ proc[r] \in Processes /\ SoundAs(r, proc[r])
         /\ proc[r].wrote \in Seq(Pieces) /\ proc[r].read \in Nat /\ Len(proc[r].wrote) \in Nat
         /\ Unread(r) = Len(proc[r].wrote) - proc[r].read
<1>1. proc[r] \in Processes
  BY DEF CliInv
<1> QED BY <1>1 DEF CliInv, Processes, Unread

LEMMA WritesKeeps ==
  ASSUME CliInv, NEW r \in Roles, Writes(r)
  PROVE  CliInv'
<1>1. PICK kind \in Pieces : proc' = [proc EXCEPT ![r].wrote = Append(@, kind)]
  BY DEF Writes, Pieces
<1> DEFINE q == [proc[r] EXCEPT !.wrote = Append(proc[r].wrote, kind)]
<1>2. proc' = [proc EXCEPT ![r] = q]
  BY <1>1, CliFacts
<1>3. proc[r].phase = "running" /\ UNCHANGED <<stage, settled>>
  BY DEF Writes
<1>4. /\ Append(proc[r].wrote, kind) \in Seq(Pieces)
      /\ Len(Append(proc[r].wrote, kind)) = Len(proc[r].wrote) + 1
  BY CliFacts
<1>5. q \in Processes
  BY <1>4, CliFacts DEF Processes
<1>6. SoundAs(r, q) /\ q.phase = "running"
  BY <1>3, <1>4, CliFacts DEF SoundAs, Processes
<1> HIDE DEF q
<1> QED BY <1>2, <1>3, <1>5, <1>6, Unheard DEF Unused, CallOver, IsOver

LEMMA ExitsKeeps ==
  ASSUME CliInv, NEW r \in Roles, Exits(r)
  PROVE  CliInv'
<1>1. PICK code \in {"ok", "error", "killed"}, torn \in BOOLEAN :
        /\ torn => r = "stream"
        /\ proc' = [proc EXCEPT ![r].phase = "exited", ![r].code = code, ![r].torn = torn]
  BY DEF Exits
<1> DEFINE q == [proc[r] EXCEPT !.phase = "exited", !.code = code, !.torn = torn]
<1>2. proc' = [proc EXCEPT ![r] = q]
  BY <1>1, CliFacts
<1>3. proc[r].phase = "running" /\ UNCHANGED <<stage, settled>>
  BY DEF Exits
<1>4. q \in Processes
  BY CliFacts DEF Processes
<1>5. SoundAs(r, q) /\ q.phase = "exited"
  BY <1>1, CliFacts DEF SoundAs, Processes
<1> HIDE DEF q
<1> QED BY <1>2, <1>3, <1>4, <1>5, Unheard DEF Unused, CallOver, IsOver

LEMMA ReadsKeeps ==
  ASSUME CliInv, NEW r \in Roles, Reads(r)
  PROVE  CliInv'
<1> DEFINE q == [proc[r] EXCEPT !.read = proc[r].read + 1]
<1>1. Unread(r) > 0 /\ proc' = [proc EXCEPT ![r] = q] /\ UNCHANGED <<stage, settled>>
  BY CliFacts DEF Reads
<1>2. proc[r].read + 1 \in Nat /\ proc[r].read + 1 <= Len(proc[r].wrote)
  BY <1>1, CliFacts
<1>3. q \in Processes
  BY <1>2, CliFacts DEF Processes
<1>4. /\ q.wrote = proc[r].wrote /\ q.code = proc[r].code /\ q.phase = proc[r].phase /\ q.timer = proc[r].timer
      /\ SoundAs(r, q)
  BY <1>2, CliFacts DEF SoundAs, Processes
<1>5. ~ Unused(r)
  <2>1. proc[r].wrote # << >>
    BY <1>2, CliFacts
  <2> QED BY <2>1, CliFacts DEF Unused, SoundAs
<1> HIDE DEF q
<1> QED BY <1>1, <1>3, <1>4, <1>5, Unheard DEF Unused, CallOver, IsOver

LEMMA SpawnFailsKeeps ==
  ASSUME CliInv, NEW r \in Roles, SpawnFails(r)
  PROVE  CliInv'
<1> DEFINE q == [proc[r] EXCEPT !.phase = "closed", !.code = "error", !.timer = FALSE]
           after == [proc EXCEPT ![r].phase = "closed", ![r].code = "error", ![r].timer = FALSE]
<1>1. proc[r].phase = "running" /\ proc[r].wrote = << >>
  BY DEF SpawnFails
<1>2. after = [proc EXCEPT ![r] = q]
  BY CliFacts
<1>3. q \in Processes
  BY CliFacts DEF Processes
<1>4. q.phase = "closed" /\ q.code = "error" /\ ~ q.timer /\ q.wrote = proc[r].wrote /\ SoundAs(r, q)
  <2>1. proc[r].read = 0 /\ Len(proc[r].wrote) = 0 /\ ~ proc[r].torn
    BY <1>1, CliFacts DEF SoundAs
  <2>2. /\ q.phase = "closed" /\ q.code = "error" /\ q.timer = FALSE /\ q.wrote = proc[r].wrote
        /\ q.read = proc[r].read /\ q.torn = proc[r].torn
    BY CliFacts DEF Processes
  <2> HIDE DEF q
  <2> QED BY <2>1, <2>2 DEF SoundAs
<1>5. IF r = "box" THEN Answers(r, << >>, FALSE, after) ELSE GivesUp(r, after)
  BY DEF SpawnFails
<1> HIDE DEF q, after
<1>6. CallEnded(r, q, after) /\ ~ Unused(r)
  BY <1>1, <1>2, <1>3, <1>4 DEF CallEnded, IsOver, CallOver, Unused
<1>7. CASE r = "box"
  <2>1. Answers(r, << >>, FALSE, after) /\ << >> = q.wrote
    BY <1>1, <1>4, <1>5, <1>7
  <2> QED BY <1>4, <1>6, <1>7, <2>1, AnswersKeeps
<1>8. CASE r # "box"
  BY <1>5, <1>6, <1>8, GivesUpKeeps
<1> QED BY <1>7, <1>8

LEMMA StreamClosesKeeps ==
  ASSUME CliInv, StreamCloses
  PROVE  CliInv'
<1> DEFINE r == "stream"
           q == [proc[r] EXCEPT !.phase = "closed", !.timer = FALSE,
                              !.read = proc[r].read + (IF Unread(r) = 0 THEN 0 ELSE 1)]
           after == [proc EXCEPT !["stream"].phase = "closed", !["stream"].timer = FALSE,
                                 !["stream"].read = @ + (IF Unread("stream") = 0 THEN 0 ELSE 1)]
<1>0. r \in Roles
  BY DEF Roles
<1>1. proc[r].phase = "exited"
  BY DEF StreamCloses
<1>2. after = [proc EXCEPT ![r] = q]
  BY <1>0, CliFacts
<1>3. /\ proc[r].read + (IF Unread(r) = 0 THEN 0 ELSE 1) = Len(proc[r].wrote)
      /\ Len(proc[r].wrote) \in Nat
  BY <1>0, CliFacts DEF StreamCloses, Drained
<1>4. q \in Processes
  BY <1>0, <1>3, CliFacts DEF Processes
<1>5. q.phase = "closed" /\ q.code = proc[r].code /\ ~ q.timer /\ q.wrote = proc[r].wrote /\ SoundAs(r, q)
  BY <1>0, <1>3, CliFacts DEF SoundAs, Processes
<1>6. \/ proc[r].code = "ok" /\ Answers(r, Answer(heard'), FALSE, after)
      \/ GivesUp(r, after)
  BY DEF StreamCloses
<1> HIDE DEF q, after
<1>7. CallEnded(r, q, after) /\ ~ Unused(r)
  BY <1>1, <1>2, <1>4, <1>5 DEF CallEnded, IsOver, CallOver, Unused
<1>8. CASE proc[r].code = "ok" /\ Answers(r, Answer(heard'), FALSE, after)
  <2>1. Answers(r, Answer(heard'), FALSE, after) /\ q.code = "ok"
    BY <1>5, <1>8
  <2> QED BY <1>0, <1>7, <2>1, AnswersKeeps
<1>9. CASE GivesUp(r, after)
  BY <1>0, <1>7, <1>9, GivesUpKeeps
<1> QED BY <1>6, <1>8, <1>9

(* A process whose pipes are drained: what was read is what it wrote.      *)
LEMMA DrainedIs ==
  ASSUME CliInv, NEW r \in Roles, r # "stream", Drained(r), proc[r].phase = "exited"
  PROVE  /\ SubSeq(proc[r].wrote, 1, proc[r].read) = proc[r].wrote
         /\ [proc[r] EXCEPT !.phase = "closed", !.timer = FALSE] \in Processes
         /\ SoundAs(r, [proc[r] EXCEPT !.phase = "closed", !.timer = FALSE])
<1>1. proc[r].read = Len(proc[r].wrote)
  BY CliFacts DEF Drained, SoundAs
<1>2. SubSeq(proc[r].wrote, 1, proc[r].read) = proc[r].wrote
  BY <1>1, CliFacts, WholeText
<1>3. /\ [proc[r] EXCEPT !.phase = "closed", !.timer = FALSE] \in Processes
      /\ SoundAs(r, [proc[r] EXCEPT !.phase = "closed", !.timer = FALSE])
  BY <1>1, CliFacts DEF SoundAs, Processes
<1> QED BY <1>2, <1>3

LEMMA LaterCloses ==
  ASSUME CliInv, BufferCloses \/ BoxCloses
  PROVE  CliInv'
<1> DEFINE Q(r) == [proc[r] EXCEPT !.phase = "closed", !.timer = FALSE]
           After(r) == [proc EXCEPT ![r].phase = "closed", ![r].timer = FALSE]
<1>0. {"buffer", "box"} \subseteq Roles
  BY DEF Roles
<1>1. ASSUME NEW r \in {"buffer", "box"}, proc[r].phase = "exited", Drained(r)
      PROVE  /\ CallEnded(r, Q(r), After(r)) /\ ~ Unused(r) /\ Q(r).code = proc[r].code
             /\ SubSeq(proc[r].wrote, 1, proc[r].read) = Q(r).wrote
  <2>1. r \in Roles /\ r # "stream"
    BY <1>0
  <2>2. After(r) = [proc EXCEPT ![r] = Q(r)]
    BY <2>1, CliFacts
  <2>3. Q(r) \in Processes /\ SoundAs(r, Q(r)) /\ SubSeq(proc[r].wrote, 1, proc[r].read) = proc[r].wrote
    BY <1>1, <2>1, DrainedIs, ZenonT(40)
  <2>4. Q(r).phase = "closed" /\ ~ Q(r).timer /\ Q(r).wrote = proc[r].wrote /\ Q(r).code = proc[r].code
    BY <2>1, CliFacts DEF Processes
  <2> HIDE DEF Q, After
  <2> QED BY <1>1, <2>2, <2>3, <2>4 DEF CallEnded, IsOver, Unused
<1>2. CASE BufferCloses
  <2>1. /\ CallEnded("buffer", Q("buffer"), After("buffer")) /\ ~ Unused("buffer")
        /\ Q("buffer").code = proc["buffer"].code
        /\ SubSeq(proc["buffer"].wrote, 1, proc["buffer"].read) = Q("buffer").wrote
    BY <1>1, <1>2 DEF BufferCloses
  <2>2. IF proc["buffer"].code = "ok"
        THEN Answers("buffer", SubSeq(proc["buffer"].wrote, 1, proc["buffer"].read), FALSE, After("buffer"))
        ELSE GivesUp("buffer", After("buffer"))
    BY <1>2 DEF BufferCloses
  <2> HIDE DEF Q, After
  <2>3. CASE proc["buffer"].code = "ok"
    BY <1>0, <2>1, <2>2, <2>3, AnswersKeeps
  <2>4. CASE proc["buffer"].code # "ok"
    BY <1>0, <2>1, <2>2, <2>4, GivesUpKeeps
  <2> QED BY <2>3, <2>4
<1>3. CASE BoxCloses
  <2>1. /\ CallEnded("box", Q("box"), After("box")) /\ ~ Unused("box")
        /\ Q("box").code = proc["box"].code
        /\ SubSeq(proc["box"].wrote, 1, proc["box"].read) = Q("box").wrote
    BY <1>1, <1>3 DEF BoxCloses
  <2>2. Answers("box", SubSeq(proc["box"].wrote, 1, proc["box"].read), proc["box"].code = "killed", After("box"))
    BY <1>3 DEF BoxCloses
  <2> HIDE DEF Q, After
  <2> QED BY <1>0, <2>1, <2>2, AnswersKeeps, ZenonT(60)
<1> QED BY <1>2, <1>3

LEMMA TimesOutKeeps ==
  ASSUME CliInv, NEW r \in Roles, CallTimesOut(r) \/ (r = "box" /\ (GroupTimesOut \/ ClientTimesOut))
  PROVE  CliInv'
<1> DEFINE q == [proc[r] EXCEPT !.timer = FALSE,
                                !.phase = IF proc[r].phase = "running" THEN "exited" ELSE proc[r].phase,
                                !.code = IF proc[r].code = "none" THEN "killed" ELSE proc[r].code]
           after == Struck(r)
<1>1. proc[r].timer /\ proc[r].phase # "none"
  BY CliFacts DEF CallTimesOut, GroupTimesOut, ClientTimesOut, SoundAs
<1>2. after = [proc EXCEPT ![r] = q]
  BY CliFacts DEF Struck
<1>3. q \in Processes
  BY CliFacts DEF Processes
<1>4. /\ q.phase \in {"exited", "closed"} /\ ~ q.timer /\ q.wrote = proc[r].wrote /\ q.torn = proc[r].torn
      /\ q.read = proc[r].read
  BY <1>1, CliFacts DEF Processes
<1>5. SoundAs(r, q)
  BY <1>4, CliFacts DEF SoundAs
<1>6. \/ GivesUp(r, after)
      \/ proc' = after /\ UNCHANGED <<stage, settled>>
  BY DEF CallTimesOut, GroupTimesOut, ClientTimesOut
<1> HIDE DEF q, after
<1>7. CallEnded(r, q, after) /\ ~ Unused(r) /\ ~ CallOver(r)
  BY <1>1, <1>2, <1>3, <1>4, <1>5 DEF CallEnded, IsOver, CallOver, Unused
<1>8. CASE GivesUp(r, after)
  BY <1>7, <1>8, GivesUpKeeps
<1>9. CASE proc' = after /\ UNCHANGED <<stage, settled>>
  BY <1>2, <1>3, <1>4, <1>5, <1>7, <1>9, Unheard
<1> QED BY <1>6, <1>8, <1>9

LEMMA CliKept == CliInv /\ [CliNext]_cliVars => CliInv'
<1> SUFFICES ASSUME CliInv, [CliNext]_cliVars PROVE CliInv'
  OBVIOUS
<1>1. ASSUME NEW sink \in BOOLEAN, Complete(sink) PROVE CliInv'
  <2>1. stage = "none" /\ stage' \in {"stream", "buffer"} /\ proc' = Spawned(stage')
    BY <1>1 DEF Complete, Spawned
  <2> QED BY <2>1, CliBegins DEF Roles
<1>2. CASE RunProgram
  <2>1. stage = "none" /\ stage' = "box" /\ proc' = Spawned("box")
    BY <1>2 DEF RunProgram
  <2> QED BY <2>1, CliBegins DEF Roles
<1>3. CASE UNCHANGED cliVars
  BY <1>3 DEF cliVars, CliInv, StageSound, CallOver, Unused, SettledWell
<1>4. CASE GroupTimesOut \/ ClientTimesOut
  BY <1>4, TimesOutKeeps DEF Roles
<1>5. CASE ContainerEnds
  <2>1. UNCHANGED <<stage, settled, proc>>
    BY <1>5 DEF ContainerEnds
  <2> QED BY <2>1 DEF CliInv, StageSound, CallOver, Unused, SettledWell
<1> QED BY <1>1, <1>2, <1>3, <1>4, <1>5, WritesKeeps, ExitsKeeps, ReadsKeeps, SpawnFailsKeeps, StreamClosesKeeps,
           LaterCloses, TimesOutKeeps DEF CliNext

(* The stream's text: what the lines that were read have left.             *)
LastAt(text, w, n, kind) ==
  IF text = 0 THEN \A i \in 1 .. n : w[i].kind = kind /\ w[i].full => \E j \in 1 .. n : j > i /\ w[j].kind = kind
  ELSE /\ text \in 1 .. n /\ w[text].kind = kind /\ w[text].full
       /\ \A j \in 1 .. n : w[j].kind = kind => j <= text

StreamedAt(streamed, w, n) ==
  /\ Range(streamed) = {i \in 1 .. n : w[i].kind = "delta" /\ w[i].full}
  /\ \A a, b \in DOMAIN streamed : a < b => streamed[a] < streamed[b]

HeardAt(told, w, n) ==
  /\ LastAt(told.result, w, n, "result") /\ LastAt(told.assistant, w, n, "assistant")
  /\ StreamedAt(told.streamed, w, n)

Utterances == [result : Nat, assistant : Nat, streamed : Seq(Nat)]

HeardInv ==
  /\ heard \in Utterances /\ proc["stream"].wrote \in Seq(Lines)
  /\ HeardAt(heard, proc["stream"].wrote, proc["stream"].read)
  /\ stage = "settled" /\ settled.by = "stream"
       => proc["stream"].phase = "closed" /\ settled.text = Answer(heard)

LEMMA LastStep ==
  ASSUME NEW w \in Seq(Lines), NEW n \in Nat, n < Len(w), NEW text \in Nat, NEW kind,
         LastAt(text, w, n, kind)
  PROVE  LastAt(IF w[n + 1].kind # kind THEN text ELSE IF w[n + 1].full THEN n + 1 ELSE 0, w, n + 1, kind)
<1>1. /\ 1 .. n + 1 = (1 .. n) \cup {n + 1} /\ n + 1 # 0
      /\ \A i \in 1 .. n : n + 1 > i /\ i <= n + 1
      /\ n + 1 \in 1 .. n + 1
  OBVIOUS
<1>2. CASE w[n + 1].kind # kind
  BY <1>1, <1>2 DEF LastAt
<1>3. CASE w[n + 1].kind = kind /\ w[n + 1].full
  <2>1. LastAt(n + 1, w, n + 1, kind)
    BY <1>1, <1>3 DEF LastAt
  <2> QED BY <1>3, <2>1
<1>4. CASE w[n + 1].kind = kind /\ ~ w[n + 1].full
  <2>1. LastAt(0, w, n + 1, kind)
    BY <1>1, <1>4 DEF LastAt
  <2> QED BY <1>4, <2>1
<1> QED BY <1>2, <1>3, <1>4

LEMMA StreamedStep ==
  ASSUME NEW w \in Seq(Lines), NEW n \in Nat, n < Len(w), NEW streamed \in Seq(Nat),
         StreamedAt(streamed, w, n)
  PROVE  StreamedAt(IF w[n + 1].kind = "delta" /\ w[n + 1].full THEN Append(streamed, n + 1) ELSE streamed,
                    w, n + 1)
<1>1. 1 .. n + 1 = (1 .. n) \cup {n + 1}
  OBVIOUS
<1>2. CASE ~ (w[n + 1].kind = "delta" /\ w[n + 1].full)
  BY <1>1, <1>2, Zenon DEF StreamedAt
<1>3. CASE w[n + 1].kind = "delta" /\ w[n + 1].full
  <2> DEFINE more == Append(streamed, n + 1)
             L == Len(streamed)
  <2>1. /\ DOMAIN streamed = 1 .. L /\ L \in Nat /\ DOMAIN more = 1 .. L + 1
        /\ more[L + 1] = n + 1 /\ \A a \in 1 .. L : more[a] = streamed[a]
    OBVIOUS
  <2>2. Range(more) = Range(streamed) \cup {n + 1}
    <3>1. 1 .. L + 1 = (1 .. L) \cup {L + 1}
      BY <2>1
    <3> HIDE DEF more, L
    <3> QED BY <2>1, <3>1 DEF Range
  <2>3. \A a \in DOMAIN streamed : streamed[a] \in 1 .. n
    <3>1. \A a \in DOMAIN streamed : streamed[a] \in Range(streamed)
      BY DEF Range
    <3> QED BY <3>1 DEF StreamedAt
  <2>4. Range(more) = {i \in 1 .. n + 1 : w[i].kind = "delta" /\ w[i].full}
    <3>1. Range(streamed) = {i \in 1 .. n : w[i].kind = "delta" /\ w[i].full}
      BY DEF StreamedAt
    <3> HIDE DEF more
    <3> QED BY <1>1, <1>3, <2>2, <3>1
  <2>5. ASSUME NEW a \in DOMAIN more, NEW b \in DOMAIN more, a < b PROVE more[a] < more[b]
    <3>1. a \in 1 .. L /\ streamed[a] \in 1 .. n /\ more[a] = streamed[a]
      BY <2>1, <2>3, <2>5
    <3>2. CASE b = L + 1
      BY <2>1, <3>1, <3>2
    <3>3. CASE b # L + 1
      <4>1. b \in 1 .. L /\ more[b] = streamed[b]
        BY <2>1, <2>5, <3>3
      <4> QED BY <2>1, <2>5, <3>1, <4>1 DEF StreamedAt
    <3> QED BY <3>2, <3>3
  <2>6. StreamedAt(more, w, n + 1)
    BY <2>4, <2>5, Zenon DEF StreamedAt
  <2> QED BY <1>3, <2>6
<1> QED BY <1>2, <1>3

(* What one more line does to each of the three.                           *)
Moved(next, piece, n) ==
  /\ next.result = (IF piece.kind # "result" THEN heard.result ELSE IF piece.full THEN n + 1 ELSE 0)
  /\ next.assistant = (IF piece.kind # "assistant" THEN heard.assistant ELSE IF piece.full THEN n + 1 ELSE 0)
  /\ next.streamed = (IF piece.kind = "delta" /\ piece.full THEN Append(heard.streamed, n + 1) ELSE heard.streamed)

LEMMA HandledIs ==
  ASSUME NEW w \in Seq(Lines), NEW n \in Nat, n < Len(w), heard \in Utterances
  PROVE  Handled(w[n + 1], n + 1) \in Utterances /\ Moved(Handled(w[n + 1], n + 1), w[n + 1], n)
<1> DEFINE piece == w[n + 1]
           next == Handled(piece, n + 1)
<1>1. /\ piece \in Lines /\ n + 1 \in Nat
      /\ piece.kind \in {"delta", "assistant", "result"} /\ piece.full \in BOOLEAN
  <2>1. piece \in Lines /\ n + 1 \in Nat
    OBVIOUS
  <2> HIDE DEF piece
  <2> QED BY <2>1 DEF Lines
<1>2. heard.result \in Nat /\ heard.assistant \in Nat /\ heard.streamed \in Seq(Nat)
  BY DEF Utterances
<1>3. Append(heard.streamed, n + 1) \in Seq(Nat)
  BY <1>1, <1>2
<1> HIDE DEF piece
<1> DEFINE text == IF piece.full THEN n + 1 ELSE 0
<1>4. text \in Nat
  BY <1>1
<1>5. ASSUME piece.kind = "result" PROVE next \in Utterances /\ Moved(next, piece, n)
  <2>1. next = [heard EXCEPT !.result = text]
    BY <1>5 DEF Handled
  <2> HIDE DEF next
  <2>2. next.result = text /\ next.assistant = heard.assistant /\ next.streamed = heard.streamed
    BY <2>1 DEF Utterances
  <2>3. next \in Utterances
    BY <1>2, <1>4, <2>1 DEF Utterances
  <2> QED BY <1>5, <2>2, <2>3 DEF Moved
<1>6. ASSUME piece.kind = "assistant" PROVE next \in Utterances /\ Moved(next, piece, n)
  <2>1. next = [heard EXCEPT !.assistant = text]
    BY <1>6 DEF Handled
  <2> HIDE DEF next
  <2>2. next.assistant = text /\ next.result = heard.result /\ next.streamed = heard.streamed
    BY <2>1 DEF Utterances
  <2>3. next \in Utterances
    BY <1>2, <1>4, <2>1 DEF Utterances
  <2> QED BY <1>6, <2>2, <2>3 DEF Moved
<1>7. ASSUME piece.kind = "delta" PROVE next \in Utterances /\ Moved(next, piece, n)
  <2>1. next = IF piece.full THEN [heard EXCEPT !.streamed = Append(heard.streamed, n + 1)] ELSE heard
    BY <1>7 DEF Handled
  <2> HIDE DEF next
  <2>2. CASE piece.full
    <3>1. /\ next.streamed = Append(heard.streamed, n + 1) /\ next.result = heard.result
          /\ next.assistant = heard.assistant
      BY <2>1, <2>2 DEF Utterances
    <3>2. next \in Utterances
      BY <1>2, <1>3, <2>1, <2>2 DEF Utterances
    <3> QED BY <1>7, <2>2, <3>1, <3>2 DEF Moved
  <2>3. CASE ~ piece.full
    BY <1>7, <2>1, <2>3 DEF Moved
  <2> QED BY <2>2, <2>3
<1>8. next \in Utterances /\ Moved(next, piece, n)
  BY <1>1, <1>5, <1>6, <1>7
<1> QED BY <1>8 DEF piece

LEMMA HandledStep ==
  ASSUME NEW w \in Seq(Lines), NEW n \in Nat, n < Len(w), heard \in Utterances, HeardAt(heard, w, n)
  PROVE  Handled(w[n + 1], n + 1) \in Utterances /\ HeardAt(Handled(w[n + 1], n + 1), w, n + 1)
<1> DEFINE next == Handled(w[n + 1], n + 1)
<1>1. next \in Utterances /\ Moved(next, w[n + 1], n)
  BY HandledIs
<1>2. heard.result \in Nat /\ heard.assistant \in Nat /\ heard.streamed \in Seq(Nat)
  BY DEF Utterances
<1>3. /\ LastAt(heard.result, w, n, "result") /\ LastAt(heard.assistant, w, n, "assistant")
      /\ StreamedAt(heard.streamed, w, n)
  BY DEF HeardAt
<1> HIDE DEF next
<1>4. LastAt(next.result, w, n + 1, "result")
  <2>1. LastAt(IF w[n + 1].kind # "result" THEN heard.result ELSE IF w[n + 1].full THEN n + 1 ELSE 0, w, n + 1, "result")
    BY <1>2, <1>3, LastStep
  <2> QED BY <1>1, <2>1 DEF Moved
<1>5. LastAt(next.assistant, w, n + 1, "assistant")
  <2>1. LastAt(IF w[n + 1].kind # "assistant" THEN heard.assistant ELSE IF w[n + 1].full THEN n + 1 ELSE 0, w, n + 1,
               "assistant")
    BY <1>2, <1>3, LastStep
  <2> QED BY <1>1, <2>1 DEF Moved
<1>6. StreamedAt(next.streamed, w, n + 1)
  <2>1. StreamedAt(IF w[n + 1].kind = "delta" /\ w[n + 1].full THEN Append(heard.streamed, n + 1) ELSE heard.streamed,
                   w, n + 1)
    BY <1>2, <1>3, StreamedStep
  <2> QED BY <1>1, <2>1 DEF Moved
<1>7. HeardAt(next, w, n + 1)
  BY <1>4, <1>5, <1>6 DEF HeardAt
<1> QED BY <1>1, <1>7 DEF next

(* A line more in the pipe changes nothing of what was read.               *)
LEMMA HeardGrows ==
  ASSUME NEW w \in Seq(Lines), NEW n \in Nat, n <= Len(w), NEW piece \in Lines, NEW told,
         HeardAt(told, w, n)
  PROVE  HeardAt(told, Append(w, piece), n)
<1>1. \A i \in 1 .. n : Append(w, piece)[i] = w[i]
  OBVIOUS
<1>2. \A text, kind : LastAt(text, w, n, kind) => LastAt(text, Append(w, piece), n, kind)
  BY <1>1, Zenon DEF LastAt
<1>3. {i \in 1 .. n : w[i].kind = "delta" /\ w[i].full}
      = {i \in 1 .. n : Append(w, piece)[i].kind = "delta" /\ Append(w, piece)[i].full}
  BY <1>1
<1> QED BY <1>2, <1>3, Zenon DEF HeardAt, StreamedAt

LEMMA HeardAll ==
  ASSUME NEW w \in Seq(Lines), NEW told, HeardAt(told, w, Len(w))
  PROVE  SaysExactly(told, w)
<1>1. DOMAIN w = 1 .. Len(w)
  OBVIOUS
<1>2. \A text, kind : LastAt(text, w, Len(w), kind) => LastIs(text, w, kind)
  BY <1>1 DEF LastAt, LastIs
<1> QED BY <1>1, <1>2, Zenon DEF HeardAt, StreamedAt, SaysExactly

(* A step that neither writes to the stream, nor reads it, nor settles     *)
(* with its answer.                                                        *)
LEMMA HeardStays ==
  ASSUME HeardInv, heard' = heard, proc'["stream"].wrote = proc["stream"].wrote,
         proc'["stream"].read = proc["stream"].read,
         \/ /\ UNCHANGED <<stage, settled>>
            /\ proc["stream"].phase = "closed" => proc'["stream"].phase = "closed"
         \/ stage' # "settled" \/ settled'.by # "stream"
  PROVE  HeardInv'
BY Zenon DEF HeardInv

(* What the promise of another role, or of a stream that gives up, does.   *)
LEMMA SettlesElsewhere ==
  ASSUME NEW r \in Roles, NEW text, NEW late, NEW after, after \in [Roles -> Processes],
         \/ GivesUp(r, after)
         \/ r # "stream" /\ Answers(r, text, late, after)
  PROVE  /\ proc'["stream"] = after["stream"]
         /\ \/ UNCHANGED <<stage, settled>>
            \/ stage' # "settled" \/ settled'.by # "stream"
<1>1. CASE GivesUp(r, after)
  <2>1. "stream" \in Roles /\ "buffer" \in Roles
    BY DEF Roles
  <2> QED BY <1>1, <2>1 DEF GivesUp, Pending
<1>2. CASE r # "stream" /\ Answers(r, text, late, after)
  BY <1>2 DEF Answers
<1> QED BY <1>1, <1>2

LEMMA HeardKept ==
  ASSUME CliInv, HeardInv, CliNext
  PROVE  HeardInv'
<1> DEFINE p == proc["stream"]
<1>1. /\ "stream" \in Roles /\ proc \in [Roles -> Processes] /\ p \in Processes /\ SoundAs("stream", p)
      /\ p.read \in Nat /\ Len(p.wrote) \in Nat /\ p.read <= Len(p.wrote) /\ p.wrote \in Seq(Lines)
      /\ Unread("stream") = Len(p.wrote) - p.read
  BY CliFacts DEF CliInv, Roles, SoundAs, HeardInv
<1>2. ASSUME NEW r \in Roles, proc' = Spawned(r), stage = "none", stage' = r, heard' = heard PROVE HeardInv'
  <2>1. p.wrote = << >> /\ p.read = 0
    <3>1. p.wrote = << >>
      BY <1>1, <1>2 DEF CliInv, StageSound, Unused, SoundAs
    <3> QED BY <1>1, <3>1
  <2>2. proc'["stream"] = Begun \/ proc'["stream"] = p
    BY <1>1, <1>2 DEF Spawned, Begun
  <2>3. Begun.wrote = << >> /\ Begun.read = 0
    BY DEF Begun, NoProcess
  <2>4. stage' # "settled"
    BY <1>2 DEF Roles
  <2> QED BY <1>2, <2>1, <2>2, <2>3, <2>4, HeardStays
<1>3. ASSUME NEW sink \in BOOLEAN, Complete(sink) PROVE HeardInv'
  <2>1. PICK r \in Roles : proc' = Spawned(r) /\ stage' = r
    BY <1>3 DEF Complete, Roles
  <2> QED BY <1>2, <1>3, <2>1 DEF Complete
<1>4. CASE RunProgram
  BY <1>2, <1>4 DEF RunProgram, Roles
<1>5. ASSUME NEW r \in Roles, Writes(r) PROVE HeardInv'
  <2>1. CASE r # "stream"
    <3>1. proc'["stream"] = p
      BY <1>1, <1>5, <2>1 DEF Writes
    <3> QED BY <1>5, <3>1, HeardStays DEF Writes
  <2>2. CASE r = "stream"
    <3>1. PICK piece \in Lines : proc' = [proc EXCEPT !["stream"].wrote = Append(@, piece)]
      BY <1>5, <2>2 DEF Writes
    <3>2. /\ proc'["stream"].wrote = Append(p.wrote, piece) /\ proc'["stream"].read = p.read
          /\ p.phase = "running" /\ UNCHANGED <<stage, settled, heard>>
      BY <1>1, <1>5, <2>2, <3>1 DEF Writes, Processes
    <3>3. HeardAt(heard, Append(p.wrote, piece), p.read) /\ Append(p.wrote, piece) \in Seq(Lines)
      BY <1>1, HeardGrows DEF HeardInv
    <3> QED BY <3>2, <3>3 DEF HeardInv
  <2> QED BY <2>1, <2>2
<1>6. ASSUME NEW r \in Roles, Exits(r) PROVE HeardInv'
  <2>1. /\ proc'["stream"].wrote = p.wrote /\ proc'["stream"].read = p.read
        /\ UNCHANGED <<stage, settled, heard>> /\ (p.phase = "closed" => proc'["stream"].phase = "closed")
    BY <1>1, <1>6 DEF Exits, Processes
  <2> QED BY <2>1, HeardStays
<1>7. ASSUME NEW r \in Roles, SpawnFails(r) PROVE HeardInv'
  <2> DEFINE after == [proc EXCEPT ![r].phase = "closed", ![r].code = "error", ![r].timer = FALSE]
  <2>1. after \in [Roles -> Processes]
    <3> DEFINE ended == [proc[r] EXCEPT !.phase = "closed", !.code = "error", !.timer = FALSE]
    <3>1. proc[r] \in Processes
      BY <1>1
    <3>2. ended \in Processes
      BY <3>1 DEF Processes
    <3>3. after = [proc EXCEPT ![r] = ended]
      BY <1>1
    <3>. HIDE DEF ended
    <3>. QED BY <1>1, <3>2, <3>3
  <2>2. after["stream"].wrote = p.wrote /\ after["stream"].read = p.read
        /\ (p.phase = "closed" => after["stream"].phase = "closed")
    BY <1>1 DEF Processes
  <2>3. (GivesUp(r, after) \/ (r # "stream" /\ Answers(r, << >>, FALSE, after))) /\ heard' = heard
    BY <1>7 DEF SpawnFails
  <2> HIDE DEF after
  <2>4. /\ proc'["stream"] = after["stream"]
        /\ UNCHANGED <<stage, settled>> \/ stage' # "settled" \/ settled'.by # "stream"
    BY <2>1, <2>3, SettlesElsewhere
  <2> QED BY <2>2, <2>3, <2>4, HeardStays
<1>8. ASSUME NEW r \in Roles, Reads(r) PROVE HeardInv'
  <2>1. CASE r # "stream"
    <3>1. proc'["stream"] = p /\ UNCHANGED <<stage, settled, heard>>
      BY <1>1, <1>8, <2>1 DEF Reads
    <3> QED BY <3>1, HeardStays
  <2>2. CASE r = "stream"
    <3>1. /\ p.read < Len(p.wrote) /\ heard' = Handled(p.wrote[p.read + 1], p.read + 1)
          /\ UNCHANGED <<stage, settled>>
      BY <1>1, <1>8, <2>2 DEF Reads
    <3>2. proc'["stream"].wrote = p.wrote /\ proc'["stream"].read = p.read + 1
      BY <1>1, <1>8, <2>2 DEF Reads, Processes
    <3>3. heard' \in Utterances /\ HeardAt(heard', p.wrote, p.read + 1)
      BY <1>1, <3>1, HandledStep DEF HeardInv
    <3>4. p.phase # "closed"
      BY <1>1, <3>1 DEF SoundAs
    <3> QED BY <1>1, <3>1, <3>2, <3>3, <3>4 DEF HeardInv
  <2> QED BY <2>1, <2>2
<1>9. CASE StreamCloses
  <2> DEFINE n == p.read + (IF Unread("stream") = 0 THEN 0 ELSE 1)
             after == [proc EXCEPT !["stream"].phase = "closed", !["stream"].timer = FALSE,
                                   !["stream"].read = @ + (IF Unread("stream") = 0 THEN 0 ELSE 1)]
  <2>1. n = Len(p.wrote)
    BY <1>1, <1>9 DEF StreamCloses, Drained
  <2>2. heard' \in Utterances /\ HeardAt(heard', p.wrote, Len(p.wrote))
    <3>1. CASE Unread("stream") = 0
      <4>1. heard' = heard /\ p.read = Len(p.wrote)
        BY <1>1, <1>9, <3>1 DEF StreamCloses
      <4> QED BY <4>1 DEF HeardInv
    <3>2. CASE Unread("stream") # 0
      <4>1. p.read < Len(p.wrote) /\ p.read + 1 = Len(p.wrote)
        BY <1>1, <2>1, <3>2
      <4>2. heard' = Handled(p.wrote[p.read + 1], p.read + 1)
        BY <1>9, <3>2 DEF StreamCloses
      <4>3. heard' \in Utterances /\ HeardAt(heard', p.wrote, p.read + 1)
        BY <1>1, <4>1, <4>2, HandledStep DEF HeardInv
      <4> QED BY <4>1, <4>3
    <3> QED BY <3>1, <3>2
  <2>3. /\ after \in [Roles -> Processes] /\ after["stream"].phase = "closed"
        /\ after["stream"].wrote = p.wrote /\ after["stream"].read = Len(p.wrote)
    <3>1. n \in Nat
      BY <1>1, <2>1
    <3>2. after = [proc EXCEPT !["stream"] = [p EXCEPT !.phase = "closed", !.timer = FALSE, !.read = n]]
      BY <1>1
    <3> HIDE DEF after, n
    <3> QED BY <1>1, <2>1, <3>1, <3>2 DEF Processes
  <2>4. p.phase = "exited"
    BY <1>9 DEF StreamCloses
  <2>5. GivesUp("stream", after) \/ Answers("stream", Answer(heard'), FALSE, after)
    BY <1>9 DEF StreamCloses
  <2> HIDE DEF after, n
  <2>6. CASE GivesUp("stream", after)
    <3>1. /\ proc'["stream"] = after["stream"]
          /\ UNCHANGED <<stage, settled>> \/ stage' # "settled" \/ settled'.by # "stream"
      BY <1>1, <2>3, <2>6, SettlesElsewhere
    <3> QED BY <1>1, <2>2, <2>3, <2>4, <3>1 DEF HeardInv
  <2>7. CASE Answers("stream", Answer(heard'), FALSE, after)
    <3>1. /\ proc' = after
          /\ UNCHANGED <<stage, settled>> \/ settled'.text = Answer(heard')
      BY <2>7 DEF Answers
    <3>2. (stage' = "settled" /\ settled'.by = "stream") => settled'.text = Answer(heard')
      BY <2>4, <3>1 DEF HeardInv
    <3>3. /\ proc'["stream"].phase = "closed" /\ proc'["stream"].wrote = p.wrote
          /\ proc'["stream"].read = Len(p.wrote)
      BY <2>3, <3>1
    <3>4. p.wrote \in Seq(Lines)
      BY <1>1
    <3> HIDE DEF p
    <3>5. proc'["stream"].wrote \in Seq(Lines) /\ HeardAt(heard', proc'["stream"].wrote, proc'["stream"].read)
      BY <2>2, <3>3, <3>4
    <3> QED BY <2>2, <3>2, <3>3, <3>5, Zenon DEF HeardInv
  <2> QED BY <2>5, <2>6, <2>7, Zenon
<1>10. ASSUME NEW r \in {"buffer", "box"}, NEW text, NEW late,
              LET after == [proc EXCEPT ![r].phase = "closed", ![r].timer = FALSE]
              IN GivesUp(r, after) \/ Answers(r, text, late, after),
              heard' = heard
       PROVE  HeardInv'
  <2> DEFINE after == [proc EXCEPT ![r].phase = "closed", ![r].timer = FALSE]
  <2>1. after \in [Roles -> Processes] /\ after["stream"] = p /\ r \in Roles
    BY <1>1 DEF Processes, Roles
  <2>2. GivesUp(r, after) \/ (r # "stream" /\ Answers(r, text, late, after))
    BY <1>10
  <2> HIDE DEF after
  <2>3. /\ proc'["stream"] = after["stream"]
        /\ UNCHANGED <<stage, settled>> \/ stage' # "settled" \/ settled'.by # "stream"
    BY <2>1, <2>2, SettlesElsewhere
  <2> QED BY <1>10, <2>1, <2>3, HeardStays
<1>11. CASE BufferCloses
  BY <1>10, <1>11 DEF BufferCloses
<1>12. CASE BoxCloses
  BY <1>10, <1>12 DEF BoxCloses
<1>13. ASSUME NEW r \in Roles PROVE
         /\ Struck(r) \in [Roles -> Processes]
         /\ Struck(r)["stream"].wrote = p.wrote /\ Struck(r)["stream"].read = p.read
         /\ p.phase = "closed" => Struck(r)["stream"].phase = "closed"
  <2> DEFINE q == [proc[r] EXCEPT !.timer = FALSE, !.phase = IF @ = "running" THEN "exited" ELSE @,
                                  !.code = IF @ = "none" THEN "killed" ELSE @]
  <2>1. Struck(r) = [proc EXCEPT ![r] = q]
    BY <1>1 DEF Struck
  <2>2. proc[r] \in Processes
    BY <1>1
  <2>3. /\ q \in Processes /\ q.wrote = proc[r].wrote /\ q.read = proc[r].read
        /\ proc[r].phase = "closed" => q.phase = "closed"
    BY <2>2 DEF Processes
  <2> HIDE DEF q
  <2> QED BY <1>1, <2>1, <2>2, <2>3
<1>14. ASSUME NEW r \in Roles, CallTimesOut(r) PROVE HeardInv'
  <2>1. GivesUp(r, Struck(r)) /\ heard' = heard
    BY <1>14 DEF CallTimesOut
  <2>2. /\ proc'["stream"] = Struck(r)["stream"]
        /\ UNCHANGED <<stage, settled>> \/ stage' # "settled" \/ settled'.by # "stream"
    BY <1>13, <2>1, SettlesElsewhere
  <2> QED BY <1>13, <2>1, <2>2, HeardStays
<1>15. CASE GroupTimesOut \/ ClientTimesOut
  <2>1. proc' = Struck("box") /\ UNCHANGED <<stage, settled, heard>>
    BY <1>15 DEF GroupTimesOut, ClientTimesOut
  <2> QED BY <1>13, <2>1, HeardStays DEF Roles
<1>16. CASE ContainerEnds
  BY <1>16, HeardStays DEF ContainerEnds
<1> QED BY <1>3, <1>4, <1>5, <1>6, <1>7, <1>8, <1>9, <1>11, <1>12, <1>14, <1>15, <1>16 DEF CliNext

(* The program inside the box: it runs under its child, or it is a         *)
(* container whose client was killed.                                      *)
ProgramInv ==
  program = "running" =>
    /\ stage = "box" \/ (stage = "settled" /\ settled.by = "box")
    /\ \/ proc["box"].phase = "running"
       \/ sandbox = "docker" /\ proc["box"].code = "killed"

LEMMA ProgramKept ==
  ASSUME CliInv, ProgramInv, CliNext
  PROVE  ProgramInv'
<1> DEFINE p == proc["box"]
<1> SUFFICES ASSUME program' = "running" PROVE ProgramInv'
  BY DEF ProgramInv
<1>1. "box" \in Roles /\ proc \in [Roles -> Processes] /\ p \in Processes /\ SoundAs("box", p)
  BY CliFacts DEF CliInv, Roles
<1>2. CASE RunProgram
  <2>1. stage' = "box" /\ proc'["box"].phase = "running"
    BY <1>1, <1>2 DEF RunProgram, Spawned, NoProcess
  <2> QED BY <2>1 DEF ProgramInv
<1>3. CASE program = "running"
  <2>1. stage = "box" \/ (stage = "settled" /\ settled.by = "box")
    BY <1>3 DEF ProgramInv
  <2>2. p.phase = "running" \/ (sandbox = "docker" /\ p.code = "killed")
    BY <1>3 DEF ProgramInv
  <2>3. ASSUME UNCHANGED <<stage, settled, sandbox>>, proc'["box"].phase = p.phase, proc'["box"].code = p.code
        PROVE  ProgramInv'
    BY <2>1, <2>2, <2>3 DEF ProgramInv
  <2>4. ASSUME NEW r \in Roles, Writes(r) \/ Reads(r) PROVE ProgramInv'
    <3>1. UNCHANGED <<stage, settled, sandbox>>
      BY <2>4 DEF Writes, Reads, boxVars
    <3>2. proc'["box"].phase = p.phase /\ proc'["box"].code = p.code
      <4>1. CASE Writes(r)
        <5>1. PICK piece : proc' = [proc EXCEPT ![r].wrote = Append(@, piece)]
          BY <4>1 DEF Writes
        <5> QED BY <1>1, <5>1 DEF Processes
      <4>2. CASE Reads(r)
        <5>1. proc' = [proc EXCEPT ![r].read = @ + 1]
          BY <4>2 DEF Reads
        <5> QED BY <1>1, <5>1 DEF Processes
      <4> QED BY <2>4, <4>1, <4>2
    <3> QED BY <2>3, <3>1, <3>2
  <2>5. ASSUME NEW r \in Roles \ {"box"}, NEW text, NEW late, NEW after, after["box"] = p,
               GivesUp(r, after) \/ Answers(r, text, late, after), UNCHANGED sandbox
        PROVE  ProgramInv'
    <3>1. r # stage
      BY <2>1, <2>5 DEF Roles
    <3>2. UNCHANGED <<stage, settled>> /\ proc' = after
      BY <2>5, <3>1 DEF GivesUp, Answers
    <3> QED BY <2>3, <2>5, <3>2
  <2>6. ASSUME NEW r \in Roles, Exits(r) PROVE ProgramInv'
    <3>1. r # "box"
      BY <2>6 DEF Exits, Ends
    <3>2. UNCHANGED <<stage, settled, sandbox>> /\ proc'["box"] = p
      BY <1>1, <2>6, <3>1 DEF Exits, Ends
    <3> QED BY <2>3, <3>2
  <2>7. ASSUME NEW r \in Roles, SpawnFails(r) PROVE ProgramInv'
    <3> DEFINE after == [proc EXCEPT ![r].phase = "closed", ![r].code = "error", ![r].timer = FALSE]
    <3>1. r # "box" /\ UNCHANGED sandbox
      BY <2>7 DEF SpawnFails, Ends
    <3>2. after["box"] = p /\ GivesUp(r, after)
      BY <1>1, <2>7, <3>1 DEF SpawnFails
    <3> HIDE DEF after
    <3> QED BY <2>5, <3>1, <3>2
  <2>8. ASSUME NEW r \in Roles, CallTimesOut(r) PROVE ProgramInv'
    <3>1. r # "box" /\ UNCHANGED sandbox /\ GivesUp(r, Struck(r))
      BY <2>8 DEF CallTimesOut, boxVars
    <3>2. Struck(r)["box"] = p
      BY <1>1, <3>1 DEF Struck
    <3> QED BY <2>5, <3>1, <3>2
  <2>9. CASE StreamCloses
    <3> DEFINE after == [proc EXCEPT !["stream"].phase = "closed", !["stream"].timer = FALSE,
                                     !["stream"].read = @ + (IF Unread("stream") = 0 THEN 0 ELSE 1)]
    <3>1. after["box"] = p /\ UNCHANGED sandbox /\ "stream" \in Roles \ {"box"}
      BY <1>1, <2>9 DEF StreamCloses, boxVars, Roles
    <3>2. GivesUp("stream", after) \/ Answers("stream", Answer(heard'), FALSE, after)
      BY <2>9 DEF StreamCloses
    <3> HIDE DEF after
    <3> QED BY <2>5, <3>1, <3>2
  <2>10. CASE BufferCloses
    <3> DEFINE after == [proc EXCEPT !["buffer"].phase = "closed", !["buffer"].timer = FALSE]
               text == SubSeq(proc["buffer"].wrote, 1, proc["buffer"].read)
    <3>1. after["box"] = p /\ UNCHANGED sandbox /\ "buffer" \in Roles \ {"box"}
      BY <1>1, <2>10 DEF BufferCloses, boxVars, Roles
    <3>2. GivesUp("buffer", after) \/ Answers("buffer", text, FALSE, after)
      BY <2>10 DEF BufferCloses
    <3> HIDE DEF after, text
    <3> QED BY <2>5, <3>1, <3>2
  <2>11. CASE BoxCloses
    <3> DEFINE after == [proc EXCEPT !["box"].phase = "closed", !["box"].timer = FALSE]
               text == SubSeq(proc["box"].wrote, 1, proc["box"].read)
               late == proc["box"].code = "killed"
    <3>1. after["box"].code = p.code /\ UNCHANGED sandbox /\ sandbox = "docker" /\ p.code = "killed"
      BY <1>1, <2>2, <2>11 DEF BoxCloses, boxVars, Processes
    <3>2. Answers("box", text, late, after)
      BY <2>11 DEF BoxCloses
    <3> HIDE DEF after, text, late
    <3>3. proc' = after /\ (UNCHANGED <<stage, settled>> \/ (stage' = "settled" /\ settled'.by = "box"))
      BY <3>2 DEF Answers
    <3> QED BY <2>1, <3>1, <3>3 DEF ProgramInv
  <2>12. ~ GroupTimesOut /\ ~ ContainerEnds
    BY DEF GroupTimesOut, ContainerEnds
  <2>13. CASE ClientTimesOut
    <3>1. Struck("box")["box"].code = (IF p.code = "none" THEN "killed" ELSE p.code)
      BY <1>1 DEF Struck, Processes
    <3>2. p.code = "none" \/ p.code = "killed"
      BY <1>1, <2>2 DEF SoundAs
    <3> QED BY <2>1, <2>13, <3>1, <3>2 DEF ClientTimesOut, ProgramInv, boxVars
  <2>14. \A sink \in BOOLEAN : ~ Complete(sink)
    BY <2>1 DEF Complete
  <2> QED BY <1>2, <2>4, <2>6, <2>7, <2>8, <2>9, <2>10, <2>11, <2>12, <2>13, <2>14 DEF CliNext
<1>4. CASE program # "running"
  <2>1. RunProgram
    <3>1. ASSUME ~ RunProgram PROVE FALSE
      <4>1. program' = program \/ program' = "over"
        BY <3>1 DEF CliNext, Complete, Writes, Exits, SpawnFails, Reads, CallTimesOut, StreamCloses, BufferCloses,
                    BoxCloses, GroupTimesOut, ClientTimesOut, ContainerEnds, Ends, boxVars
      <4> QED BY <1>4, <4>1
    <3> QED BY <3>1
  <2> QED BY <1>2, <2>1
<1> QED BY <1>3, <1>4

(* When a call has settled no child of it runs on and no timer will strike *)
(* later, an answer is the whole answer of a process that ended well - of  *)
(* a stream, what all its lines say - and a program is over, except for a  *)
(* container whose client was killed: whichever of exit, data, end of the  *)
(* pipes and limit came first, and however much the process writes.        *)
THEOREM CallsSettleCleanly == CliSpec => []SettledCleanly
<1> DEFINE Inv == CliInv /\ HeardInv /\ ProgramInv
<1>1. CliInit => Inv
  <2> SUFFICES ASSUME CliInit PROVE Inv
    OBVIOUS
  <2>1. CliInv
    BY BegunIs DEF CliInit, CliInv, StageSound, Unused, SettledWell, Roles, NoProcess
  <2>2. heard = Unsaid /\ stage = "none" /\ proc["stream"].wrote = << >> /\ proc["stream"].read = 0
    BY DEF CliInit, Roles, NoProcess
  <2>3. << >> \in Seq(Lines) /\ << >> \in Seq(Nat) /\ DOMAIN << >> = {} /\ 1 .. 0 = {}
    OBVIOUS
  <2>4. Unsaid \in Utterances /\ HeardAt(Unsaid, << >>, 0)
    BY <2>3 DEF Unsaid, Utterances, HeardAt, LastAt, StreamedAt, Range
  <2>5. HeardInv
    BY <2>2, <2>3, <2>4 DEF HeardInv
  <2>6. ProgramInv
    BY DEF CliInit, ProgramInv
  <2> QED BY <2>1, <2>5, <2>6
<1>2. Inv /\ [CliNext]_cliVars => Inv'
  <2>1. ASSUME Inv, UNCHANGED cliVars PROVE HeardInv' /\ ProgramInv'
    BY <2>1 DEF cliVars, boxVars, HeardInv, ProgramInv
  <2> QED BY <2>1, CliKept, HeardKept, ProgramKept
<1>3. Inv => SettledCleanly
  <2> SUFFICES ASSUME Inv, stage = "settled" PROVE SettledCleanly
    BY DEF SettledCleanly
  <2>1. \A r \in Roles : proc[r].phase # "running" /\ ~ proc[r].timer
    BY DEF CliInv, SettledWell, IsOver
  <2>2. /\ settled.by \in {"stream", "buffer"} => proc[settled.by].code = "ok"
        /\ settled.by \in {"buffer", "box"} => settled.text = proc[settled.by].wrote
        /\ settled.late <=> settled.by = "box" /\ proc["box"].code = "killed"
    BY DEF CliInv, SettledWell
  <2>3. ASSUME settled.by = "stream"
        PROVE  SaysExactly(heard, proc["stream"].wrote) /\ settled.text = Answer(heard)
    <3>1. proc["stream"].phase = "closed" /\ settled.text = Answer(heard)
      BY <2>3 DEF HeardInv
    <3>2. proc["stream"].read = Len(proc["stream"].wrote)
      BY <3>1 DEF CliInv, SoundAs, Roles
    <3> QED BY <3>1, <3>2, HeardAll DEF HeardInv
  <2>4. program = "running" => sandbox = "docker" /\ settled.late
    <3>1. "box" \in Roles
      BY DEF Roles
    <3> QED BY <2>1, <2>2, <3>1 DEF ProgramInv
  <2> QED BY <2>1, <2>2, <2>3, <2>4, Zenon DEF SettledCleanly
<1> QED BY <1>1, <1>2, <1>3, PTL DEF CliSpec


-----------------------------------------------------------------------------
(* The memory: what a run is given of it.                                  *)

MemorySpec == MemoryInit /\ [][MemoryNext]_memoryVars

Subjects == Texts \cup {{}}
Remembered == {m \in Range(Earlier) : m.kind \in MemoryKinds}
              \cup [kind : {"episodic"}, by : Jobs, words : Subjects, embedded : BOOLEAN]
JobRecords == [at : {"idle", "works", "succeeded", "over"}, task : Subjects, tries : Nat,
               recalled : SUBSET Nat, reached : SUBSET Nat]

(* The jobs whose memories are the ones they should be.                    *)
Earned ==
  {job \in JobRecords :
     LET r == job.recalled IN
     /\ job.reached \subseteq 1 .. Len(records) /\ r \subseteq 1 .. Len(records)
     /\ Cardinality(r) <= Limit
     /\ \A i \in r : records[i].kind \in Asked
     /\ \A i \in job.reached \ r :
          records[i].kind \in Asked /\ Shared(job.task, i) > 0
          => /\ Cardinality(r) = Limit
             /\ \A k \in r : Shared(job.task, k) >= Shared(job.task, i)}

MemoryInv ==
  /\ store \in {"lexical", "vector", "pgvector"}
  /\ records \in Seq(Remembered)
  /\ jobs \in [Jobs -> Earned]

(* The first n of a set: all of it, or n that nothing left out outranks.   *)
LEMMA TopIsFull ==
  ASSUME NEW S, IsFiniteSet(S), NEW n \in Nat, NEW rank, NEW T \in Top(S, n, rank)
  PROVE  /\ T \subseteq S /\ Cardinality(T) \in Nat /\ Cardinality(T) <= n
         /\ \A j \in S \ T : Cardinality(T) = n /\ \A i \in T : rank[i] >= rank[j]
<1>1. /\ T \in SUBSET S /\ Cardinality(T) = Min({n, Cardinality(S)})
      /\ \A i \in T, j \in S \ T : rank[i] >= rank[j]
  BY DEF Top
<1>2. Cardinality(S) \in Nat BY FS_CardinalityType
<1>3. Min({n, Cardinality(S)}) \in {n, Cardinality(S)} /\ Min({n, Cardinality(S)}) <= n
  <2>1. {n, Cardinality(S)} \in SUBSET Nat /\ {n, Cardinality(S)} # {} BY <1>2
  <2> QED BY <2>1, MinIsLeast
<1>4. Cardinality(T) \in Nat /\ Cardinality(T) <= n /\ Cardinality(T) \in {n, Cardinality(S)}
  BY <1>1, <1>2, <1>3
<1>5. ASSUME NEW j \in S \ T PROVE Cardinality(T) = n
  <2>1. S # T BY <1>5
  <2>2. Cardinality(S) # Cardinality(T) BY <1>1, <2>1, FS_Subset
  <2> QED BY <1>4, <2>2
<1> QED BY <1>1, <1>4, <1>5

LEMMA RecordsAre ==
  ASSUME MemoryInv
  PROVE  /\ Len(records) \in Nat /\ DOMAIN records = 1 .. Len(records) /\ IsFiniteSet(DOMAIN records)
         /\ \A i \in DOMAIN records : records[i] \in Remembered /\ records[i].kind \in MemoryKinds
<1>1. records \in Seq(Remembered) BY DEF MemoryInv
<1>2. Len(records) \in Nat /\ DOMAIN records = 1 .. Len(records) /\ \A i \in DOMAIN records : records[i] \in Remembered
  BY <1>1, LenProperties, ElementOfSeq
<1>3. IsFiniteSet(1 .. Len(records)) BY <1>2, FS_Interval
<1>4. \A m \in Remembered : m.kind \in MemoryKinds BY DEF Remembered, MemoryKinds
<1> QED BY <1>2, <1>3, <1>4

(* Words shared are counted.                                               *)
LEMMA SharedIsCounted ==
  ASSUME NEW query \in Subjects
  PROVE  /\ \A i : Shared(query, i) \in Nat
         /\ query = {} => \A i : Shared(query, i) = 0
         /\ Seen(query) = {} => \A i : Shared(query, i) = 0
<1>1. IsFiniteSet(query) BY MemoryAssumption, FS_EmptySet DEF Subjects
<1>2. Cardinality({}) = 0 BY FS_EmptySet
<1>3. ASSUME NEW i PROVE Shared(query, i) \in Nat
  <2>1. Seen(query) \cap Seen(records[i].words) \in SUBSET query BY DEF Seen
  <2>2. IsFiniteSet(Seen(query) \cap Seen(records[i].words)) BY <1>1, <2>1, FS_Subset
  <2> QED BY <2>2, FS_CardinalityType DEF Shared
<1>4. ASSUME NEW i, Seen(query) = {} PROVE Shared(query, i) = 0
  <2>1. Seen(query) \cap Seen(records[i].words) = {} BY <1>4
  <2> QED BY <1>2, <2>1 DEF Shared
<1>5. query = {} => Seen(query) = {} BY DEF Seen
<1> QED BY <1>3, <1>4, <1>5

(* A number and a digit below the base: the number weighs more.            *)
LEMMA DigitsWeighLess ==
  ASSUME NEW a \in Nat, NEW b \in Nat, NEW n \in Nat, NEW i \in 1 .. n, NEW k \in 1 .. n,
         a * n + k >= b * n + i
  PROVE  a >= b
<1> SUFFICES ASSUME a < b PROVE FALSE OBVIOUS
<1>1. PICK d \in Nat : b = a + 1 + d
  <2>1. b - a - 1 \in Nat /\ b = a + 1 + (b - a - 1) OBVIOUS
  <2> QED BY <2>1
<1>2. b * n = a * n + n + d * n BY <1>1
<1>3. a * n \in Nat /\ d * n \in Nat BY <1>1
<1> QED BY <1>2, <1>3

(* What a recall answers with is earned: by each of the stores, among the  *)
(* records it came upon.                                                   *)
Earns(query, met, r) ==
  /\ r \subseteq DOMAIN records /\ Cardinality(r) <= Limit
  /\ \A i \in r : records[i].kind \in Asked
  /\ \A i \in met \ r :
       records[i].kind \in Asked /\ Shared(query, i) > 0
       => /\ Cardinality(r) = Limit
          /\ \A k \in r : Shared(query, k) >= Shared(query, i)

LEMMA ScopesAre ==
  ASSUME MemoryInv
  PROVE  /\ Scoped \subseteq DOMAIN records
         /\ \A i \in DOMAIN records : i \in Scoped <=> records[i].kind \in Asked
         /\ \A S \in SUBSET Scoped : OfKinds(S) = S
<1>1. \A i \in DOMAIN records : i \in Scoped <=> records[i].kind \in Asked
  BY RecordsAre DEF Scoped, Asked, MemoryKinds
<1>2. Scoped \subseteq DOMAIN records BY DEF Scoped
<1>3. \A S \in SUBSET Scoped : OfKinds(S) = S BY <1>1, <1>2 DEF OfKinds
<1> QED BY <1>1, <1>2, <1>3

LEMMA LimitIs == Limit \in Nat /\ 4 * Limit \in Nat /\ Limit <= 4 * Limit
BY MemoryAssumption

(* The first of a scope that has in it all that shares a word.             *)
LEMMA TopEarns ==
  ASSUME MemoryInv, NEW query \in Subjects, NEW S \in SUBSET Scoped, NEW rank, NEW r \in Top(S, Limit, rank),
         \A i \in Scoped : Shared(query, i) > 0 => i \in S,
         \A i, k \in S : Shared(query, i) > 0 /\ rank[k] >= rank[i] => Shared(query, k) >= Shared(query, i)
  PROVE  Earns(query, DOMAIN records, r)
<1>1. S \in SUBSET (DOMAIN records) BY ScopesAre
<1>2. IsFiniteSet(S) BY <1>1, RecordsAre, FS_Subset
<1>3. /\ r \subseteq S /\ Cardinality(r) <= Limit
      /\ \A j \in S \ r : Cardinality(r) = Limit /\ \A i \in r : rank[i] >= rank[j]
  BY <1>2, LimitIs, TopIsFull
<1>4. \A i \in r : records[i].kind \in Asked BY <1>1, <1>3, ScopesAre
<1>5. ASSUME NEW i \in DOMAIN records \ r, records[i].kind \in Asked, Shared(query, i) > 0
      PROVE  Cardinality(r) = Limit /\ \A k \in r : Shared(query, k) >= Shared(query, i)
  <2>1. i \in Scoped BY <1>5, ScopesAre
  <2>2. i \in S \ r BY <1>5, <2>1
  <2> QED BY <1>3, <1>5, <2>2
<1> QED BY <1>1, <1>3, <1>4, <1>5 DEF Earns

LEMMA LexicalEarns ==
  ASSUME MemoryInv, NEW query \in Subjects, NEW r \in Lexical(query)
  PROVE  Earns(query, DOMAIN records, r)
<1> DEFINE S == {i \in OfKinds(DOMAIN records) \cap Scoped : Seen(query) = {} \/ Shared(query, i) > 0}
           rank == [i \in DOMAIN records |-> Shared(query, i) * Len(records) + i]
<1>1. r \in Top(S, Limit, rank) BY DEF Lexical
<1>2. S \in SUBSET Scoped OBVIOUS
<1>3. \A i \in Scoped : Shared(query, i) > 0 => i \in S BY ScopesAre DEF OfKinds
<1>4. ASSUME NEW i \in S, NEW k \in S, rank[k] >= rank[i] PROVE Shared(query, k) >= Shared(query, i)
  <2>1. i \in DOMAIN records /\ k \in DOMAIN records BY <1>2, ScopesAre
  <2>2. Shared(query, k) * Len(records) + k >= Shared(query, i) * Len(records) + i BY <1>4, <2>1
  <2>3. /\ Shared(query, k) \in Nat /\ Shared(query, i) \in Nat /\ Len(records) \in Nat
        /\ i \in 1 .. Len(records) /\ k \in 1 .. Len(records)
    BY <2>1, RecordsAre, SharedIsCounted
  <2> HIDE DEF S, rank
  <2> QED BY <2>2, <2>3, DigitsWeighLess
<1> HIDE DEF S, rank
<1> QED BY <1>1, <1>2, <1>3, <1>4, TopEarns

LEMMA VectorsEarn ==
  ASSUME MemoryInv, NEW query \in Subjects, NEW r \in InVectors(query)
  PROVE  Earns(query, DOMAIN records, r)
<1>0. OfKinds(Scoped) = Scoped BY ScopesAre
<1>1. CASE query = {}
  <2> DEFINE rank == [i \in DOMAIN records |-> i]
  <2>1. r \in Top(Scoped, Limit, rank) BY <1>0, <1>1 DEF InVectors
  <2>2. \A i : ~(Shared(query, i) > 0) BY <1>1, SharedIsCounted
  <2> HIDE DEF rank
  <2> QED BY <2>1, <2>2, TopEarns
<1>2. CASE query # {}
  <2> DEFINE S == {i \in Scoped : Shared(query, i) > 0}
             rank == Closeness(query)
  <2>1. r \in Top(S, Limit, rank) BY <1>0, <1>2 DEF InVectors
  <2>2. \A i \in S : rank[i] = Shared(query, i) BY ScopesAre DEF Closeness
  <2>3. S \in SUBSET Scoped /\ \A i \in Scoped : Shared(query, i) > 0 => i \in S OBVIOUS
  <2> HIDE DEF S, rank
  <2>4. \A i, k \in S : Shared(query, i) > 0 /\ rank[k] >= rank[i] => Shared(query, k) >= Shared(query, i)
    BY <2>2
  <2> QED BY <2>1, <2>3, <2>4, TopEarns
<1> QED BY <1>1, <1>2

(* The rows fetched are of the kinds asked for, so four times too many are *)
(* always enough.                                                          *)
LEMMA PostgresEarns ==
  ASSUME MemoryInv, NEW query \in Subjects, NEW met \in SUBSET DOMAIN records, NEW r \in InPostgres(query, met)
  PROVE  Earns(query, met, r)
<1> DEFINE rank == IF query = {} THEN [i \in DOMAIN records |-> i] ELSE Closeness(query)
           In == Scoped \cap met
<1>1. PICK rows \in Top(In, 4 * Limit, rank) : r \in Top(OfKinds(rows), Limit, rank)
  BY DEF InPostgres
<1>2. query = {} => \A i : ~(Shared(query, i) > 0) BY SharedIsCounted
<1>3. query # {} => \A i \in Scoped : rank[i] = Shared(query, i) BY ScopesAre DEF Closeness
<1> HIDE DEF rank
<1>4. In \in SUBSET (DOMAIN records) /\ IsFiniteSet(In) /\ In \subseteq Scoped BY RecordsAre, ScopesAre, FS_Subset
<1>5. /\ rows \subseteq In /\ Cardinality(rows) \in Nat
      /\ \A j \in In \ rows : Cardinality(rows) = 4 * Limit /\ \A i \in rows : rank[i] >= rank[j]
  <2> HIDE DEF In
  <2> QED BY <1>1, <1>4, LimitIs, TopIsFull
<1>6. OfKinds(rows) = rows /\ r \in Top(rows, Limit, rank) BY <1>1, <1>4, <1>5, ScopesAre
<1>7. IsFiniteSet(rows) BY <1>4, <1>5, FS_Subset
<1>8. /\ r \subseteq rows /\ Cardinality(r) <= Limit /\ Cardinality(r) = Min({Limit, Cardinality(rows)})
      /\ \A j \in rows \ r : Cardinality(r) = Limit /\ \A i \in r : rank[i] >= rank[j]
  <2>1. Cardinality(r) = Min({Limit, Cardinality(rows)}) BY <1>6 DEF Top
  <2> QED BY <1>6, <1>7, <2>1, LimitIs, TopIsFull
<1>9. r \subseteq DOMAIN records /\ \A i \in r : records[i].kind \in Asked
  BY <1>4, <1>5, <1>8, ScopesAre
<1>10. ASSUME NEW i \in met \ r, records[i].kind \in Asked, Shared(query, i) > 0
       PROVE  Cardinality(r) = Limit /\ \A k \in r : Shared(query, k) >= Shared(query, i)
  <2>1. i \in Scoped /\ i \in In BY <1>10, ScopesAre
  <2>2. Cardinality(r) = Limit /\ \A k \in r : rank[k] >= rank[i]
    <3>1. CASE i \in rows
      <4>1. i \in rows \ r BY <1>10, <3>1
      <4> QED BY <1>8, <4>1
    <3>2. CASE i \notin rows
      <4>1. i \in In \ rows BY <2>1, <3>2
      <4>2. Cardinality(rows) = 4 * Limit /\ \A k \in r : rank[k] >= rank[i] BY <1>5, <1>8, <4>1
      <4>3. Cardinality(r) \in {Limit, 4 * Limit}
        <5>1. {Limit, Cardinality(rows)} \in SUBSET Nat /\ {Limit, Cardinality(rows)} # {} BY <1>5, LimitIs
        <5>2. Min({Limit, Cardinality(rows)}) \in {Limit, Cardinality(rows)} BY <5>1, MinIsLeast
        <5> QED BY <1>8, <4>2, <5>2
      <4>4. Cardinality(r) = Limit BY <1>8, <4>3, LimitIs
      <4> QED BY <4>2, <4>4
    <3> QED BY <3>1, <3>2
  <2>3. query # {} BY <1>2, <1>10
  <2>4. r \subseteq Scoped BY <1>4, <1>5, <1>8
  <2>5. \A k \in r : rank[k] = Shared(query, k) BY <1>3, <2>3, <2>4
  <2>6. rank[i] = Shared(query, i) BY <1>3, <2>1, <2>3
  <2> QED BY <2>2, <2>5, <2>6
<1> QED BY <1>8, <1>9, <1>10 DEF Earns

LEMMA RecallEarns ==
  ASSUME MemoryInv, NEW query \in Subjects, NEW met \in Reaches(query), NEW r \in Recall(query, met)
  PROVE  met \subseteq DOMAIN records /\ Earns(query, met, r)
<1>1. store \in {"lexical", "vector", "pgvector"} BY DEF MemoryInv
<1>2. met \subseteq DOMAIN records /\ (store # "pgvector" => met = DOMAIN records)
  BY DEF Reaches
<1>3. CASE store = "lexical"
  <2>1. r \in Lexical(query) /\ met = DOMAIN records BY <1>2, <1>3 DEF Recall
  <2> QED BY <2>1, LexicalEarns
<1>4. CASE store = "vector"
  <2>1. r \in InVectors(query) /\ met = DOMAIN records BY <1>2, <1>4 DEF Recall
  <2> QED BY <2>1, VectorsEarn
<1>5. CASE store = "pgvector"
  <2>1. r \in InPostgres(query, met) BY <1>5 DEF Recall
  <2> QED BY <1>2, <2>1, PostgresEarns
<1> QED BY <1>1, <1>3, <1>4, <1>5

-----------------------------------------------------------------------------
(* The steps.                                                              *)

LEMMA JobsAre ==
  ASSUME MemoryInv
  PROVE  jobs \in [Jobs -> Earned] /\ \A j \in Jobs : jobs[j] \in Earned /\ jobs[j] \in JobRecords
<1>1. jobs \in [Jobs -> Earned] BY DEF MemoryInv
<1>2. Earned \subseteq JobRecords BY DEF Earned
<1> QED BY <1>1, <1>2

(* A job that only moves on.                                               *)
LEMMA MovingKeepsEarned ==
  ASSUME NEW job \in Earned, NEW place \in {"idle", "works", "succeeded", "over"}
  PROVE  [job EXCEPT !.at = place] \in Earned
<1> DEFINE q == [job EXCEPT !.at = place]
<1>1. job \in JobRecords BY DEF Earned
<1>2. q \in JobRecords /\ q.recalled = job.recalled /\ q.reached = job.reached /\ q.task = job.task
  BY <1>1 DEF JobRecords
<1> HIDE DEF q
<1>3. q \in Earned BY <1>2 DEF Earned
<1> QED BY <1>3 DEF q

LEMMA MovesKeep ==
  ASSUME MemoryInv, NEW j \in Jobs, NEW place \in {"idle", "works", "succeeded", "over"},
         jobs' = [jobs EXCEPT ![j].at = place]
  PROVE  jobs' \in [Jobs -> Earned]
<1> DEFINE q == [jobs[j] EXCEPT !.at = place]
<1>1. q \in Earned BY JobsAre, MovingKeepsEarned
<1>2. jobs' = [jobs EXCEPT ![j] = q] OBVIOUS
<1> HIDE DEF q
<1> QED BY <1>1, <1>2, JobsAre

LEMMA BeginsWithMemoryKeeps == ASSUME MemoryInv, NEW j \in Jobs, BeginsWithMemory(j) PROVE MemoryInv'
<1>1. UNCHANGED <<store, records>> BY DEF BeginsWithMemory
<1>2. jobs[j] \in JobRecords BY JobsAre
<1>3. PICK query \in IF jobs[j].tries = 0 THEN Texts ELSE {jobs[j].task} :
       \E met \in Reaches(query) : \E r \in Recall(query, met) :
         jobs' = [jobs EXCEPT ![j] = [at |-> "works", task |-> query, tries |-> @.tries + 1,
                                      recalled |-> r, reached |-> met]]
  BY DEF BeginsWithMemory
<1>4. PICK met \in Reaches(query) : \E r \in Recall(query, met) :
         jobs' = [jobs EXCEPT ![j] = [at |-> "works", task |-> query, tries |-> @.tries + 1,
                                      recalled |-> r, reached |-> met]]
  BY <1>3
<1>5. PICK r \in Recall(query, met) :
         jobs' = [jobs EXCEPT ![j] = [at |-> "works", task |-> query, tries |-> @.tries + 1,
                                      recalled |-> r, reached |-> met]]
  BY <1>4
<1> DEFINE q == [at |-> "works", task |-> query, tries |-> jobs[j].tries + 1, recalled |-> r, reached |-> met]
<1>6. query \in Subjects BY <1>2 DEF JobRecords, Subjects
<1>7. met \subseteq DOMAIN records /\ Earns(query, met, r) BY <1>6, RecallEarns
<1>8. /\ DOMAIN records = 1 .. Len(records) /\ Len(records) \in Nat BY RecordsAre
<1>9. r \subseteq 1 .. Len(records) /\ met \subseteq 1 .. Len(records) BY <1>7, <1>8 DEF Earns
<1>10. jobs[j].tries + 1 \in Nat BY <1>2 DEF JobRecords
<1>11. q \in JobRecords
  <2>1. r \in SUBSET Nat /\ met \in SUBSET Nat BY <1>8, <1>9
  <2> QED BY <1>6, <1>10, <2>1 DEF JobRecords
<1>12. q.recalled = r /\ q.reached = met /\ q.task = query OBVIOUS
<1>13. jobs' = [jobs EXCEPT ![j] = q] BY <1>5
<1> HIDE DEF q
<1>16. q \in Earned BY <1>7, <1>9, <1>11, <1>12 DEF Earned, Earns
<1>14. jobs' \in [Jobs -> Earned] BY <1>13, <1>16, JobsAre
<1>15. Earned' = Earned BY <1>1 DEF Earned, Shared, Seen
<1> QED BY <1>1, <1>14, <1>15 DEF MemoryInv

(* What was earned stays so when more is remembered.                       *)
LEMMA RememberKeeps == ASSUME MemoryInv, NEW j \in Jobs, Remember(j) PROVE MemoryInv'
<1> DEFINE m == Summary(j)
<1>1. records' = Append(records, m) /\ UNCHANGED store BY DEF Remember
<1>2. PICK place \in {"over", "idle"} : jobs' = [jobs EXCEPT ![j].at = place] BY DEF Remember
<1>3. m \in Remembered
  <2>1. jobs[j].task \in Subjects BY JobsAre DEF JobRecords
  <2>2. (store = "pgvector") \in BOOLEAN OBVIOUS
  <2> QED BY <2>1, <2>2 DEF Summary, Remembered
<1>4. records \in Seq(Remembered) BY DEF MemoryInv
<1> HIDE DEF m
<1>5. /\ Append(records, m) \in Seq(Remembered) /\ Len(Append(records, m)) = Len(records) + 1
      /\ \A i \in 1 .. Len(records) : Append(records, m)[i] = records[i]
  BY <1>3, <1>4, AppendProperties
<1>6. /\ records' \in Seq(Remembered) /\ Len(records') = Len(records) + 1
      /\ \A i \in 1 .. Len(records) : records'[i] = records[i]
  BY <1>1, <1>5
<1>7. ASSUME NEW job \in Earned PROVE job \in Earned'
  <2> DEFINE r == job.recalled
             query == job.task
  <2>1. /\ job \in JobRecords /\ job.reached \subseteq 1 .. Len(records) /\ r \subseteq 1 .. Len(records)
        /\ Cardinality(r) <= Limit /\ \A i \in r : records[i].kind \in Asked
        /\ \A i \in job.reached \ r :
             records[i].kind \in Asked /\ Shared(query, i) > 0
             => /\ Cardinality(r) = Limit
                /\ \A k \in r : Shared(query, k) >= Shared(query, i)
    BY DEF Earned
  <2>2. Len(records) \in Nat BY RecordsAre
  <2>3. \A i \in job.reached \cup r : i \in 1 .. Len(records) /\ records'[i] = records[i] BY <1>6, <2>1
  <2> DEFINE SharedNow(i) == Cardinality((Seen(query) \cap Seen(records'[i].words)))
  <2>4. ASSUME NEW i \in job.reached \cup r PROVE SharedNow(i) = Shared(query, i)
    <3>1. records'[i].words = records[i].words BY <2>3
    <3> QED BY <3>1 DEF Shared
  <2>5. job.reached \subseteq 1 .. Len(records') /\ r \subseteq 1 .. Len(records') BY <1>6, <2>1, <2>2
  <2>6. \A i \in r : records'[i].kind \in Asked BY <2>1, <2>3
  <2>7. \A i \in job.reached \ r :
             records'[i].kind \in Asked /\ SharedNow(i) > 0
             => /\ Cardinality(r) = Limit
                /\ \A k \in r : SharedNow(k) >= SharedNow(i)
    <3> HIDE DEF SharedNow
    <3> QED BY <2>1, <2>3, <2>4
  <2> QED BY <1>1, <2>1, <2>5, <2>6, <2>7 DEF Earned, Shared, Seen
<1>8. jobs' \in [Jobs -> Earned] BY <1>2, MovesKeep
<1>9. jobs' \in [Jobs -> Earned'] BY <1>7, <1>8
<1> QED BY <1>1, <1>6, <1>9 DEF MemoryInv

LEMMA MemoryHolds == MemorySpec => []MemoryInv
<1>1. MemoryInit => MemoryInv
  <2> SUFFICES ASSUME MemoryInit PROVE MemoryInv OBVIOUS
  <2>1. records = Earlier /\ jobs = [j \in Jobs |-> Idle] /\ store \in {"lexical", "vector", "pgvector"}
    BY DEF MemoryInit
  <2>2. records \in Seq(Remembered)
    <3>1. {m \in Range(Earlier) : m.kind \in MemoryKinds} \subseteq Remembered BY DEF Remembered
    <3> HIDE DEF Remembered
    <3>2. \A S, T : S \subseteq T => Seq(S) \subseteq Seq(T) OBVIOUS
    <3> QED BY <2>1, <3>1, <3>2, MemoryAssumption
  <2>3. Idle \in JobRecords BY DEF Idle, JobRecords, Subjects
  <2>4. Cardinality({}) = 0 /\ Len(records) \in Nat BY <2>2, FS_EmptySet, LenProperties
  <2>5. Idle.reached = {} /\ Idle.recalled = {} BY DEF Idle
  <2>6. 1 .. 0 = {} /\ 0 <= Limit /\ 0 <= Len(records) BY <2>4, LimitIs
  <2>7. Idle \in Earned BY <2>3, <2>4, <2>5, <2>6 DEF Earned
  <2> QED BY <2>1, <2>2, <2>7 DEF MemoryInv
<1>2. MemoryInv /\ [MemoryNext]_memoryVars => MemoryInv'
  <2> SUFFICES ASSUME MemoryInv, [MemoryNext]_memoryVars PROVE MemoryInv' OBVIOUS
  <2>1. ASSUME UNCHANGED <<store, records>>, jobs' \in [Jobs -> Earned] PROVE MemoryInv'
    <3>1. Earned' = Earned BY <2>1 DEF Earned, Shared, Seen
    <3> QED BY <2>1, <3>1 DEF MemoryInv
  <2>2. ASSUME NEW j \in Jobs, BeginsWithMemory(j) PROVE MemoryInv' BY <2>2, BeginsWithMemoryKeeps
  <2>3. ASSUME NEW j \in Jobs, Remember(j) PROVE MemoryInv' BY <2>3, RememberKeeps
  <2>4. ASSUME NEW j \in Jobs, AttemptLost(j) \/ SuccessWritten(j) \/ Forget(j) PROVE MemoryInv'
    <3>1. PICK place \in {"idle", "works", "succeeded", "over"} : jobs' = [jobs EXCEPT ![j].at = place]
      BY <2>4 DEF AttemptLost, SuccessWritten, Forget
    <3>2. jobs' \in [Jobs -> Earned] BY <3>1, MovesKeep
    <3>3. UNCHANGED <<store, records>> BY <2>4 DEF AttemptLost, SuccessWritten, Forget
    <3> QED BY <2>1, <3>2, <3>3
  <2>5. CASE UNCHANGED memoryVars BY <2>1, <2>5, JobsAre DEF memoryVars
  <2> QED BY <2>2, <2>3, <2>4, <2>5 DEF MemoryNext
<1> QED BY <1>1, <1>2, PTL DEF MemorySpec

(* Whatever store is deployed, a run is given at most Limit records, of    *)
(* the kinds asked for, and nothing the search came upon that shares a     *)
(* word with its task gave way to something less close, or was left out    *)
(* while there was room (the three recall methods of the memory port): for *)
(* any texts, any limit, any number of records and of overlapping runs,    *)
(* and whichever rows the index of pgvector leads to, those fetched before *)
(* their kinds are looked at are always enough.                            *)
THEOREM MemoriesAreEarned == MemorySpec => []RecallEarned
<1>1. MemoryInv => RecallEarned
  <2> SUFFICES ASSUME MemoryInv, NEW j \in Jobs
               PROVE  LET r == jobs[j].recalled IN
                      /\ Cardinality(r) <= Limit
                      /\ \A i \in r : records[i].kind \in Asked
                      /\ \A i \in jobs[j].reached \ r :
                           records[i].kind \in Asked /\ Shared(jobs[j].task, i) > 0
                           => /\ Cardinality(r) = Limit
                              /\ \A k \in r : Shared(jobs[j].task, k) >= Shared(jobs[j].task, i)
    BY DEF RecallEarned
  <2>1. jobs[j] \in Earned BY JobsAre
  <2> QED BY <2>1 DEF Earned
<1> QED BY <1>1, MemoryHolds, PTL

-----------------------------------------------------------------------------
(* The roster: who is on it, and whom a request still has to add.          *)

RosterSpec == RosterInit /\ [][RosterNext]_rosterVars

MemberNames == ByHand \cup UNION {Range(team) : team \in Templates}

RosterRows == [name : MemberNames, by : Hires, prompt : {"none", "unlinked", "linked"}]

HireRequests ==
  [pc : {"idle", "list", "next", "prompt", "link", "done", "cut"}, team : Seq(MemberNames),
   left : Seq(MemberNames), names : SUBSET MemberNames, row : Nat, before : SUBSET Hires]

Apart(team) == \A i, j \in DOMAIN team : i # j => team[i] # team[j]
Adds(h) == \E i \in DOMAIN agents : agents[i].by = h

(* The row a request is at is one it made itself.                          *)
RowIsOwn(h) ==
  /\ hire[h].pc \in {"prompt", "link"} =>
       hire[h].row \in DOMAIN agents /\ agents[hire[h].row].by = h
  /\ hire[h].pc \notin {"prompt", "link", "cut"} => hire[h].row = 0

(* Whoever is missing of a team is among those who are left, and nobody of *)
(* those it has added itself.                                              *)
LeftAreMissing(h) ==
  /\ hire[h].pc = "idle" => hire[h].team = << >>
  /\ hire[h].pc \in {"idle", "list"} =>
       ~ Adds(h) /\ hire[h].left = hire[h].team /\ hire[h].names = {} /\ hire[h].before = {}
  /\ hire[h].team = << >> => hire[h].left = << >>
  /\ Apart(hire[h].left)
  /\ hire[h].names \subseteq NamesHeld
  /\ \A i \in DOMAIN agents :
       agents[i].by = h /\ hire[h].team # << >> => agents[i].name \notin Range(hire[h].left)
  /\ hire[h].pc # "cut" => Range(hire[h].team) \subseteq NamesHeld \cup Range(hire[h].left)

(* A request that was over when the names were read adds none after that.  *)
EarlierAreSeen(h) ==
  \A g \in hire[h].before :
    Ended(g) /\ \A i \in DOMAIN agents : agents[i].by = g => agents[i].name \in hire[h].names

RosterInv ==
  /\ agents \in Seq(RosterRows) /\ hire \in [Hires -> HireRequests]
  /\ \A h \in Hires : RowIsOwn(h) /\ LeftAreMissing(h) /\ EarlierAreSeen(h)
  /\ HiresAddUp

LEMMA RosterFacts ==
  ASSUME RosterInv
  PROVE  /\ Len(agents) \in Nat /\ DOMAIN agents = 1 .. Len(agents)
         /\ \A i \in DOMAIN agents : agents[i] \in RosterRows
         /\ \A h \in Hires : hire[h] \in HireRequests
         /\ hire \in [Hires -> HireRequests]
<1>1. agents \in Seq(RosterRows) /\ hire \in [Hires -> HireRequests]
  BY DEF RosterInv
<1> QED BY <1>1

LEMMA RequestMoves ==
  \A p \in HireRequests : \A pc \in {"idle", "list", "next", "prompt", "link", "done", "cut"} :
    /\ [p EXCEPT !.pc = pc] \in HireRequests
    /\ \A team, left \in Seq(MemberNames) :
         [p EXCEPT !.pc = pc, !.team = team, !.left = left] \in HireRequests
    /\ \A names \in SUBSET MemberNames : \A before \in SUBSET Hires :
         [p EXCEPT !.pc = pc, !.names = names, !.before = before] \in HireRequests
    /\ \A entry \in Nat :
         /\ [p EXCEPT !.pc = pc, !.row = entry] \in HireRequests
         /\ \A left \in Seq(MemberNames) :
              [p EXCEPT !.pc = pc, !.row = entry, !.left = left] \in HireRequests
<1> DEFINE T == Seq(MemberNames) N == SUBSET MemberNames B == SUBSET Hires
<1>1. HireRequests = [pc : {"idle", "list", "next", "prompt", "link", "done", "cut"}, team : T, left : T,
                      names : N, row : Nat, before : B]
  BY DEF HireRequests
<1> HIDE DEF T, N, B
<1> SUFFICES ASSUME NEW p \in HireRequests,
                    NEW pc \in {"idle", "list", "next", "prompt", "link", "done", "cut"}
             PROVE  /\ [p EXCEPT !.pc = pc] \in HireRequests
                    /\ \A team, left \in T :
                         [p EXCEPT !.pc = pc, !.team = team, !.left = left] \in HireRequests
                    /\ \A names \in N : \A before \in B :
                         [p EXCEPT !.pc = pc, !.names = names, !.before = before] \in HireRequests
                    /\ \A entry \in Nat :
                         /\ [p EXCEPT !.pc = pc, !.row = entry] \in HireRequests
                         /\ \A left \in T :
                              [p EXCEPT !.pc = pc, !.row = entry, !.left = left] \in HireRequests
  BY DEF T, N, B
<1>2. [p EXCEPT !.pc = pc] \in HireRequests
  BY <1>1
<1>3. ASSUME NEW team \in T, NEW left \in T
      PROVE  [p EXCEPT !.pc = pc, !.team = team, !.left = left] \in HireRequests
  BY <1>1
<1>4. ASSUME NEW names \in N, NEW before \in B
      PROVE  [p EXCEPT !.pc = pc, !.names = names, !.before = before] \in HireRequests
  BY <1>1
<1>5. ASSUME NEW entry \in Nat
      PROVE  /\ [p EXCEPT !.pc = pc, !.row = entry] \in HireRequests
             /\ \A left \in T : [p EXCEPT !.pc = pc, !.row = entry, !.left = left] \in HireRequests
  BY <1>1
<1> QED BY <1>2, <1>3, <1>4, <1>5

(* What a request does to the names on the roster: nothing, or it adds.    *)
RowsKept(h) ==
  /\ agents' \in Seq(RosterRows)
  /\ DOMAIN agents \subseteq DOMAIN agents'
  /\ \A i \in DOMAIN agents : agents'[i].name = agents[i].name /\ agents'[i].by = agents[i].by
  /\ \A i \in DOMAIN agents' \ DOMAIN agents : agents'[i].by = h

LEMMA NamesStay == ASSUME NEW h, RowsKept(h) PROVE NamesHeld \subseteq NamesHeld'
<1> SUFFICES ASSUME NEW i \in DOMAIN agents PROVE agents[i].name \in NamesHeld'
  BY DEF NamesHeld
<1>1. i \in DOMAIN agents' /\ agents'[i].name = agents[i].name
  BY DEF RowsKept
<1> QED BY <1>1 DEF NamesHeld

LEMMA OthersStay ==
  ASSUME RosterInv, NEW h \in Hires, NEW q \in HireRequests, RowsKept(h), ~ Ended(h),
         hire' = [hire EXCEPT ![h] = q], NEW g \in Hires \ {h}
  PROVE  RowIsOwn(g)' /\ LeftAreMissing(g)' /\ EarlierAreSeen(g)'
<1>1. hire'[g] = hire[g] /\ NamesHeld \subseteq NamesHeld'
  BY RosterFacts, NamesStay
<1>2. RowIsOwn(g) /\ LeftAreMissing(g) /\ EarlierAreSeen(g)
  BY DEF RosterInv
<1>3. RowIsOwn(g)'
  BY <1>1, <1>2 DEF RowIsOwn, RowsKept
<1>4. \A i \in DOMAIN agents' : agents'[i].by = g => i \in DOMAIN agents /\ agents[i].by = g
  BY DEF RowsKept
<1>5. LeftAreMissing(g)'
  BY <1>1, <1>2, <1>4 DEF LeftAreMissing, Adds, RowsKept
<1>6. EarlierAreSeen(g)'
  <2> SUFFICES ASSUME NEW k \in hire[g].before
               PROVE  Ended(k)' /\ \A i \in DOMAIN agents' : agents'[i].by = k => agents'[i].name \in hire[g].names
    BY <1>1 DEF EarlierAreSeen
  <2>1. Ended(k) /\ k # h /\ k \in Hires
    BY <1>2, RosterFacts DEF EarlierAreSeen, HireRequests
  <2>2. hire'[k] = hire[k]
    BY <2>1, RosterFacts
  <2> QED BY <1>2, <2>1, <2>2 DEF EarlierAreSeen, RowsKept, Ended
<1> QED BY <1>3, <1>5, <1>6

(* Nobody is added: the names add up as before.                            *)
LEMMA NobodyTwice ==
  ASSUME RosterInv, NEW h \in Hires, NEW q \in HireRequests, RowsKept(h),
         hire' = [hire EXCEPT ![h] = q], DOMAIN agents' = DOMAIN agents,
         Adds(h) => q.team = hire[h].team /\ q.before = hire[h].before
  PROVE  \A i, j \in DOMAIN agents' :
           i < j /\ agents'[i].name = agents'[j].name /\ hire'[agents'[j].by].team # << >>
           => agents'[i].by \notin hire'[agents'[j].by].before \cup {agents'[j].by}
<1> SUFFICES ASSUME NEW i \in DOMAIN agents, NEW j \in DOMAIN agents, i < j,
                    agents[i].name = agents[j].name, hire'[agents[j].by].team # << >>
             PROVE  agents[i].by \notin hire'[agents[j].by].before \cup {agents[j].by}
  BY DEF RowsKept
<1>1. agents[j].by \in Hires
  BY RosterFacts DEF RosterRows
<1>2. /\ hire'[agents[j].by].team = hire[agents[j].by].team
      /\ hire'[agents[j].by].before = hire[agents[j].by].before
  BY <1>1, RosterFacts DEF Adds
<1> QED BY <1>2 DEF RosterInv, HiresAddUp

(* A step that adds nobody keeps what is said if it does of its request.   *)
LEMMA NobodyAdded ==
  ASSUME RosterInv, NEW h \in Hires, NEW q \in HireRequests, RowsKept(h), ~ Ended(h),
         hire' = [hire EXCEPT ![h] = q], DOMAIN agents' = DOMAIN agents,
         Adds(h) => q.team = hire[h].team /\ q.before = hire[h].before,
         RowIsOwn(h)', LeftAreMissing(h)', EarlierAreSeen(h)',
         q.pc = "done" => Range(q.team) \subseteq NamesHeld,
         \A i \in DOMAIN agents : agents[i].by = h => agents'[i].prompt = "linked" \/ q.row = i,
         \A i \in DOMAIN agents : agents[i].by # h => agents'[i].prompt = agents[i].prompt
  PROVE  RosterInv'
<1>1. hire' \in [Hires -> HireRequests] /\ hire'[h] = q /\ \A g \in Hires \ {h} : hire'[g] = hire[g]
  BY RosterFacts
<1>2. \A g \in Hires : RowIsOwn(g)' /\ LeftAreMissing(g)' /\ EarlierAreSeen(g)'
  BY OthersStay
<1>3. \A g \in Hires : hire'[g].pc = "done" => Range(hire'[g].team) \subseteq NamesHeld'
  BY <1>1, NamesStay DEF RosterInv, HiresAddUp
<1>4. \A i \in DOMAIN agents' : agents'[i].prompt = "linked" \/ hire'[agents'[i].by].row = i
  <2> SUFFICES ASSUME NEW i \in DOMAIN agents
               PROVE  agents'[i].prompt = "linked" \/ hire'[agents[i].by].row = i
    BY DEF RowsKept
  <2>1. agents[i].by \in Hires
    BY RosterFacts DEF RosterRows
  <2> QED BY <1>1, <2>1 DEF RosterInv, HiresAddUp
<1>5. HiresAddUp'
  BY <1>3, <1>4, NobodyTwice DEF HiresAddUp
<1> QED BY <1>1, <1>2, <1>5 DEF RosterInv, RowsKept

(* What the roster keeps when it does not change at all.                   *)
LEMMA RosterStays == RosterInv /\ UNCHANGED agents => \A h \in Hires : RowsKept(h) /\ NamesHeld' = NamesHeld
BY DEF RosterInv, RowsKept, NamesHeld

LEMMA HireTeamKeeps == ASSUME RosterInv, NEW h \in Hires, HireTeam(h) PROVE RosterInv'
<1>1. PICK team \in Templates :
        hire' = [hire EXCEPT ![h].pc = "list", ![h].team = team, ![h].left = team]
  BY DEF HireTeam
<1> DEFINE q == [hire[h] EXCEPT !.pc = "list", !.team = team, !.left = team]
<1>2. hire[h].pc = "idle" /\ agents' = agents
  BY DEF HireTeam
<1>3. team \in Seq(MemberNames) /\ Apart(team)
  <2>1. team \in Seq(Range(team)) /\ Apart(team)
    BY RosterAssumption DEF Apart
  <2>2. Range(team) \subseteq MemberNames
    BY DEF MemberNames
  <2> QED BY <2>1, <2>2
<1>4. q \in HireRequests /\ hire' = [hire EXCEPT ![h] = q]
  <2>1. q \in HireRequests
    BY <1>3, RosterFacts, RequestMoves
  <2> QED BY <1>1, <2>1, RosterFacts
<1>5. /\ q.pc = "list" /\ q.team = team /\ q.left = team /\ q.names = hire[h].names
      /\ q.row = hire[h].row /\ q.before = hire[h].before
  BY RosterFacts DEF HireRequests
<1> HIDE DEF q
<1>6. hire'[h] = q /\ hire[h].row = 0 /\ hire[h].names = {} /\ hire[h].before = {} /\ ~ Adds(h) /\ ~ Ended(h)
  BY <1>2, <1>4, RosterFacts DEF RosterInv, RowIsOwn, LeftAreMissing, Ended
<1>7. RowIsOwn(h)' /\ EarlierAreSeen(h)'
  BY <1>5, <1>6 DEF RowIsOwn, EarlierAreSeen
<1>8. LeftAreMissing(h)'
  <2>1. ~ Adds(h)'
    BY <1>2, <1>6 DEF Adds
  <2>2. \A i \in DOMAIN agents : agents[i].by # h
    BY <1>6 DEF Adds
  <2> QED BY <1>2, <1>3, <1>5, <1>6, <2>1, <2>2 DEF LeftAreMissing
<1>9. \A i \in DOMAIN agents : agents[i].by # h
  BY <1>6 DEF Adds
<1>10. RowsKept(h)
  BY <1>2, RosterStays
<1> QED BY <1>2, <1>4, <1>5, <1>6, <1>7, <1>8, <1>9, <1>10, NobodyAdded

LEMMA ListAgentsKeeps == ASSUME RosterInv, NEW h \in Hires, ListAgents(h) PROVE RosterInv'
<1> DEFINE over == {g \in Hires : Ended(g)}
           q == [hire[h] EXCEPT !.pc = "next", !.names = NamesHeld, !.before = over]
<1>2. hire[h].pc = "list" /\ agents' = agents
  BY DEF ListAgents
<1>3. NamesHeld \subseteq MemberNames
  BY RosterFacts DEF NamesHeld, RosterRows
<1>4. q \in HireRequests /\ hire' = [hire EXCEPT ![h] = q]
  <2>1. over \subseteq Hires
    OBVIOUS
  <2> HIDE DEF over
  <2>2. q \in HireRequests
    BY <1>3, <2>1, RosterFacts, RequestMoves
  <2> QED BY <2>2, RosterFacts DEF over, ListAgents
<1>5. /\ q.pc = "next" /\ q.team = hire[h].team /\ q.left = hire[h].left /\ q.names = NamesHeld
      /\ q.row = hire[h].row /\ q.before = over
  BY RosterFacts DEF HireRequests
<1> HIDE DEF q
<1>6. hire'[h] = q /\ hire[h].row = 0 /\ ~ Adds(h) /\ ~ Ended(h)
  BY <1>2, <1>4, RosterFacts DEF RosterInv, RowIsOwn, LeftAreMissing, Ended
<1>7. RowIsOwn(h)'
  BY <1>5, <1>6 DEF RowIsOwn
<1>8. EarlierAreSeen(h)'
  <2> SUFFICES ASSUME NEW g \in Hires, Ended(g)
               PROVE  Ended(g)' /\ \A i \in DOMAIN agents : agents[i].by = g => agents[i].name \in NamesHeld
    BY <1>2, <1>5, <1>6 DEF EarlierAreSeen
  <2>1. hire'[g] = hire[g]
    BY <1>4, <1>6, RosterFacts
  <2> QED BY <2>1 DEF Ended, NamesHeld
<1>9. \A i \in DOMAIN agents : agents[i].by # h
  BY <1>6 DEF Adds
<1>10. RowsKept(h) /\ NamesHeld' = NamesHeld
  BY <1>2, RosterStays
<1>11. LeftAreMissing(h)'
  <2>1. LeftAreMissing(h)
    BY DEF RosterInv
  <2> QED BY <1>2, <1>5, <1>6, <1>9, <1>10, <2>1 DEF LeftAreMissing
<1> QED BY <1>2, <1>4, <1>5, <1>6, <1>7, <1>8, <1>9, <1>10, <1>11, NobodyAdded

LEMMA HiredKeeps == ASSUME RosterInv, NEW h \in Hires, Hired(h) \/ HireCut(h) PROVE RosterInv'
<1>1. PICK pc \in {"done", "cut"} : /\ hire' = [hire EXCEPT ![h].pc = pc]
                                    /\ pc = "done" => hire[h].pc = "next" /\ Missing(h) = {}
  BY DEF Hired, HireCut
<1> DEFINE q == [hire[h] EXCEPT !.pc = pc]
<1>2. hire[h].pc \notin {"idle", "done", "cut"} /\ agents' = agents
  BY DEF Hired, HireCut
<1>4. q \in HireRequests /\ hire' = [hire EXCEPT ![h] = q]
  <2>1. q \in HireRequests
    BY RosterFacts, RequestMoves
  <2> QED BY <1>1, <2>1, RosterFacts
<1>5. /\ q.pc = pc /\ q.team = hire[h].team /\ q.left = hire[h].left /\ q.names = hire[h].names
      /\ q.row = hire[h].row /\ q.before = hire[h].before
  BY RosterFacts DEF HireRequests
<1> HIDE DEF q
<1>6. hire'[h] = q /\ ~ Ended(h)
  BY <1>2, <1>4, RosterFacts DEF Ended
<1>7. RowIsOwn(h)'
  BY <1>1, <1>5, <1>6 DEF RosterInv, RowIsOwn
<1>8. EarlierAreSeen(h)'
  <2> SUFFICES ASSUME NEW g \in hire[h].before
               PROVE  Ended(g)' /\ \A i \in DOMAIN agents : agents[i].by = g => agents[i].name \in hire[h].names
    BY <1>2, <1>5, <1>6 DEF EarlierAreSeen
  <2>1. g \in Hires /\ Ended(g) /\ \A i \in DOMAIN agents : agents[i].by = g => agents[i].name \in hire[h].names
    BY RosterFacts DEF RosterInv, EarlierAreSeen, HireRequests
  <2>2. hire'[g] = hire[g]
    BY <1>4, <1>6, <2>1, RosterFacts
  <2> QED BY <2>1, <2>2 DEF Ended
<1>9. \A i \in DOMAIN agents : agents[i].by = h => agents[i].prompt = "linked" \/ q.row = i
  BY <1>5 DEF RosterInv, HiresAddUp
<1>10. RowsKept(h) /\ NamesHeld' = NamesHeld
  BY <1>2, RosterStays
<1>11. LeftAreMissing(h)
  BY DEF RosterInv
<1>12. LeftAreMissing(h)'
  BY <1>1, <1>2, <1>5, <1>6, <1>10, <1>11 DEF LeftAreMissing
<1>13. q.pc = "done" => Range(q.team) \subseteq NamesHeld
  <2> SUFFICES ASSUME pc = "done" PROVE Range(hire[h].team) \subseteq NamesHeld
    BY <1>5
  <2>1. \A i \in DOMAIN hire[h].left : hire[h].left[i] \in hire[h].names
    BY <1>1 DEF Missing
  <2>2. Range(hire[h].left) \subseteq hire[h].names
    BY <2>1 DEF Range
  <2> QED BY <1>1, <1>11, <2>2 DEF LeftAreMissing
<1> QED BY <1>2, <1>4, <1>5, <1>6, <1>7, <1>8, <1>9, <1>10, <1>12, <1>13, NobodyAdded

(* The prompt of the row a request is at.                                  *)
LEMMA PromptKeeps == ASSUME RosterInv, NEW h \in Hires, CreatePrompt(h) \/ LinkPrompt(h) PROVE RosterInv'
<1>1. PICK prompt \in {"unlinked", "linked"}, pc \in {"link", "next"} :
        /\ agents' = [agents EXCEPT ![hire[h].row].prompt = prompt]
        /\ pc = "link" => prompt = "unlinked" /\ hire' = [hire EXCEPT ![h].pc = "link"]
        /\ pc = "next" => prompt = "linked" /\ hire' = [hire EXCEPT ![h].pc = "next", ![h].row = 0]
  BY DEF CreatePrompt, LinkPrompt
<1> DEFINE n == hire[h].row
           entry == IF pc = "link" THEN n ELSE 0
           q == [hire[h] EXCEPT !.pc = pc, !.row = entry]
<1>2. hire[h].pc \in {"prompt", "link"} /\ n \in DOMAIN agents /\ agents[n].by = h
  BY DEF RosterInv, RowIsOwn, CreatePrompt, LinkPrompt
<1>3. /\ agents' = [agents EXCEPT ![n] = [agents[n] EXCEPT !.prompt = prompt]]
      /\ [agents[n] EXCEPT !.prompt = prompt] \in RosterRows
  BY <1>1, <1>2, RosterFacts DEF RosterRows
<1>4. agents' \in Seq(RosterRows) /\ DOMAIN agents' = DOMAIN agents
  BY <1>2, <1>3, RosterFacts DEF RosterInv
<1>5. /\ \A i \in DOMAIN agents : agents'[i].name = agents[i].name /\ agents'[i].by = agents[i].by
      /\ \A i \in DOMAIN agents \ {n} : agents'[i] = agents[i]
      /\ agents'[n].prompt = prompt
  BY <1>2, <1>3, RosterFacts DEF RosterRows
<1>6. RowsKept(h)
  BY <1>4, <1>5 DEF RowsKept
<1>7. NamesHeld' = NamesHeld
  BY <1>4, <1>5 DEF NamesHeld
<1>8. n \in Nat
  BY RosterFacts DEF HireRequests
<1>9. q \in HireRequests
  <2>1. entry \in Nat
    BY <1>8
  <2> HIDE DEF entry
  <2> QED BY <2>1, RosterFacts, RequestMoves
<1>10. hire' = [hire EXCEPT ![h] = q]
  <2>1. CASE pc = "link"
    <3>1. q = [hire[h] EXCEPT !.pc = "link"]
      BY <2>1, RosterFacts DEF HireRequests
    <3> QED BY <1>1, <2>1, <3>1
  <2>2. CASE pc = "next"
    <3>1. q = [hire[h] EXCEPT !.pc = "next", !.row = 0]
      BY <2>2, RosterFacts DEF HireRequests
    <3> QED BY <1>1, <2>2, <3>1
  <2> QED BY <2>1, <2>2
<1>11. /\ q.pc = pc /\ q.team = hire[h].team /\ q.left = hire[h].left /\ q.names = hire[h].names
       /\ q.row = entry /\ q.before = hire[h].before
  BY RosterFacts DEF HireRequests
<1> HIDE DEF q
<1>12. hire'[h] = q /\ ~ Ended(h)
  BY <1>2, <1>10, RosterFacts DEF Ended
<1>13. RowIsOwn(h)'
  BY <1>2, <1>4, <1>5, <1>11, <1>12 DEF RowIsOwn
<1>14. EarlierAreSeen(h)'
  <2> SUFFICES ASSUME NEW g \in hire[h].before
               PROVE  Ended(g)' /\ \A i \in DOMAIN agents : agents[i].by = g => agents[i].name \in hire[h].names
    BY <1>4, <1>5, <1>11, <1>12 DEF EarlierAreSeen
  <2>1. g \in Hires /\ Ended(g) /\ \A i \in DOMAIN agents : agents[i].by = g => agents[i].name \in hire[h].names
    BY RosterFacts DEF RosterInv, EarlierAreSeen, HireRequests
  <2>2. hire'[g] = hire[g]
    BY <1>10, <1>12, <2>1, RosterFacts
  <2> QED BY <2>1, <2>2 DEF Ended
<1>15. LeftAreMissing(h)'
  <2>1. LeftAreMissing(h)
    BY DEF RosterInv
  <2>2. \A i \in DOMAIN agents : agents'[i].by = agents[i].by /\ agents'[i].name = agents[i].name
    BY <1>5
  <2> QED BY <1>2, <1>4, <1>7, <1>11, <1>12, <2>1, <2>2 DEF LeftAreMissing
<1>16. \A i \in DOMAIN agents : agents[i].by = h => agents'[i].prompt = "linked" \/ q.row = i
  <2>1. \A i \in DOMAIN agents \ {n} : agents[i].by = h => agents'[i].prompt = "linked"
    BY <1>5 DEF RosterInv, HiresAddUp
  <2> QED BY <1>1, <1>5, <1>11, <2>1
<1>17. \A i \in DOMAIN agents : agents[i].by # h => agents'[i].prompt = agents[i].prompt
  BY <1>2, <1>5
<1>18. q.pc # "done"
  BY <1>11
<1> QED BY <1>4, <1>6, <1>9, <1>10, <1>11, <1>12, <1>13, <1>14, <1>15, <1>16, <1>17, <1>18, NobodyAdded

(* Somebody is added: a row of the request's own at the end, by a name     *)
(* that is not there already unless by a request that ran beside it.       *)
LEMMA SomebodyAdded ==
  ASSUME RosterInv, NEW h \in Hires, NEW q \in HireRequests, NEW name \in MemberNames,
         hire[h].pc \in {"idle", "next"}, q.pc = "prompt", q.row = Len(agents) + 1,
         q.team = hire[h].team, q.names = hire[h].names, q.before = hire[h].before,
         agents' = Append(agents, [name |-> name, by |-> h, prompt |-> "none"]),
         hire' = [hire EXCEPT ![h] = q],
         q.team = << >> => q.left = << >>,
         Range(q.left) \subseteq Range(hire[h].left), Apart(q.left),
         q.team # << >> => /\ name \in Range(hire[h].left) /\ name \notin hire[h].names
                           /\ name \notin Range(q.left),
         Range(hire[h].left) \subseteq hire[h].names \cup {name} \cup Range(q.left)
  PROVE  RosterInv'
<1> DEFINE n == Len(agents) + 1
           new == [name |-> name, by |-> h, prompt |-> "none"]
<1>1. new \in RosterRows /\ new.name = name /\ new.by = h /\ new.prompt = "none"
  BY DEF RosterRows
<1> HIDE DEF new
<1>2. /\ agents' \in Seq(RosterRows) /\ DOMAIN agents' = DOMAIN agents \cup {n}
      /\ \A i \in DOMAIN agents : agents'[i] = agents[i]
      /\ agents'[n] = new /\ n \notin DOMAIN agents /\ n \in Nat \ {0} /\ \A i \in DOMAIN agents : i < n
  <2>1. /\ Append(agents, new) \in Seq(RosterRows)
        /\ Len(Append(agents, new)) = n
        /\ \A i \in 1 .. Len(agents) : Append(agents, new)[i] = agents[i]
        /\ Append(agents, new)[n] = new
    BY <1>1, AppendProperties, RosterFacts DEF RosterInv
  <2>2. DOMAIN Append(agents, new) = 1 .. n
    BY <2>1
  <2> QED BY <2>1, <2>2, RosterFacts DEF new
<1>3. RowsKept(h)
  BY <1>1, <1>2 DEF RowsKept
<1>4. hire' \in [Hires -> HireRequests] /\ hire'[h] = q /\ \A g \in Hires \ {h} : hire'[g] = hire[g]
  BY RosterFacts
<1>5. ~ Ended(h) /\ NamesHeld \subseteq NamesHeld' /\ name \in NamesHeld'
  BY <1>1, <1>2, <1>3, NamesStay DEF Ended, NamesHeld
<1>6. RowIsOwn(h) /\ LeftAreMissing(h) /\ EarlierAreSeen(h) /\ hire[h].row = 0
  BY DEF RosterInv, RowIsOwn
<1>7. RowIsOwn(h)'
  BY <1>1, <1>2, <1>4 DEF RowIsOwn
<1>8. LeftAreMissing(h)'
  <2>1. \A i \in DOMAIN agents' :
          agents'[i].by = h /\ q.team # << >> => agents'[i].name \notin Range(q.left)
    BY <1>1, <1>2, <1>6 DEF LeftAreMissing
  <2>2. q.names \subseteq NamesHeld'
    BY <1>5, <1>6 DEF LeftAreMissing
  <2>3. Range(q.team) \subseteq NamesHeld' \cup Range(q.left)
    BY <1>5, <1>6, <2>2 DEF LeftAreMissing
  <2> QED BY <1>4, <2>1, <2>2, <2>3 DEF LeftAreMissing
<1>9. EarlierAreSeen(h)'
  <2> SUFFICES ASSUME NEW g \in hire[h].before
               PROVE  Ended(g)' /\ \A i \in DOMAIN agents' : agents'[i].by = g => agents'[i].name \in hire[h].names
    BY <1>4 DEF EarlierAreSeen
  <2>1. g \in Hires /\ Ended(g) /\ \A i \in DOMAIN agents : agents[i].by = g => agents[i].name \in hire[h].names
    BY <1>6, RosterFacts DEF EarlierAreSeen, HireRequests
  <2>2. g # h /\ hire'[g] = hire[g]
    BY <1>4, <1>5, <2>1
  <2> QED BY <1>1, <1>2, <2>1, <2>2 DEF Ended
<1>10. \A g \in Hires : RowIsOwn(g)' /\ LeftAreMissing(g)' /\ EarlierAreSeen(g)'
  BY <1>3, <1>5, <1>7, <1>8, <1>9, OthersStay
<1>11. \A g \in Hires : hire'[g].pc = "done" => Range(hire'[g].team) \subseteq NamesHeld'
  BY <1>4, <1>5 DEF RosterInv, HiresAddUp
<1>12. \A i \in DOMAIN agents' : agents'[i].prompt = "linked" \/ hire'[agents'[i].by].row = i
  <2>1. ASSUME NEW i \in DOMAIN agents PROVE agents[i].prompt = "linked" \/ hire'[agents[i].by].row = i
    <3>1. agents[i].by \in Hires /\ i # 0
      BY RosterFacts DEF RosterRows
    <3> QED BY <1>4, <1>6, <3>1 DEF RosterInv, HiresAddUp
  <2> QED BY <1>1, <1>2, <1>4, <2>1
<1>13. \A i, j \in DOMAIN agents' :
         i < j /\ agents'[i].name = agents'[j].name /\ hire'[agents'[j].by].team # << >>
         => agents'[i].by \notin hire'[agents'[j].by].before \cup {agents'[j].by}
  <2> SUFFICES ASSUME NEW i \in DOMAIN agents', NEW j \in DOMAIN agents', i < j,
                      agents'[i].name = agents'[j].name, hire'[agents'[j].by].team # << >>
               PROVE  agents'[i].by \notin hire'[agents'[j].by].before \cup {agents'[j].by}
    OBVIOUS
  <2>1. i \in DOMAIN agents /\ i \in Nat
    <3>1. i \in DOMAIN agents \/ i = n
      BY <1>2
    <3>2. j = n \/ (j \in DOMAIN agents /\ j < n /\ j \in Nat)
      BY <1>2, RosterFacts
    <3>3. n \in Nat
      BY <1>2
    <3>4. i # n
      <4> HIDE DEF n
      <4> QED BY <3>2, <3>3
    <3> QED BY <3>1, <3>4, RosterFacts
  <2>2. agents'[i] = agents[i]
    BY <1>2, <2>1
  <2>3. CASE j = n
    <3>1. agents'[j].by = h /\ hire'[h].team = q.team /\ hire'[h].before = hire[h].before /\ agents'[j].name = name
      BY <1>1, <1>2, <1>4, <2>3
    <3>2. agents[i].by # h
      BY <1>6, <2>1, <2>2, <3>1 DEF LeftAreMissing
    <3>3. agents[i].by \notin hire[h].before
      BY <1>6, <2>1, <2>2, <3>1 DEF EarlierAreSeen
    <3> QED BY <2>2, <3>1, <3>2, <3>3
  <2>4. CASE j \in DOMAIN agents
    <3>1. agents'[j] = agents[j] /\ agents[j].by \in Hires
      BY <1>2, <2>4, RosterFacts DEF RosterRows
    <3>2. /\ hire'[agents[j].by].team = hire[agents[j].by].team
          /\ hire'[agents[j].by].before = hire[agents[j].by].before
      BY <1>4, <3>1
    <3> QED BY <2>1, <2>2, <2>4, <3>1, <3>2 DEF RosterInv, HiresAddUp
  <2> QED BY <1>2, <2>3, <2>4
<1>14. HiresAddUp'
  BY <1>11, <1>12, <1>13 DEF HiresAddUp
<1> QED BY <1>2, <1>4, <1>10, <1>14 DEF RosterInv

LEMMA CreateAgentKeeps == ASSUME RosterInv, NEW h \in Hires, CreateAgent(h) PROVE RosterInv'
<1>1. PICK name \in ByHand : agents' = Append(agents, [name |-> name, by |-> h, prompt |-> "none"])
  BY DEF CreateAgent
<1> DEFINE n == Len(agents) + 1
           q == [hire[h] EXCEPT !.pc = "prompt", !.row = n]
<1>2. n \in Nat
  BY RosterFacts
<1>3. q \in HireRequests /\ hire' = [hire EXCEPT ![h] = q]
  <2>1. hire' = [hire EXCEPT ![h] = q]
    BY RosterFacts DEF CreateAgent
  <2> HIDE DEF n
  <2> QED BY <1>2, <2>1, RosterFacts, RequestMoves
<1>4. /\ q.pc = "prompt" /\ q.team = hire[h].team /\ q.left = hire[h].left /\ q.names = hire[h].names
      /\ q.row = n /\ q.before = hire[h].before
  BY RosterFacts DEF HireRequests
<1> HIDE DEF q
<1>5. /\ name \in MemberNames /\ hire[h].pc = "idle"
      /\ hire[h].team = << >> /\ hire[h].left = << >> /\ Apart(hire[h].left)
  BY DEF MemberNames, CreateAgent, RosterInv, LeftAreMissing
<1>6. Range(hire[h].left) = {}
  BY <1>5 DEF Range
<1> QED BY <1>1, <1>3, <1>4, <1>5, <1>6, SomebodyAdded

(* The first of a set of places.                                           *)
LEMMA CreateMemberKeeps == ASSUME RosterInv, NEW h \in Hires, CreateMember(h) PROVE RosterInv'
<1> DEFINE left == hire[h].left
           next == Min(Missing(h))
           n == Len(agents) + 1
           rest == SubSeq(left, next + 1, Len(left))
           name == left[next]
           q == [hire[h] EXCEPT !.pc = "prompt", !.row = n, !.left = rest]
<1>1. left \in Seq(MemberNames) /\ Len(left) \in Nat /\ DOMAIN left = 1 .. Len(left)
  <2>1. left \in Seq(MemberNames)
    BY RosterFacts DEF HireRequests
  <2> QED BY <2>1
<1>2. /\ next \in 1 .. Len(left) /\ name \notin hire[h].names /\ name \in MemberNames
      /\ \A i \in 1 .. next - 1 : left[i] \in hire[h].names
  <2>1. Missing(h) \in SUBSET Nat /\ Missing(h) # {}
    BY <1>1 DEF Missing, CreateMember
  <2>2. next \in Missing(h) /\ \A k \in Missing(h) : next <= k
    BY <2>1, MinIsLeast
  <2>3. next \in DOMAIN left /\ name \notin hire[h].names
    BY <2>2 DEF Missing
  <2>4. ASSUME NEW i \in 1 .. next - 1 PROVE left[i] \in hire[h].names
    <3>1. i \in DOMAIN left /\ ~ next <= i
      BY <1>1, <2>3
    <3> QED BY <2>2, <3>1 DEF Missing
  <2> QED BY <1>1, <2>3, <2>4
<1>3. /\ rest \in Seq(MemberNames) /\ DOMAIN rest = 1 .. Len(left) - next
      /\ \A i \in 1 .. Len(left) - next : rest[i] = left[i + next]
  <2> HIDE DEF left, next
  <2>1. \A i \in next + 1 .. Len(left) : left[i] \in MemberNames
    BY <1>1, <1>2
  <2>2. rest = [i \in 1 .. Len(left) - next |-> left[i + next]]
    BY <1>1, <1>2
  <2>3. \A i \in 1 .. Len(left) - next : left[i + next] \in MemberNames
    BY <1>1, <1>2, <2>1
  <2>4. Len(left) - next \in Nat
    BY <1>1, <1>2
  <2>5. rest \in Seq(MemberNames)
    <3>1. rest \in [1 .. Len(left) - next -> MemberNames]
      BY <2>2, <2>3
    <3> HIDE DEF rest
    <3> QED BY <2>4, <3>1
  <2> QED BY <2>2, <2>5
<1>4. agents' = Append(agents, [name |-> name, by |-> h, prompt |-> "none"]) /\ n \in Nat
  BY RosterFacts DEF CreateMember
<1>5. q \in HireRequests /\ hire' = [hire EXCEPT ![h] = q]
  <2>1. hire' = [hire EXCEPT ![h] = q]
    BY RosterFacts DEF CreateMember
  <2> HIDE DEF n, rest
  <2> QED BY <1>3, <1>4, <2>1, RosterFacts, RequestMoves
<1>6. /\ q.pc = "prompt" /\ q.team = hire[h].team /\ q.left = rest /\ q.names = hire[h].names
      /\ q.row = n /\ q.before = hire[h].before
  <2> HIDE DEF rest, n, left
  <2>1. hire[h] \in HireRequests
    BY RosterFacts
  <2> QED BY <2>1 DEF HireRequests
<1>7. Apart(left) /\ (hire[h].team = << >> => left = << >>) /\ hire[h].pc = "next"
  BY DEF RosterInv, LeftAreMissing, CreateMember
<1> HIDE DEF q, left, next, rest, name
<1>8. Apart(rest)
  <2> SUFFICES ASSUME NEW i \in 1 .. Len(left) - next, NEW j \in 1 .. Len(left) - next, i # j
               PROVE  rest[i] # rest[j]
    BY <1>3 DEF Apart
  <2>1. i + next \in DOMAIN left /\ j + next \in DOMAIN left /\ i + next # j + next
    BY <1>1, <1>2
  <2> QED BY <1>3, <1>7, <2>1 DEF Apart
<1>9. Range(rest) \subseteq Range(left) /\ name \in Range(left) /\ name \notin Range(rest)
  <2>1. ASSUME NEW i \in 1 .. Len(left) - next PROVE rest[i] \in Range(left) /\ rest[i] # name
    <3>1. i + next \in DOMAIN left /\ next \in DOMAIN left /\ i + next # next
      BY <1>1, <1>2
    <3> QED BY <1>3, <1>7, <3>1 DEF Apart, Range, name
  <2>2. name \in Range(left)
    BY <1>1, <1>2 DEF Range, name
  <2> QED BY <1>3, <2>1, <2>2 DEF Range
<1>10. Range(left) \subseteq hire[h].names \cup {name} \cup Range(rest)
  <2> SUFFICES ASSUME NEW i \in 1 .. Len(left) PROVE left[i] \in hire[h].names \cup {name} \cup Range(rest)
    BY <1>1 DEF Range
  <2>1. i \in 1 .. next - 1 \/ i = next \/ i - next \in 1 .. Len(left) - next
    BY <1>1, <1>2
  <2>2. CASE i - next \in 1 .. Len(left) - next
    <3>1. rest[i - next] = left[(i - next) + next] /\ (i - next) + next = i
      BY <1>1, <1>2, <1>3, <2>2
    <3> QED BY <1>3, <2>2, <3>1 DEF Range
  <2> QED BY <1>2, <2>1, <2>2 DEF name
<1>11. q.team = << >> => q.left = << >>
  <2> SUFFICES ASSUME hire[h].team = << >> PROVE FALSE
    BY <1>6
  <2> QED BY <1>1, <1>2, <1>7
<1> QED BY <1>2, <1>4, <1>5, <1>6, <1>7, <1>8, <1>9, <1>10, <1>11, SomebodyAdded DEF left

LEMMA RosterBegins == RosterInit => RosterInv
<1> SUFFICES ASSUME RosterInit PROVE RosterInv
  OBVIOUS
<1>1. << >> \in Seq(MemberNames) /\ << >> \in Seq(RosterRows) /\ DOMAIN << >> = {} /\ Range(<< >>) = {}
  BY DEF Range
<1>2. Unsent \in HireRequests /\ agents = << >> /\ \A h \in Hires : hire[h] = Unsent
  BY <1>1 DEF Unsent, HireRequests, RosterInit
<1>3. hire \in [Hires -> HireRequests]
  BY <1>2 DEF RosterInit
<1>4. ASSUME NEW h \in Hires PROVE RowIsOwn(h) /\ LeftAreMissing(h) /\ EarlierAreSeen(h)
  <2>1. /\ hire[h].pc = "idle" /\ hire[h].row = 0 /\ hire[h].team = << >> /\ hire[h].left = << >>
        /\ hire[h].names = {} /\ hire[h].before = {}
    BY <1>2 DEF Unsent
  <2> QED BY <1>1, <1>2, <2>1 DEF RowIsOwn, LeftAreMissing, EarlierAreSeen, Adds, Apart
<1>5. HiresAddUp
  BY <1>1, <1>2 DEF HiresAddUp, Unsent
<1> QED BY <1>1, <1>2, <1>3, <1>4, <1>5 DEF RosterInv

LEMMA RosterKept == RosterInv /\ [RosterNext]_rosterVars => RosterInv'
<1> SUFFICES ASSUME RosterInv, [RosterNext]_rosterVars PROVE RosterInv'
  OBVIOUS
<1>1. CASE UNCHANGED rosterVars
  <2>1. agents' = agents /\ hire' = hire /\ NamesHeld' = NamesHeld
    BY <1>1 DEF rosterVars, NamesHeld
  <2>2. ASSUME NEW h \in Hires PROVE RowIsOwn(h)' /\ LeftAreMissing(h)' /\ EarlierAreSeen(h)'
    <3>1. RowIsOwn(h) /\ LeftAreMissing(h) /\ EarlierAreSeen(h)
      BY DEF RosterInv
    <3>2. RowIsOwn(h)'
      BY <2>1, <3>1 DEF RowIsOwn
    <3>3. LeftAreMissing(h)'
      BY <2>1, <3>1 DEF LeftAreMissing, Adds
    <3>4. EarlierAreSeen(h)'
      BY <2>1, <3>1 DEF EarlierAreSeen, Ended
    <3> QED BY <3>2, <3>3, <3>4
  <2>3. HiresAddUp'
    BY <2>1 DEF RosterInv, HiresAddUp
  <2> QED BY <2>1, <2>2, <2>3 DEF RosterInv
<1> QED BY <1>1, HireTeamKeeps, ListAgentsKeeps, CreateMemberKeeps, CreateAgentKeeps, PromptKeeps, HiredKeeps
        DEF RosterNext

(* A hire that went through has the whole team on the roster, a member is  *)
(* there twice only if the requests that made both overlapped or the       *)
(* second was made by hand, and an agent lacks its prompt only while, or   *)
(* because, its request has not got to it: for every team and any number   *)
(* of requests, cut wherever they are.                                     *)
THEOREM HiresFillTheRoster == RosterSpec => []HiresAddUp
<1>1. RosterInv => HiresAddUp
  BY DEF RosterInv
<1> QED BY <1>1, RosterBegins, RosterKept, PTL DEF RosterSpec

-----------------------------------------------------------------------------
(* The seed: the versions of a prompt, and who runs beside whom.           *)

SeedSpec == SeedInit /\ [][SeedNext]_seedVars

SeedStages == {"idle", "create", "compare", "last", "write", "link", "done", "cut"}
Hands == {"none", "prompt", "link", "made", "cut"}
MemberRows == [current : Nat, texts : Seq(Prompts), hand : Hands]
SeedStates == [at : SeedStages, text : SUBSET Prompts, row : Nat, current : Nat, version : Nat]

TextsOf(s) == members[seeds[s].row].texts

(* A seed is at a row there is, with a version that comes next or is its.  *)
SeedSound(s) ==
  /\ seeds[s].at # "idle" => \E text \in Prompts : seeds[s].text = {text}
  /\ seeds[s].at \in {"compare", "last", "write", "link", "done"} => seeds[s].row \in DOMAIN members
  /\ seeds[s].at = "compare" => seeds[s].current <= Len(TextsOf(s))
  /\ seeds[s].at = "write" => seeds[s].version \in 1 .. Len(TextsOf(s)) + 1
  /\ seeds[s].at = "link" =>
       seeds[s].version \in 1 .. Len(TextsOf(s)) /\ {TextsOf(s)[seeds[s].version]} = seeds[s].text

(* Seeds start in their order, and those that meet are known to have met.  *)
InTurn ==
  \A s, t \in Seeds : t < s /\ seeds[s].at # "idle" =>
    seeds[t].at # "idle" /\ (Works(t) => s \in beside /\ t \in beside)

(* What a seed read is still so if nobody is beside it.                    *)
ReadsHold ==
  \A s \in Seeds : Undisturbed(s) /\ seeds[s].at = "compare" =>
    seeds[s].current = members[seeds[s].row].current

Orderly == \A s \in Seeds : Undisturbed(s) /\ seeds[s].at # "cut"

AtARow == {"compare", "last", "write", "link", "done"}

(* A row that is half made has its version by the time it is linked, and a *)
(* seed at such a row is known to have met the hand.                       *)
HandsSeen ==
  /\ \A r \in DOMAIN members : members[r].hand = "link" => 1 <= Len(members[r].texts)
  /\ \A s \in Seeds : seeds[s].at \in AtARow /\ HalfMade(seeds[s].row) => s \in beside

(* The last version of a row is the current one, or about to be, unless a  *)
(* hand was cut before the link.                                           *)
VersionsInLine ==
  /\ \A r \in DOMAIN members :
       \/ members[r].hand \in {"link", "cut"} \/ members[r].current = Len(members[r].texts)
       \/ \E s \in Seeds : seeds[s].at = "link" /\ seeds[s].row = r
  /\ \A r \in DOMAIN members : members[r].hand = "link" => Len(members[r].texts) = 1
  /\ \A s \in Seeds : seeds[s].at = "link" => seeds[s].version = Len(TextsOf(s))
  /\ \A s \in Seeds :
       seeds[s].at \in {"last", "write"} /\ TextsOf(s) # << >> /\ members[seeds[s].row].hand # "cut" =>
         {TextsOf(s)[Len(TextsOf(s))]} # seeds[s].text

SeedInv ==
  /\ members \in Seq(MemberRows) /\ seeds \in [Seeds -> SeedStates] /\ beside \subseteq Seeds
  /\ \A s \in Seeds : SeedSound(s)
  /\ InTurn /\ ReadsHold /\ HandsSeen /\ (Orderly => VersionsInLine)
  /\ SeedRefreshes

NoTwins(texts) == \A v \in 2 .. Len(texts) : texts[v] # texts[v - 1]
NoRepeats == \A r \in DOMAIN members : members[r].hand # "cut" => NoTwins(members[r].texts)

LEMMA SeedFacts ==
  ASSUME SeedInv
  PROVE  /\ members \in Seq(MemberRows) /\ Len(members) \in Nat /\ DOMAIN members = 1 .. Len(members)
         /\ \A r \in DOMAIN members :
              /\ members[r] \in MemberRows /\ members[r].current \in Nat
              /\ members[r].texts \in Seq(Prompts) /\ Len(members[r].texts) \in Nat
              /\ DOMAIN members[r].texts = 1 .. Len(members[r].texts) /\ members[r].hand \in Hands
         /\ seeds \in [Seeds -> SeedStates] /\ \A s \in Seeds : seeds[s] \in SeedStates /\ SeedSound(s)
         /\ \A s \in Seeds : s \in Nat
<1>1. members \in Seq(MemberRows) /\ seeds \in [Seeds -> SeedStates] /\ \A s \in Seeds : SeedSound(s)
  BY DEF SeedInv
<1>2. \A r \in DOMAIN members : members[r] \in MemberRows
  BY <1>1
<1>3. \A p \in MemberRows : p.current \in Nat /\ p.texts \in Seq(Prompts) /\ p.hand \in Hands
  BY DEF MemberRows
<1>4. \A t \in Seq(Prompts) : Len(t) \in Nat /\ DOMAIN t = 1 .. Len(t)
  OBVIOUS
<1> QED BY <1>1, <1>2, <1>3, <1>4, SeedAssumption

LEMMA SeedMoves ==
  \A p \in SeedStates : \A place \in SeedStages :
    /\ [p EXCEPT !.at = place] \in SeedStates
    /\ [p EXCEPT !.at = place].at = place /\ [p EXCEPT !.at = place].text = p.text
    /\ [p EXCEPT !.at = place].row = p.row /\ [p EXCEPT !.at = place].version = p.version
<1> DEFINE P == SUBSET Prompts
<1>1. SeedStates = [at : SeedStages, text : P, row : Nat, current : Nat, version : Nat]
  BY DEF SeedStates
<1> HIDE DEF P
<1> SUFFICES ASSUME NEW p \in SeedStates, NEW place \in SeedStages
             PROVE  /\ [p EXCEPT !.at = place] \in SeedStates
                    /\ [p EXCEPT !.at = place].at = place /\ [p EXCEPT !.at = place].text = p.text
                    /\ [p EXCEPT !.at = place].row = p.row /\ [p EXCEPT !.at = place].version = p.version
  OBVIOUS
<1>2. [p EXCEPT !.at = place] \in SeedStates
  BY <1>1
<1>3. /\ [p EXCEPT !.at = place].at = place /\ [p EXCEPT !.at = place].text = p.text
      /\ [p EXCEPT !.at = place].row = p.row /\ [p EXCEPT !.at = place].version = p.version
  BY <1>1
<1> QED BY <1>2, <1>3

(* Rows and versions are added and stay.                                   *)
RowsStay ==
  /\ members' \in Seq(MemberRows) /\ DOMAIN members \subseteq DOMAIN members'
  /\ \A r \in DOMAIN members :
       /\ Len(members'[r].texts) \in Nat /\ Len(members[r].texts) <= Len(members'[r].texts)
       /\ \A v \in 1 .. Len(members[r].texts) : members'[r].texts[v] = members[r].texts[v]

HandsStay == \A r \in DOMAIN members : members'[r].hand = members[r].hand

LEMMA OthersSound ==
  ASSUME SeedInv, RowsStay, NEW t \in Seeds, seeds'[t] = seeds[t]
  PROVE  SeedSound(t)'
<1>1. SeedSound(t)
  BY DEF SeedInv
<1> DEFINE entry == seeds[t].row
           version == seeds[t].version
<1>2. seeds[t].current \in Nat /\ version \in Nat
  BY SeedFacts DEF SeedStates
<1>3. CASE entry \in DOMAIN members
  <2> DEFINE n == Len(members[entry].texts)
             m == Len(members'[entry].texts)
  <2>1. n \in Nat /\ m \in Nat /\ n <= m /\ entry \in DOMAIN members'
    BY <1>3, SeedFacts DEF RowsStay
  <2>2. \A v \in 1 .. n : members'[entry].texts[v] = members[entry].texts[v]
    BY <1>3 DEF RowsStay
  <2>3. /\ seeds[t].at = "compare" => seeds[t].current <= n
        /\ seeds[t].at = "write" => version \in 1 .. n + 1
        /\ seeds[t].at = "link" => version \in 1 .. n /\ {members[entry].texts[version]} = seeds[t].text
    BY <1>1 DEF SeedSound, TextsOf
  <2> HIDE DEF n, m
  <2>4. /\ seeds[t].at = "compare" => seeds[t].current <= m
        /\ seeds[t].at = "write" => version \in 1 .. m + 1
        /\ seeds[t].at = "link" => version \in 1 .. m /\ {members'[entry].texts[version]} = seeds[t].text
    BY <1>2, <2>1, <2>2, <2>3
  <2> QED BY <1>1, <2>1, <2>4 DEF SeedSound, TextsOf, n, m
<1>4. CASE entry \notin DOMAIN members
  BY <1>1, <1>4 DEF SeedSound
<1> QED BY <1>3, <1>4

(* A seed beside one that works, or before it as the last one.             *)
LEMMA NobodyBeside ==
  ASSUME SeedInv, NEW s \in Seeds, NEW t \in Seeds \ {s}, Works(s), seeds[t].at # "idle", Works(t) \/ Latest(t)
  PROVE  t \in beside
<1>1. s \in Nat /\ t \in Nat
  BY SeedFacts
<1>2. seeds[s].at # "idle"
  BY DEF Works
<1>3. CASE t < s
  <2>1. ~ Latest(t)
    BY <1>1, <1>2, <1>3 DEF Latest
  <2> QED BY <1>2, <1>3, <2>1 DEF SeedInv, InTurn
<1>4. CASE s < t
  BY <1>4 DEF SeedInv, InTurn
<1> QED BY <1>1, <1>3, <1>4

LEMMA OrderlyAlone ==
  ASSUME SeedInv, Orderly, NEW s \in Seeds, NEW t \in Seeds \ {s}, Works(s)
  PROVE  ~ Works(t) /\ seeds[t].at \notin {"compare", "last", "write", "link"}
<1>1. ~ Works(t)
  <2> SUFFICES ASSUME Works(t) PROVE FALSE
    OBVIOUS
  <2>1. t \in beside
    BY NobodyBeside DEF Works
  <2> QED BY <2>1 DEF Orderly, Undisturbed
<1> QED BY <1>1 DEF Works

(* One step of a seed at work keeps what is said of the others.            *)
LEMMA SeedWorks ==
  ASSUME SeedInv, NEW s \in Seeds, Works(s), NEW q \in SeedStates, seeds' = [seeds EXCEPT ![s] = q],
         q.at \notin {"idle", "compare"}, UNCHANGED beside, RowsStay, HandsStay, SeedSound(s)',
         \A r \in DOMAIN members' \ DOMAIN members : members'[r].hand = "none",
         \/ q.row = seeds[s].row /\ seeds[s].at \in AtARow
         \/ members'[q.row].hand = "none"
         \/ q.at = "cut",
         \A r \in DOMAIN members' : members'[r].current <= Len(members'[r].texts),
         q.at = "done" /\ s \notin beside => LET entry == members'[q.row] IN entry.current # 0 /\ {entry.texts[entry.current]} = q.text,
         Orderly /\ q.at # "cut" => VersionsInLine' /\ NoRepeats'
  PROVE  SeedInv'
<1>1. seeds' \in [Seeds -> SeedStates] /\ seeds'[s] = q /\ \A t \in Seeds \ {s} : seeds'[t] = seeds[t]
  BY SeedFacts
<1>2. \A t \in Seeds : SeedSound(t)'
  BY <1>1, OthersSound
<1>11. HandsSeen'
  <2>1. ASSUME NEW r \in DOMAIN members', members'[r].hand = "link" PROVE 1 <= Len(members'[r].texts)
    <3>1. r \in DOMAIN members /\ members[r].hand = "link"
      BY <2>1 DEF HandsStay
    <3>2. 1 <= Len(members[r].texts) /\ Len(members[r].texts) \in Nat
      BY <3>1, SeedFacts DEF SeedInv, HandsSeen
    <3>3. Len(members'[r].texts) \in Nat /\ Len(members[r].texts) <= Len(members'[r].texts)
      BY <3>1 DEF RowsStay
    <3> QED BY <3>2, <3>3
  <2>2. ASSUME NEW t \in Seeds, seeds'[t].at \in AtARow, HalfMade(seeds[t].row), seeds'[t].row = seeds[t].row,
               seeds[t].at \in AtARow
        PROVE  t \in beside'
    BY <2>2 DEF SeedInv, HandsSeen
  <2>3. ASSUME NEW t \in Seeds, seeds'[t].at \in AtARow, HalfMade(seeds[t].row)' PROVE t \in beside'
    <3>1. CASE seeds'[t].row = seeds[t].row /\ seeds[t].at \in AtARow
      <4>1. seeds[t].row \in DOMAIN members
        BY <3>1, SeedFacts DEF SeedSound, AtARow
      <4>2. HalfMade(seeds[t].row)
        BY <2>3, <3>1, <4>1 DEF HalfMade, HandsStay
      <4> QED BY <2>2, <2>3, <3>1, <4>2
    <3>2. CASE ~ (seeds'[t].row = seeds[t].row /\ seeds[t].at \in AtARow)
      <4>1. t = s
        BY <1>1, <2>3, <3>2
      <4>2. q.at # "cut" /\ members'[q.row].hand # "none"
        BY <1>1, <2>3, <4>1 DEF HalfMade, AtARow
      <4> QED BY <1>1, <3>2, <4>1, <4>2
    <3> QED BY <3>1, <3>2
  <2> QED BY <2>1, <2>3 DEF HandsSeen
<1>3. InTurn'
  BY <1>1 DEF SeedInv, InTurn, Works
<1>4. ASSUME NEW t \in Seeds \ {s}, t \notin beside, seeds[t].at = "compare" PROVE FALSE
  BY <1>4, NobodyBeside DEF Works
<1>5. ReadsHold'
  BY <1>1, <1>4 DEF ReadsHold, Undisturbed
<1>6. Orderly' => Orderly /\ q.at # "cut"
  BY <1>1 DEF Orderly, Undisturbed, Works
<1>7. ASSUME NEW t \in Seeds \ {s}, seeds[t].at = "done", Latest(t)', t \notin beside PROVE FALSE
  <2>1. Latest(t)
    BY <1>1, <1>7 DEF Latest, Works
  <2> QED BY <1>7, <2>1, NobodyBeside
<1>8. \A t \in Seeds : seeds'[t].at = "done" /\ Latest(t)' /\ Undisturbed(t)' =>
        LET entry == members'[seeds'[t].row]
        IN entry.current # 0 /\ {entry.texts[entry.current]} = seeds'[t].text
  <2> SUFFICES ASSUME NEW t \in Seeds, seeds'[t].at = "done", Latest(t)', t \notin beside
               PROVE LET entry == members'[seeds'[t].row]
                     IN entry.current # 0 /\ {entry.texts[entry.current]} = seeds'[t].text
    BY DEF Undisturbed
  <2>1. t = s
    BY <1>1, <1>7
  <2> QED BY <1>1, <2>1
<1>9. Orderly' => VersionsInLine' /\ NoRepeats'
  BY <1>6
<1>10. SeedRefreshes'
  BY <1>8, <1>9 DEF SeedRefreshes, Orderly, NoTwins, NoRepeats
<1> QED BY <1>1, <1>2, <1>3, <1>5, <1>9, <1>10, <1>11 DEF SeedInv, RowsStay

LEMMA RowsSame == ASSUME SeedInv, UNCHANGED members PROVE RowsStay /\ HandsStay
BY SeedFacts DEF RowsStay, HandsStay

(* Where nothing was disturbed, no seed is at a row half made.             *)
LEMMA OrderlyRow ==
  ASSUME SeedInv, Orderly, NEW s \in Seeds, seeds[s].at \in AtARow
  PROVE  members[seeds[s].row].hand \notin {"prompt", "link"}
BY DEF SeedInv, HandsSeen, HalfMade, Orderly, Undisturbed

LEMMA CurrentInside == ASSUME SeedInv PROVE \A r \in DOMAIN members : members[r].current <= Len(members[r].texts)
BY DEF SeedInv, SeedRefreshes

LEMMA InLine ==
  ASSUME SeedInv, Orderly
  PROVE  VersionsInLine /\ NoRepeats
BY DEF SeedInv, SeedRefreshes, Orderly, NoTwins, NoRepeats

LEMMA SeedCutKeeps == ASSUME SeedInv, NEW s \in Seeds, SeedCut(s) PROVE SeedInv'
<1> DEFINE q == [seeds[s] EXCEPT !.at = "cut"]
<1>1. /\ Works(s) /\ seeds' = [seeds EXCEPT ![s] = q] /\ UNCHANGED <<members, beside>>
  BY SeedFacts DEF SeedCut, Goes
<1>2. q \in SeedStates /\ q.at = "cut" /\ q.text = seeds[s].text
  BY SeedFacts, SeedMoves DEF SeedStages
<1> HIDE DEF q
<1>3. seeds'[s] = q
  BY <1>1, SeedFacts
<1>4. SeedSound(s)'
  BY <1>1, <1>2, <1>3, SeedFacts DEF SeedSound, Works
<1> QED BY <1>1, <1>2, <1>4, RowsSame, CurrentInside, SeedWorks

LEMMA CreateMissingKeeps == ASSUME SeedInv, NEW s \in Seeds, CreateMissing(s) PROVE SeedInv'
<1> DEFINE n == Len(members) + 1
           new == [current |-> 0, texts |-> << >>, hand |-> "none"]
           q == [seeds[s] EXCEPT !.at = "write", !.row = n, !.version = 1]
<1>1. /\ Works(s) /\ seeds' = [seeds EXCEPT ![s] = q] /\ UNCHANGED beside
      /\ members' = Append(members, new) /\ seeds[s].at = "create"
  BY SeedFacts DEF CreateMissing, Works
<1>2. n \in Nat /\ n \notin DOMAIN members
  BY SeedFacts
<1>3. q \in SeedStates /\ q.at = "write" /\ q.text = seeds[s].text /\ q.row = n /\ q.version = 1
  <2> DEFINE P == SUBSET Prompts
  <2>1. SeedStates = [at : SeedStages, text : P, row : Nat, current : Nat, version : Nat]
    BY DEF SeedStates
  <2>2. seeds[s] \in SeedStates /\ "write" \in SeedStages
    BY SeedFacts DEF SeedStages
  <2> HIDE DEF n, P
  <2> QED BY <1>2, <2>1, <2>2
<1> HIDE DEF q
<1>4. new \in MemberRows /\ new.current = 0 /\ new.texts = << >> /\ Len(new.texts) = 0 /\ new.hand = "none"
  <2>1. << >> \in Seq(Prompts) /\ "none" \in Hands
    BY DEF Hands
  <2> QED BY <2>1 DEF MemberRows
<1> HIDE DEF new
<1>5. /\ members' \in Seq(MemberRows) /\ DOMAIN members' = DOMAIN members \cup {n}
      /\ members'[n] = new /\ \A r \in DOMAIN members : members'[r] = members[r]
  <2>1. /\ Append(members, new) \in Seq(MemberRows) /\ Len(Append(members, new)) = n
        /\ Append(members, new)[n] = new
        /\ \A r \in 1 .. Len(members) : Append(members, new)[r] = members[r]
    BY <1>4, SeedFacts, AppendProperties
  <2>2. DOMAIN Append(members, new) = 1 .. n
    BY <2>1
  <2> QED BY <1>1, <2>1, <2>2, SeedFacts
<1>6. RowsStay /\ HandsStay
  BY <1>5, SeedFacts DEF RowsStay, HandsStay
<1>7. seeds'[s] = q /\ \A t \in Seeds \ {s} : seeds'[t] = seeds[t]
  BY <1>1, SeedFacts
<1>8. SeedSound(s)'
  <2>1. TextsOf(s)' = << >> /\ Len(<< >>) = 0
    BY <1>3, <1>4, <1>5, <1>7 DEF TextsOf
  <2>2. seeds'[s].at = "write" /\ seeds'[s].version = 1 /\ \E text \in Prompts : seeds'[s].text = {text}
    BY <1>1, <1>3, <1>7, SeedFacts DEF SeedSound
  <2>3. 1 \in 1 .. Len(TextsOf(s)') + 1
    BY <2>1
  <2>4. seeds'[s].row \in DOMAIN members'
    BY <1>3, <1>5, <1>7
  <2> QED BY <2>2, <2>3, <2>4 DEF SeedSound
<1>9. \A r \in DOMAIN members' : members'[r].current <= Len(members'[r].texts)
  BY <1>4, <1>5, CurrentInside
<1>10. ASSUME Orderly PROVE VersionsInLine' /\ NoRepeats'
  <2>1. \A t \in Seeds \ {s} : seeds[t].at \notin {"compare", "last", "write", "link"}
    BY <1>1, <1>10, OrderlyAlone
  <2>2. VersionsInLine /\ NoRepeats
    BY <1>10, InLine
  <2>3. NoTwins(new.texts)
    BY <1>4 DEF NoTwins
  <2>4. \A r \in DOMAIN members :
          /\ members[r].hand \in {"link", "cut"} \/ members[r].current = Len(members[r].texts)
          /\ members[r].hand = "link" => Len(members[r].texts) = 1
    BY <1>1, <2>1, <2>2 DEF VersionsInLine
  <2>5. \A r \in DOMAIN members' :
          /\ members'[r].hand \in {"link", "cut"} \/ members'[r].current = Len(members'[r].texts)
          /\ members'[r].hand = "link" => Len(members'[r].texts) = 1
    BY <1>4, <1>5, <2>4
  <2>6. TextsOf(s)' = << >>
    BY <1>3, <1>4, <1>5, <1>7 DEF TextsOf
  <2>7. \A t \in Seeds : seeds'[t].at \in {"last", "write", "link"} => t = s /\ seeds'[t].at = "write"
    BY <1>3, <1>7, <2>1
  <2>8. VersionsInLine'
    BY <2>5, <2>6, <2>7 DEF VersionsInLine
  <2> QED BY <1>5, <2>2, <2>3, <2>8 DEF NoRepeats
<1> QED BY <1>1, <1>3, <1>4, <1>5, <1>6, <1>8, <1>9, <1>10, SeedWorks

(* The steps that only look.                                               *)
LEMMA ComparePromptKeeps == ASSUME SeedInv, NEW s \in Seeds, ComparePrompt(s) PROVE SeedInv'
<1> DEFINE now == seeds[s].current
           entry == seeds[s].row
           same == now # 0 /\ {members[entry].texts[now]} = seeds[s].text
           place == IF same THEN "done" ELSE "last"
           q == [seeds[s] EXCEPT !.at = place]
<1>1. /\ Works(s) /\ seeds' = [seeds EXCEPT ![s] = q] /\ UNCHANGED <<members, beside>>
      /\ seeds[s].at = "compare"
  BY SeedFacts DEF ComparePrompt, Works, Goes, Versions
<1>2. place \in SeedStages
  BY DEF SeedStages
<1>3. q \in SeedStages \/ TRUE
  OBVIOUS
<1>4. q \in SeedStates /\ q.at = place /\ q.text = seeds[s].text /\ q.row = entry
  <2> HIDE DEF place
  <2> QED BY <1>2, SeedFacts, SeedMoves
<1> HIDE DEF q
<1>5. seeds'[s] = q /\ \A t \in Seeds \ {s} : seeds'[t] = seeds[t]
  BY <1>1, SeedFacts
<1>6. entry \in DOMAIN members /\ now <= Len(members[entry].texts) /\ now \in Nat
  BY <1>1, SeedFacts DEF SeedSound, TextsOf, SeedStates
<1>7. SeedSound(s)'
  BY <1>1, <1>4, <1>5, <1>6, SeedFacts DEF SeedSound
<1>8. s \notin beside => now = members[entry].current
  BY <1>1 DEF SeedInv, ReadsHold, Undisturbed
<1>9. q.at = "done" /\ s \notin beside => LET r == members'[q.row] IN r.current # 0 /\ {r.texts[r.current]} = q.text
  BY <1>1, <1>4, <1>8
<1>10. ASSUME Orderly, q.at # "done"
       PROVE  VersionsInLine' /\ NoRepeats'
  <2>1. \A t \in Seeds \ {s} : seeds[t].at \notin {"compare", "last", "write", "link"}
    BY <1>1, <1>10, OrderlyAlone
  <2>2. VersionsInLine /\ NoRepeats
    BY <1>10, InLine
  <2>3. now = members[entry].current
    BY <1>8, <1>10 DEF Orderly, Undisturbed
  <2>4. \A r \in DOMAIN members :
          /\ members[r].hand \in {"link", "cut"} \/ members[r].current = Len(members[r].texts)
          /\ members[r].hand = "link" => Len(members[r].texts) = 1
    BY <1>1, <2>1, <2>2 DEF VersionsInLine
  <2>5. q.at = "last" /\ ~ same
    BY <1>4, <1>10
  <2>6. \A t \in Seeds : seeds'[t].at \in {"last", "write", "link"} => t = s
    BY <1>4, <1>5, <2>1
  <2>7. TextsOf(s)' # << >> /\ members[entry].hand # "cut" =>
          {TextsOf(s)'[Len(TextsOf(s)')]} # seeds'[s].text
    <3>1. TextsOf(s)' = members[entry].texts /\ seeds'[s].text = seeds[s].text
      BY <1>1, <1>4, <1>5 DEF TextsOf
    <3>2. members[entry].hand # "cut" => Len(members[entry].texts) = now
      BY <1>1, <1>6, <1>10, <2>3, <2>4, OrderlyRow DEF AtARow
    <3>3. members[entry].texts # << >> /\ members[entry].hand # "cut" => now # 0
      BY <1>6, <3>2, SeedFacts, EmptySeq
    <3> QED BY <2>5, <3>1, <3>2, <3>3
  <2>8. VersionsInLine'
    BY <1>1, <1>4, <2>4, <2>5, <2>6, <2>7, <1>5 DEF VersionsInLine
  <2> QED BY <1>1, <2>2, <2>8 DEF NoRepeats
<1>11. Orderly /\ q.at # "cut" => VersionsInLine' /\ NoRepeats'
  <2> SUFFICES ASSUME Orderly, q.at = "done"
               PROVE  VersionsInLine' /\ NoRepeats'
    BY <1>10
  <2>1. VersionsInLine /\ NoRepeats
    BY InLine
  <2>2. /\ \A t \in Seeds \ {s} : TextsOf(t)' = TextsOf(t) /\ seeds'[t] = seeds[t]
        /\ seeds'[s].at = "done" /\ members' = members
    BY <1>1, <1>5 DEF TextsOf
  <2>3. \A r \in DOMAIN members :
          /\ members[r].hand \in {"link", "cut"} \/ members[r].current = Len(members[r].texts)
          /\ members[r].hand = "link" => Len(members[r].texts) = 1
    BY <1>1, <2>1, OrderlyAlone DEF VersionsInLine
  <2>4. VersionsInLine'
    BY <2>1, <2>2, <2>3 DEF VersionsInLine
  <2> QED BY <2>1, <2>2, <2>4 DEF NoRepeats
<1>12. q.at \notin {"idle", "compare"}
  BY <1>4
<1> QED BY <1>1, <1>4, <1>7, <1>9, <1>11, <1>12, RowsSame, CurrentInside, SeedWorks DEF AtARow

LEMMA ReadLastKeeps == ASSUME SeedInv, NEW s \in Seeds, ReadLast(s) PROVE SeedInv'
<1> DEFINE entry == seeds[s].row
           next == Len(members[entry].texts) + 1
           q == [seeds[s] EXCEPT !.at = "write", !.version = next]
<1>1. /\ Works(s) /\ seeds' = [seeds EXCEPT ![s] = q] /\ UNCHANGED <<members, beside>> /\ seeds[s].at = "last"
  BY SeedFacts DEF ReadLast, Works, Versions
<1>2. entry \in DOMAIN members /\ next \in Nat /\ next \in 1 .. Len(members[entry].texts) + 1
  BY <1>1, SeedFacts DEF SeedSound
<1>4. q \in SeedStates /\ q.at = "write" /\ q.text = seeds[s].text /\ q.row = entry /\ q.version = next
  <2>1. seeds[s] \in SeedStates /\ "write" \in SeedStages /\ next \in Nat
    BY <1>2, SeedFacts DEF SeedStages
  <2> DEFINE P == SUBSET Prompts
  <2>2. SeedStates = [at : SeedStages, text : P, row : Nat, current : Nat, version : Nat]
    BY DEF SeedStates
  <2> HIDE DEF next, P
  <2> QED BY <2>1, <2>2
<1> HIDE DEF q
<1>5. seeds'[s] = q /\ \A t \in Seeds \ {s} : seeds'[t] = seeds[t]
  BY <1>1, SeedFacts
<1>6. TextsOf(s)' = members[entry].texts
  BY <1>1, <1>4, <1>5 DEF TextsOf
<1>7. SeedSound(s)'
  BY <1>1, <1>2, <1>4, <1>5, <1>6, SeedFacts DEF SeedSound
<1>8. ASSUME Orderly
      PROVE  VersionsInLine' /\ NoRepeats'
  <2>1. \A t \in Seeds \ {s} : seeds[t].at \notin {"compare", "last", "write", "link"}
    BY <1>1, <1>8, OrderlyAlone
  <2>2. VersionsInLine /\ NoRepeats
    BY <1>8, InLine
  <2>3. /\ \A r \in DOMAIN members :
             /\ members[r].hand \in {"link", "cut"} \/ members[r].current = Len(members[r].texts)
             /\ members[r].hand = "link" => Len(members[r].texts) = 1
        /\ TextsOf(s) # << >> /\ members[entry].hand # "cut" => {TextsOf(s)[Len(TextsOf(s))]} # seeds[s].text
    BY <1>1, <2>1, <2>2 DEF VersionsInLine
  <2>4. TextsOf(s)' = TextsOf(s) /\ seeds'[s].text = seeds[s].text /\ seeds'[s].at = "write"
    BY <1>4, <1>5, <1>6 DEF TextsOf
  <2>6. \A t \in Seeds : seeds'[t].at \in {"last", "write", "link"} => t = s
    BY <1>5, <2>1
  <2>8. VersionsInLine'
    BY <1>1, <1>4, <1>5, <2>3, <2>4, <2>6 DEF VersionsInLine
  <2> QED BY <1>1, <2>2, <2>8 DEF NoRepeats
<1> QED BY <1>1, <1>4, <1>7, <1>8, RowsSame, CurrentInside, SeedWorks DEF AtARow

LEMMA WriteVersionKeeps == ASSUME SeedInv, NEW s \in Seeds, WriteVersion(s) PROVE SeedInv'
<1> DEFINE entry == seeds[s].row
           version == seeds[s].version
           texts == members[entry].texts
           text == CHOOSE x \in seeds[s].text : TRUE
<1>1. entry \in DOMAIN members /\ version \in 1 .. Len(texts) + 1 /\ Works(s) /\ seeds[s].at = "write"
  BY SeedFacts DEF WriteVersion, SeedSound, TextsOf, Works
<1>2. text \in Prompts /\ seeds[s].text = {text}
  BY <1>1, SeedFacts DEF SeedSound
<1>3. texts \in Seq(Prompts) /\ Len(texts) \in Nat /\ DOMAIN texts = 1 .. Len(texts) /\ members[entry].current \in Nat
  BY <1>1, SeedFacts
<1>4. CASE version > Len(texts)
  <2> DEFINE n == Len(texts) + 1
             longer == Append(texts, text)
             new == [members[entry] EXCEPT !.texts = longer]
             q == [seeds[s] EXCEPT !.at = "link"]
  <2>1. /\ members' = [members EXCEPT ![entry] = new] /\ seeds' = [seeds EXCEPT ![s] = q] /\ UNCHANGED beside
        /\ version = n
    <3>1. version = n
      BY <1>1, <1>3, <1>4
    <3> QED BY <1>1, <1>4, <3>1, SeedFacts DEF WriteVersion, Versions, Goes
  <2>2. /\ longer \in Seq(Prompts) /\ Len(longer) = n /\ longer[n] = text
        /\ \A v \in 1 .. Len(texts) : longer[v] = texts[v]
    <3> HIDE DEF text, texts
    <3> QED BY <1>2, <1>3, AppendProperties
  <2> HIDE DEF longer, text
  <2>3. /\ new \in MemberRows /\ new.texts = longer /\ new.current = members[entry].current
        /\ new.hand = members[entry].hand
    BY <1>1, <2>2, SeedFacts DEF MemberRows
  <2>4. q \in SeedStates /\ q.at = "link" /\ q.text = {text} /\ q.row = entry /\ q.version = n
    <3>1. seeds[s] \in SeedStates /\ "link" \in SeedStages
      BY SeedFacts DEF SeedStages
    <3>2. /\ q \in SeedStates /\ q.at = "link" /\ q.text = seeds[s].text /\ q.row = seeds[s].row
          /\ q.version = seeds[s].version
      BY <3>1, SeedMoves
    <3> HIDE DEF q
    <3> QED BY <1>2, <2>1, <3>2
  <2> HIDE DEF new, q
  <2>5. /\ members' \in Seq(MemberRows) /\ DOMAIN members' = DOMAIN members /\ members'[entry] = new
        /\ \A r \in DOMAIN members \ {entry} : members'[r] = members[r]
    BY <1>1, <2>1, <2>3, SeedFacts
  <2>6. seeds'[s] = q /\ \A t \in Seeds \ {s} : seeds'[t] = seeds[t]
    BY <2>1, SeedFacts
  <2>7. RowsStay
    <3>1. ASSUME NEW r \in DOMAIN members
          PROVE  /\ Len(members'[r].texts) \in Nat /\ Len(members[r].texts) <= Len(members'[r].texts)
                 /\ \A v \in 1 .. Len(members[r].texts) : members'[r].texts[v] = members[r].texts[v]
      <4>1. CASE r = entry
        <5>1. Len(longer) \in Nat /\ Len(texts) <= Len(longer)
          <6>1. Len(longer) = Len(texts) + 1 /\ Len(texts) \in Nat
            BY <1>3, <2>2
          <6> HIDE DEF texts
          <6> QED BY <6>1
        <5> QED BY <4>1, <5>1, <2>2, <2>3, <2>5
      <4>2. CASE r # entry
        BY <4>2, <2>5, SeedFacts
      <4> QED BY <4>1, <4>2
    <3> QED BY <2>5, <3>1 DEF RowsStay
  <2>13. HandsStay
    BY <2>3, <2>5 DEF HandsStay
  <2>8. TextsOf(s)' = longer
    BY <2>3, <2>4, <2>5, <2>6 DEF TextsOf
  <2>9. n \in 1 .. n
    BY <1>3
  <2>10. SeedSound(s)'
    BY <1>1, <1>2, <2>2, <2>4, <2>5, <2>6, <2>8, <2>9 DEF SeedSound
  <2>11. \A r \in DOMAIN members' : members'[r].current <= Len(members'[r].texts)
    <3>1. members[entry].current <= Len(texts)
      BY <1>1, CurrentInside
    <3>2. new.current <= Len(new.texts)
      BY <1>3, <2>2, <2>3, <3>1
    <3> QED BY <2>5, <3>2, CurrentInside
  <2>12. ASSUME Orderly
         PROVE  VersionsInLine' /\ NoRepeats'
    <3>1. \A t \in Seeds \ {s} : seeds[t].at \notin {"compare", "last", "write", "link"}
      BY <1>1, <2>12, OrderlyAlone
    <3>2. VersionsInLine /\ NoRepeats
      BY <2>12, InLine
    <3>3. /\ \A r \in DOMAIN members :
               /\ members[r].hand \in {"link", "cut"} \/ members[r].current = Len(members[r].texts)
               /\ members[r].hand = "link" => Len(members[r].texts) = 1
          /\ texts # << >> /\ members[entry].hand # "cut" => {texts[Len(texts)]} # seeds[s].text
      BY <1>1, <3>1, <3>2 DEF VersionsInLine, TextsOf
    <3>8. members[entry].hand \notin {"prompt", "link"}
      BY <1>1, <2>12, OrderlyRow DEF AtARow
    <3>4. \A t \in Seeds : seeds'[t].at \in {"last", "write", "link"} => t = s
      BY <2>6, <3>1
    <3>5. VersionsInLine'
      <4>1. seeds'[s].at = "link" /\ seeds'[s].row = entry /\ seeds'[s].version = Len(TextsOf(s)')
        BY <2>2, <2>4, <2>6, <2>8
      <4>2. \A r \in DOMAIN members' :
              /\ members'[r].hand \in {"link", "cut"} \/ members'[r].current = Len(members'[r].texts) \/ r = entry
              /\ members'[r].hand = "link" => Len(members'[r].texts) = 1
        BY <2>3, <2>5, <3>3, <3>8
      <4> QED BY <3>4, <4>1, <4>2 DEF VersionsInLine
    <3>6. members[entry].hand # "cut" => NoTwins(longer)
      <4> SUFFICES ASSUME members[entry].hand # "cut", NEW v \in 2 .. n PROVE longer[v] # longer[v - 1]
        BY <2>2 DEF NoTwins
      <4>1. CASE v = n
        <5>1. v - 1 = Len(texts) /\ Len(texts) \in 1 .. Len(texts) /\ texts # << >>
          BY <1>3, <4>1
        <5>2. longer[v - 1] = texts[Len(texts)] /\ longer[v] = text
          BY <2>2, <4>1, <5>1
        <5>3. {texts[Len(texts)]} # {text}
          BY <1>2, <3>3, <5>1
        <5> QED BY <5>2, <5>3
      <4>2. CASE v # n
        <5>1. v \in 2 .. Len(texts) /\ v \in 1 .. Len(texts) /\ v - 1 \in 1 .. Len(texts)
          BY <1>3, <4>2
        <5>2. longer[v] = texts[v] /\ longer[v - 1] = texts[v - 1]
          BY <2>2, <5>1
        <5> QED BY <1>1, <3>2, <5>1, <5>2 DEF NoTwins, NoRepeats
      <4> QED BY <4>1, <4>2
    <3>7. NoRepeats'
      BY <2>3, <2>5, <3>2, <3>6 DEF NoRepeats
    <3> QED BY <3>5, <3>7
  <2> QED BY <1>1, <2>1, <2>4, <2>5, <2>7, <2>10, <2>11, <2>12, <2>13, SeedWorks DEF AtARow
<1>5. CASE ~ version > Len(texts)
  <2> DEFINE q == [seeds[s] EXCEPT !.at = "cut"]
  <2>1. /\ Works(s) /\ seeds' = [seeds EXCEPT ![s] = q] /\ UNCHANGED <<members, beside>>
    BY <1>1, <1>5, SeedFacts DEF WriteVersion, Goes, Versions
  <2>2. SeedCut(s)
    BY <2>1, SeedFacts DEF SeedCut, Goes
  <2> QED BY <2>2, SeedCutKeeps
<1> QED BY <1>4, <1>5

LEMMA LinkVersionKeeps == ASSUME SeedInv, NEW s \in Seeds, LinkVersion(s) PROVE SeedInv'
<1> DEFINE entry == seeds[s].row
           version == seeds[s].version
           texts == members[entry].texts
           new == [members[entry] EXCEPT !.current = version]
           q == [seeds[s] EXCEPT !.at = "done"]
<1>1. /\ entry \in DOMAIN members /\ version \in 1 .. Len(texts) /\ {texts[version]} = seeds[s].text
      /\ Works(s) /\ seeds[s].at = "link"
  BY SeedFacts DEF LinkVersion, SeedSound, TextsOf, Works
<1>2. members' = [members EXCEPT ![entry] = new] /\ seeds' = [seeds EXCEPT ![s] = q] /\ UNCHANGED beside
  BY <1>1, SeedFacts DEF LinkVersion, Goes
<1>3. version \in Nat /\ version # 0 /\ version <= Len(texts) /\ Len(texts) \in Nat
  BY <1>1, SeedFacts
<1>4. new \in MemberRows /\ new.texts = texts /\ new.current = version /\ new.hand = members[entry].hand
  BY <1>1, <1>3, SeedFacts DEF MemberRows
<1>5. q \in SeedStates /\ q.at = "done" /\ q.text = seeds[s].text /\ q.row = entry
  BY SeedFacts, SeedMoves DEF SeedStages
<1> HIDE DEF new, q
<1>6. /\ members' \in Seq(MemberRows) /\ DOMAIN members' = DOMAIN members /\ members'[entry] = new
      /\ \A r \in DOMAIN members \ {entry} : members'[r] = members[r]
  BY <1>1, <1>2, <1>4, SeedFacts
<1>7. seeds'[s] = q /\ \A t \in Seeds \ {s} : seeds'[t] = seeds[t]
  BY <1>2, SeedFacts
<1>8. \A r \in DOMAIN members : members'[r].texts = members[r].texts /\ members'[r].hand = members[r].hand
  BY <1>4, <1>6
<1>9. RowsStay /\ HandsStay
  BY <1>6, <1>8, SeedFacts DEF RowsStay, HandsStay
<1>10. SeedSound(s)'
  BY <1>1, <1>5, <1>6, <1>7, SeedFacts DEF SeedSound
<1>11. \A r \in DOMAIN members' : members'[r].current <= Len(members'[r].texts)
  BY <1>3, <1>4, <1>6, CurrentInside
<1>12. LET r == members'[q.row] IN r.current # 0 /\ {r.texts[r.current]} = q.text
  BY <1>1, <1>3, <1>4, <1>5, <1>6
<1>13. ASSUME Orderly
       PROVE  VersionsInLine' /\ NoRepeats'
  <2>1. \A t \in Seeds \ {s} : seeds[t].at \notin {"compare", "last", "write", "link"}
    BY <1>1, <1>13, OrderlyAlone
  <2>2. VersionsInLine /\ NoRepeats
    BY <1>13, InLine
  <2>3. \A r \in DOMAIN members :
          /\ members[r].hand \in {"link", "cut"} \/ members[r].current = Len(members[r].texts) \/ r = entry
          /\ members[r].hand = "link" => Len(members[r].texts) = 1
    BY <2>1, <2>2 DEF VersionsInLine
  <2>4. version = Len(texts)
    BY <1>1, <2>2 DEF VersionsInLine, TextsOf
  <2>5. \A r \in DOMAIN members' :
          /\ members'[r].hand \in {"link", "cut"} \/ members'[r].current = Len(members'[r].texts)
          /\ members'[r].hand = "link" => Len(members'[r].texts) = 1
    BY <1>4, <1>6, <2>3, <2>4
  <2>6. \A t \in Seeds : seeds'[t].at \notin {"last", "write", "link"}
    BY <1>5, <1>7, <2>1
  <2>7. VersionsInLine'
    BY <2>5, <2>6 DEF VersionsInLine
  <2> QED BY <1>6, <1>8, <2>2, <2>7 DEF NoRepeats
<1> QED BY <1>1, <1>2, <1>5, <1>6, <1>9, <1>10, <1>11, <1>12, <1>13, SeedWorks DEF AtARow

LEMMA UpsertAgentKeeps == ASSUME SeedInv, NEW s \in Seeds, UpsertAgent(s) PROVE SeedInv'
<1>1. PICK text \in Prompts, entry \in IF members = << >> THEN {0} ELSE DOMAIN members :
        /\ seeds' = [seeds EXCEPT ![s] =
             [at |-> IF entry = 0 THEN "create" ELSE "compare", text |-> {text}, row |-> entry,
              current |-> IF entry = 0 THEN 0 ELSE members[entry].current, version |-> 0]]
        /\ beside' = beside \cup Beside(s, entry)
  BY DEF UpsertAgent
<1> DEFINE place == IF entry = 0 THEN "create" ELSE "compare"
           now == IF entry = 0 THEN 0 ELSE members[entry].current
           q == [at |-> place, text |-> {text}, row |-> entry, current |-> now, version |-> 0]
<1>2. /\ place = "create" \/ (place = "compare" /\ entry \in DOMAIN members /\ now = members[entry].current)
      /\ entry \in Nat /\ now \in Nat
  <2>1. entry = 0 \/ (entry \in DOMAIN members /\ entry \in Nat /\ entry # 0 /\ members[entry].current \in Nat)
    BY SeedFacts
  <2> QED BY <2>1
<1>3. q \in SeedStates /\ q.at = place /\ q.text = {text} /\ q.row = entry /\ q.current = now
  <2> HIDE DEF place, now
  <2>1. place \in SeedStages /\ {text} \in SUBSET Prompts
    BY <1>2 DEF SeedStages
  <2> QED BY <1>2, <2>1 DEF SeedStates
<1>4. seeds' = [seeds EXCEPT ![s] = q]
  BY <1>1
<1> HIDE DEF q, place, now
<1>5. seeds' \in [Seeds -> SeedStates] /\ seeds'[s] = q /\ \A t \in Seeds \ {s} : seeds'[t] = seeds[t]
  BY <1>3, <1>4, SeedFacts
<1>6. UNCHANGED members /\ seeds[s].at = "idle" /\ \A t \in Seeds : t < s => seeds[t].at # "idle"
  BY DEF UpsertAgent
<1>7. /\ beside \subseteq beside' /\ beside' \subseteq Seeds
      /\ \A t \in Seeds : Works(t) => s \in beside' /\ t \in beside'
      /\ place = "compare" /\ HalfMade(entry) => s \in beside'
  <2>1. /\ Beside(s, entry) \subseteq Seeds
        /\ \A t \in Seeds : Works(t) => s \in Beside(s, entry) /\ t \in Beside(s, entry)
    BY DEF Beside
  <2>2. entry # 0 /\ HalfMade(entry) => s \in Beside(s, entry)
    BY DEF Beside
  <2>3. place = "compare" => entry # 0
    BY DEF place
  <2> QED BY <1>1, <2>1, <2>2, <2>3 DEF SeedInv
<1>17. HandsSeen'
  <2>1. ASSUME NEW t \in Seeds \ {s}, seeds'[t].at \in AtARow, HalfMade(seeds[t].row)' PROVE t \in beside'
    <3>1. HalfMade(seeds[t].row)
      BY <1>5, <1>6, <2>1 DEF HalfMade
    <3> QED BY <1>5, <1>7, <2>1, <3>1 DEF SeedInv, HandsSeen
  <2>2. ASSUME seeds'[s].at \in AtARow, HalfMade(seeds[s].row)' PROVE s \in beside'
    BY <1>2, <1>3, <1>5, <1>6, <1>7, <2>2 DEF HalfMade, AtARow
  <2> QED BY <1>6, <2>1, <2>2 DEF SeedInv, HandsSeen
<1>8. SeedSound(s)'
  <2>1. place = "compare" => now <= Len(members[entry].texts)
    BY <1>2, CurrentInside
  <2> QED BY <1>2, <1>3, <1>5, <1>6, <2>1 DEF SeedSound, TextsOf
<1>9. \A t \in Seeds : SeedSound(t)'
  BY <1>5, <1>6, <1>8, OthersSound, RowsSame
<1>10. \A t \in Seeds : s < t => seeds[t].at = "idle"
  BY <1>6 DEF SeedInv, InTurn
<1>11. InTurn'
  <2> SUFFICES ASSUME NEW t \in Seeds, NEW u \in Seeds, u < t, seeds'[t].at # "idle"
               PROVE  seeds'[u].at # "idle" /\ (Works(u)' => t \in beside' /\ u \in beside')
    BY DEF InTurn
  <2>1. CASE t = s
    <3>1. u \in Seeds \ {s}
      BY <2>1, SeedFacts
    <3> QED BY <1>5, <1>6, <1>7, <2>1, <3>1 DEF Works
  <2>2. CASE t # s
    <3>1. seeds[t].at # "idle" /\ u # s
      BY <1>5, <1>10, <2>2
    <3> QED BY <1>5, <1>7, <2>2, <3>1 DEF SeedInv, InTurn, Works
  <2> QED BY <2>1, <2>2
<1>12. ReadsHold'
  BY <1>2, <1>3, <1>5, <1>6, <1>7 DEF SeedInv, ReadsHold, Undisturbed
<1>13. ASSUME NEW t \in Seeds, seeds'[t].at = "done", Latest(t)' PROVE FALSE
  <2>1. t # s /\ seeds'[s].at # "idle"
    BY <1>2, <1>3, <1>5, <1>13
  <2>2. s <= t
    BY <1>13, <2>1 DEF Latest
  <2>3. s < t
    BY <2>1, <2>2, SeedFacts
  <2> QED BY <1>5, <1>10, <1>13, <2>1, <2>3
<1>14. Orderly' => Orderly
  BY <1>5, <1>6, <1>7 DEF Orderly, Undisturbed
<1>15. ASSUME Orderly PROVE VersionsInLine' /\ NoRepeats'
  <2>1. VersionsInLine /\ NoRepeats
    BY <1>15, InLine
  <2>2. /\ \A t \in Seeds \ {s} : TextsOf(t)' = TextsOf(t)
        /\ seeds'[s].at \notin {"last", "write", "link"} /\ seeds[s].at \notin {"last", "write", "link"}
    BY <1>2, <1>3, <1>5, <1>6 DEF TextsOf
  <2>3. VersionsInLine'
    BY <1>5, <1>6, <2>1, <2>2 DEF VersionsInLine
  <2> QED BY <1>6, <2>1, <2>3 DEF NoRepeats
<1>16. SeedRefreshes'
  <2>1. \A r \in DOMAIN members' : members'[r].current <= Len(members'[r].texts)
    BY <1>6, CurrentInside
  <2> QED BY <1>13, <1>14, <1>15, <2>1 DEF SeedRefreshes, Orderly, NoTwins, NoRepeats
<1> QED BY <1>5, <1>6, <1>7, <1>9, <1>11, <1>12, <1>14, <1>15, <1>16, <1>17 DEF SeedInv

LEMMA HandCreatesKeeps == ASSUME SeedInv, HandCreates PROVE SeedInv'
<1> DEFINE n == Len(members) + 1
           new == [current |-> 0, texts |-> << >>, hand |-> "prompt"]
<1>1. members' = Append(members, new)
  BY DEF HandCreates
<1>2. UNCHANGED <<seeds, beside>> /\ n \notin DOMAIN members
  BY SeedFacts DEF HandCreates
<1>4. new \in MemberRows /\ new.current = 0 /\ Len(new.texts) = 0 /\ new.hand = "prompt"
  <2>1. << >> \in Seq(Prompts) /\ Len(<< >>) = 0 /\ "prompt" \in Hands
    BY DEF Hands
  <2> QED BY <2>1 DEF MemberRows
<1> HIDE DEF new
<1>5. /\ members' \in Seq(MemberRows) /\ DOMAIN members' = DOMAIN members \cup {n}
      /\ members'[n] = new /\ \A r \in DOMAIN members : members'[r] = members[r]
  <2>1. /\ Append(members, new) \in Seq(MemberRows) /\ Len(Append(members, new)) = n
        /\ Append(members, new)[n] = new
        /\ \A r \in 1 .. Len(members) : Append(members, new)[r] = members[r]
    BY <1>4, SeedFacts, AppendProperties
  <2>2. DOMAIN Append(members, new) = 1 .. n
    BY <2>1
  <2> QED BY <1>1, <2>1, <2>2, SeedFacts
<1>6. RowsStay
  BY <1>5, SeedFacts DEF RowsStay
<1>7. \A t \in Seeds : SeedSound(t)'
  BY <1>2, <1>6, OthersSound
<1>8. \A t \in Seeds : seeds[t].at \in AtARow =>
        /\ seeds[t].row \in DOMAIN members /\ TextsOf(t)' = TextsOf(t)
        /\ members'[seeds[t].row] = members[seeds[t].row]
  <2> SUFFICES ASSUME NEW t \in Seeds, seeds[t].at \in AtARow
               PROVE  /\ seeds[t].row \in DOMAIN members /\ TextsOf(t)' = TextsOf(t)
                      /\ members'[seeds[t].row] = members[seeds[t].row]
    OBVIOUS
  <2>1. seeds[t].row \in DOMAIN members
    BY SeedFacts DEF SeedSound, AtARow
  <2> QED BY <1>2, <1>5, <2>1 DEF TextsOf
<1>9. ReadsHold' /\ InTurn'
  BY <1>2, <1>5, <1>8 DEF SeedInv, ReadsHold, InTurn, Undisturbed, Works, AtARow
<1>13. HandsSeen'
  BY <1>2, <1>4, <1>5, <1>8 DEF SeedInv, HandsSeen, HalfMade
<1>10. ASSUME Orderly PROVE VersionsInLine' /\ NoRepeats'
  <2>1. VersionsInLine /\ NoRepeats
    BY <1>10, InLine
  <2>2. NoTwins(new.texts)
    BY <1>4 DEF NoTwins
  <2>3. VersionsInLine'
    <3>1. \A r \in DOMAIN members' :
            \/ members'[r].hand \in {"link", "cut"} \/ members'[r].current = Len(members'[r].texts)
            \/ \E s \in Seeds : seeds'[s].at = "link" /\ seeds'[s].row = r
      BY <1>2, <1>4, <1>5, <2>1 DEF VersionsInLine
    <3>2. \A r \in DOMAIN members' : members'[r].hand = "link" => Len(members'[r].texts) = 1
      BY <1>4, <1>5, <2>1 DEF VersionsInLine
    <3>3. /\ \A s \in Seeds : seeds'[s].at = "link" => seeds'[s].version = Len(TextsOf(s)')
          /\ \A s \in Seeds :
               seeds'[s].at \in {"last", "write"} /\ TextsOf(s)' # << >> /\ members'[seeds'[s].row].hand # "cut" =>
                 {TextsOf(s)'[Len(TextsOf(s)')]} # seeds'[s].text
      BY <1>2, <1>8, <2>1 DEF VersionsInLine, AtARow
    <3> QED BY <3>1, <3>2, <3>3 DEF VersionsInLine
  <2> QED BY <1>5, <2>1, <2>2, <2>3 DEF NoRepeats
<1>11. SeedRefreshes'
  <2>1. \A r \in DOMAIN members' : members'[r].current <= Len(members'[r].texts)
    <3>1. members'[n].current <= Len(members'[n].texts)
      <4> HIDE DEF n
      <4>1. members'[n] = new /\ new.current = 0 /\ Len(new.texts) = 0
        BY <1>4, <1>5
      <4> QED BY <4>1
    <3> QED BY <1>5, <3>1, CurrentInside
  <2>2. \A s \in Seeds : seeds'[s].at = "done" /\ Latest(s)' /\ Undisturbed(s)' =>
          LET entry == members'[seeds'[s].row]
          IN entry.current # 0 /\ {entry.texts[entry.current]} = seeds'[s].text
    BY <1>2, <1>5, <1>8 DEF SeedInv, SeedRefreshes, Latest, Undisturbed, AtARow
  <2> QED BY <1>2, <1>10, <2>1, <2>2 DEF SeedRefreshes, Orderly, Undisturbed, NoTwins, NoRepeats
<1>12. Orderly' => VersionsInLine'
  BY <1>2, <1>10 DEF Orderly, Undisturbed
<1> QED BY <1>2, <1>5, <1>7, <1>9, <1>11, <1>12, <1>13 DEF SeedInv

(* A write of a hand is to a row half made, where only seeds are that are  *)
(* known to have met one.                                                  *)
LEMMA HandWrites ==
  ASSUME SeedInv, NEW r \in DOMAIN members, HalfMade(r), NEW new \in MemberRows,
         members' = [members EXCEPT ![r] = new], UNCHANGED <<seeds, beside>>,
         Len(members[r].texts) <= Len(new.texts), new.current <= Len(new.texts),
         \A v \in 1 .. Len(members[r].texts) : new.texts[v] = members[r].texts[v],
         new.hand = "link" => members[r].texts = << >> /\ Len(new.texts) = 1,
         new.hand \in {"link", "cut"} \/ (members[r].hand = "link" /\ new.texts = members[r].texts /\ new.current = 1)
  PROVE  SeedInv'
<1>1. /\ members' \in Seq(MemberRows) /\ DOMAIN members' = DOMAIN members /\ members'[r] = new
      /\ \A u \in DOMAIN members \ {r} : members'[u] = members[u]
  BY SeedFacts
<1>2. new.texts \in Seq(Prompts) /\ Len(new.texts) \in Nat /\ members[r].current \in Nat
  <2>1. new.texts \in Seq(Prompts)
    BY DEF MemberRows
  <2> QED BY <2>1, SeedFacts
<1>3. RowsStay
  <2>1. ASSUME NEW u \in DOMAIN members
        PROVE  /\ Len(members'[u].texts) \in Nat /\ Len(members[u].texts) <= Len(members'[u].texts)
               /\ \A v \in 1 .. Len(members[u].texts) : members'[u].texts[v] = members[u].texts[v]
    <3>1. CASE u = r
      BY <1>1, <1>2, <3>1
    <3>2. CASE u # r
      BY <1>1, <3>2, SeedFacts
    <3> QED BY <3>1, <3>2
  <2> QED BY <1>1, <2>1 DEF RowsStay
<1>4. \A t \in Seeds : SeedSound(t)'
  BY <1>3, OthersSound
<1>5. \A t \in Seeds : t \notin beside /\ seeds[t].at \in AtARow =>
        /\ seeds[t].row \in DOMAIN members /\ seeds[t].row # r /\ TextsOf(t)' = TextsOf(t)
        /\ members'[seeds[t].row] = members[seeds[t].row]
  <2> SUFFICES ASSUME NEW t \in Seeds, t \notin beside, seeds[t].at \in AtARow
               PROVE  /\ seeds[t].row \in DOMAIN members /\ seeds[t].row # r /\ TextsOf(t)' = TextsOf(t)
                      /\ members'[seeds[t].row] = members[seeds[t].row]
    OBVIOUS
  <2>1. seeds[t].row \in DOMAIN members
    BY SeedFacts DEF SeedSound, AtARow
  <2>2. ~ HalfMade(seeds[t].row)
    BY DEF SeedInv, HandsSeen
  <2>3. seeds[t].row # r
    BY <2>2
  <2> QED BY <1>1, <2>1, <2>3 DEF TextsOf
<1>6. ReadsHold' /\ InTurn'
  <2>1. ReadsHold'
    BY <1>5 DEF SeedInv, ReadsHold, Undisturbed, AtARow
  <2> QED BY <2>1 DEF SeedInv, InTurn, Works
<1>7. HandsSeen'
  <2>1. \A u \in DOMAIN members' : members'[u].hand = "link" => 1 <= Len(members'[u].texts)
    BY <1>1 DEF SeedInv, HandsSeen
  <2>2. ASSUME NEW t \in Seeds, seeds[t].at \in AtARow, HalfMade(seeds[t].row)' PROVE t \in beside
    <3> SUFFICES ASSUME t \notin beside PROVE FALSE
      OBVIOUS
    <3>1. HalfMade(seeds[t].row)
      BY <1>5, <2>2 DEF HalfMade
    <3> QED BY <2>2, <3>1 DEF SeedInv, HandsSeen
  <2> QED BY <2>1, <2>2 DEF HandsSeen
<1>8. ASSUME Orderly PROVE VersionsInLine' /\ NoRepeats'
  <2>1. VersionsInLine /\ NoRepeats
    BY <1>8, InLine
  <2>2. \A t \in Seeds : t \notin beside
    BY <1>8 DEF Orderly, Undisturbed
  <2>3. members[r].hand = "link" => Len(members[r].texts) = 1
    BY <2>1 DEF VersionsInLine
  <2>4. new.hand \in {"link", "cut"} \/ new.current = Len(new.texts)
    BY <2>3
  <2>5. \A u \in DOMAIN members' :
          \/ members'[u].hand \in {"link", "cut"} \/ members'[u].current = Len(members'[u].texts)
          \/ \E s \in Seeds : seeds'[s].at = "link" /\ seeds'[s].row = u
    BY <1>1, <2>1, <2>4 DEF VersionsInLine
  <2>6. \A u \in DOMAIN members' : members'[u].hand = "link" => Len(members'[u].texts) = 1
    BY <1>1, <2>1 DEF VersionsInLine
  <2>7. /\ \A s \in Seeds : seeds'[s].at = "link" => seeds'[s].version = Len(TextsOf(s)')
        /\ \A s \in Seeds :
             seeds'[s].at \in {"last", "write"} /\ TextsOf(s)' # << >> /\ members'[seeds'[s].row].hand # "cut" =>
               {TextsOf(s)'[Len(TextsOf(s)')]} # seeds'[s].text
    BY <1>5, <2>1, <2>2 DEF VersionsInLine, AtARow
  <2>8. new.hand # "cut" => NoTwins(new.texts)
    <3>1. new.hand = "link" => NoTwins(new.texts)
      BY DEF NoTwins
    <3>2. members[r].hand = "link" /\ new.texts = members[r].texts => NoTwins(new.texts)
      BY <2>1 DEF NoRepeats
    <3> QED BY <3>1, <3>2
  <2> QED BY <1>1, <2>1, <2>5, <2>6, <2>7, <2>8 DEF VersionsInLine, NoRepeats
<1>9. SeedRefreshes'
  <2>1. \A u \in DOMAIN members' : members'[u].current <= Len(members'[u].texts)
    BY <1>1, CurrentInside
  <2>2. \A s \in Seeds : seeds'[s].at = "done" /\ Latest(s)' /\ Undisturbed(s)' =>
          LET entry == members'[seeds'[s].row]
          IN entry.current # 0 /\ {entry.texts[entry.current]} = seeds'[s].text
    BY <1>5 DEF SeedInv, SeedRefreshes, Latest, Undisturbed, AtARow
  <2> QED BY <1>8, <2>1, <2>2 DEF SeedRefreshes, Orderly, Undisturbed, NoTwins, NoRepeats
<1>10. Orderly' => VersionsInLine'
  BY <1>8 DEF Orderly, Undisturbed
<1> QED BY <1>1, <1>4, <1>6, <1>7, <1>9, <1>10 DEF SeedInv

LEMMA HandCutKeeps == ASSUME SeedInv, NEW r \in DOMAIN members, HandCut(r) PROVE SeedInv'
<1> DEFINE new == [members[r] EXCEPT !.hand = "cut"]
<1>1. members' = [members EXCEPT ![r] = new] /\ UNCHANGED <<seeds, beside>> /\ HalfMade(r)
  BY SeedFacts DEF HandCut
<1>2. new \in MemberRows /\ new.texts = members[r].texts /\ new.hand = "cut" /\ new.current = members[r].current
  BY SeedFacts DEF MemberRows, Hands
<1> HIDE DEF new
<1>3. /\ Len(members[r].texts) <= Len(new.texts) /\ new.current <= Len(new.texts)
      /\ \A v \in 1 .. Len(members[r].texts) : new.texts[v] = members[r].texts[v]
      /\ new.hand = "link" => members[r].texts = << >> /\ Len(new.texts) = 1
      /\ new.hand \in {"link", "cut"} \/ (members[r].hand = "link" /\ new.texts = members[r].texts /\ new.current = 1)
  BY <1>2, CurrentInside, SeedFacts
<1> QED BY <1>1, <1>2, <1>3, HandWrites

LEMMA HandPromptsKeeps == ASSUME SeedInv, NEW r \in DOMAIN members, HandPrompts(r) PROVE SeedInv'
<1>1. HalfMade(r) /\ UNCHANGED <<seeds, beside>> /\ members[r].current <= Len(members[r].texts)
  BY CurrentInside DEF HandPrompts, HalfMade
<1>2. ASSUME NEW text \in Prompts, Versions(r) = << >>, members' = [members EXCEPT ![r].texts = <<text>>, ![r].hand = "link"]
      PROVE  SeedInv'
  <2> DEFINE new == [members[r] EXCEPT !.texts = <<text>>, !.hand = "link"]
  <2>1. members' = [members EXCEPT ![r] = new]
    BY <1>2, SeedFacts
  <2>2. <<text>> \in Seq(Prompts) /\ Len(<<text>>) = 1 /\ Len(<< >>) = 0 /\ "link" \in Hands
    BY DEF Hands
  <2>3. new \in MemberRows /\ new.texts = <<text>> /\ new.hand = "link" /\ new.current = members[r].current
    BY <2>2, SeedFacts DEF MemberRows
  <2> HIDE DEF new
  <2>4. members[r].texts = << >> /\ members[r].current \in Nat
    BY <1>2, SeedFacts DEF Versions
  <2>5. Len(members[r].texts) = 0 /\ new.current <= Len(new.texts)
    BY <1>1, <2>2, <2>3, <2>4
  <2>6. /\ Len(members[r].texts) <= Len(new.texts)
        /\ \A v \in 1 .. Len(members[r].texts) : new.texts[v] = members[r].texts[v]
        /\ new.hand = "link" => members[r].texts = << >> /\ Len(new.texts) = 1
        /\ new.hand \in {"link", "cut"} \/ (members[r].hand = "link" /\ new.texts = members[r].texts /\ new.current = 1)
    BY <2>2, <2>3, <2>4, <2>5
  <2> QED BY <1>1, <2>1, <2>3, <2>5, <2>6, HandWrites
<1>3. ASSUME members' = [members EXCEPT ![r].hand = "cut"] PROVE SeedInv'
  <2>1. HandCut(r)
    BY <1>1, <1>3 DEF HandCut
  <2> QED BY <2>1, HandCutKeeps
<1> QED BY <1>2, <1>3 DEF HandPrompts

LEMMA HandLinksKeeps == ASSUME SeedInv, NEW r \in DOMAIN members, HandLinks(r) PROVE SeedInv'
<1> DEFINE new == [members[r] EXCEPT !.current = 1, !.hand = "made"]
<1>1. members' = [members EXCEPT ![r] = new] /\ UNCHANGED <<seeds, beside>> /\ HalfMade(r) /\ members[r].hand = "link"
  BY SeedFacts DEF HandLinks, HalfMade
<1>2. new \in MemberRows /\ new.texts = members[r].texts /\ new.hand = "made" /\ new.current = 1
  BY SeedFacts DEF MemberRows, Hands
<1> HIDE DEF new
<1>3. 1 <= Len(members[r].texts) /\ Len(members[r].texts) \in Nat
  BY <1>1, SeedFacts DEF SeedInv, HandsSeen
<1>4. /\ Len(members[r].texts) <= Len(new.texts) /\ new.current <= Len(new.texts)
      /\ \A v \in 1 .. Len(members[r].texts) : new.texts[v] = members[r].texts[v]
      /\ new.hand = "link" => members[r].texts = << >> /\ Len(new.texts) = 1
      /\ new.hand \in {"link", "cut"} \/ (members[r].hand = "link" /\ new.texts = members[r].texts /\ new.current = 1)
  BY <1>1, <1>2, <1>3
<1> QED BY <1>1, <1>2, <1>4, HandWrites

LEMMA SeedBegins == SeedInit => SeedInv
<1> SUFFICES ASSUME SeedInit PROVE SeedInv
  OBVIOUS
<1>1. << >> \in Seq(MemberRows) /\ DOMAIN << >> = {}
  OBVIOUS
<1>2. Unrun \in SeedStates /\ Unrun.at = "idle"
  BY DEF Unrun, SeedStates, SeedStages
<1>3. seeds \in [Seeds -> SeedStates] /\ (\A s \in Seeds : seeds[s].at = "idle") /\ members = << >> /\ beside = {}
  BY <1>2 DEF SeedInit
<1>4. \A s \in Seeds : SeedSound(s)
  BY <1>3 DEF SeedSound
<1>5. InTurn /\ ReadsHold /\ HandsSeen /\ VersionsInLine /\ SeedRefreshes
  BY <1>1, <1>3 DEF InTurn, ReadsHold, HandsSeen, VersionsInLine, SeedRefreshes, AtARow
<1> QED BY <1>1, <1>3, <1>4, <1>5 DEF SeedInv

LEMMA SeedKept == SeedInv /\ [SeedNext]_seedVars => SeedInv'
<1> SUFFICES ASSUME SeedInv, [SeedNext]_seedVars PROVE SeedInv'
  OBVIOUS
<1>1. CASE UNCHANGED seedVars
  <2>1. UNCHANGED <<members, seeds, beside>>
    BY <1>1 DEF seedVars
  <2>2. \A s \in Seeds : SeedSound(s)'
    BY <2>1, RowsSame, OthersSound
  <2>3. InTurn' /\ ReadsHold' /\ HandsSeen'
    BY <2>1 DEF SeedInv, InTurn, ReadsHold, HandsSeen, HalfMade, Undisturbed, Works
  <2>4. Orderly' => VersionsInLine'
    BY <2>1 DEF SeedInv, Orderly, VersionsInLine, TextsOf, Undisturbed
  <2>5. SeedRefreshes'
    BY <2>1 DEF SeedInv, SeedRefreshes, Latest, Undisturbed
  <2> QED BY <2>1, <2>2, <2>3, <2>4, <2>5 DEF SeedInv
<1> QED BY <1>1, UpsertAgentKeeps, CreateMissingKeeps, ComparePromptKeeps, ReadLastKeeps, WriteVersionKeeps,
           LinkVersionKeeps, SeedCutKeeps, HandCreatesKeeps, HandPromptsKeeps, HandLinksKeeps, HandCutKeeps DEF SeedNext

(* The last seed, if it went through and nobody was at work beside it (no  *)
(* seed, no hand between the writes that make the row), has left the row   *)
(* it found or made with its text as the current prompt, however the seeds *)
(* before it were cut; the current version exists; and seeds that follow   *)
(* each other never write the current text anew, except where a hand was   *)
(* cut before its link: for any number of seeds, hands and texts.          *)
THEOREM SeedsRefreshThePrompt == SeedSpec => []SeedRefreshes
<1>1. SeedInv => SeedRefreshes
  BY DEF SeedInv
<1> QED BY <1>1, SeedBegins, SeedKept, PTL DEF SeedSpec

-----------------------------------------------------------------------------
(* The panel: which task its polls, its result and its stream are about.   *)

PanelSpec == PanelInit /\ [][PanelNext]_panelVars

AtMostOne == {{}} \cup {{t} : t \in Tasks}
Panels ==
  [phase : {"none", "running"} \cup Over, of : SUBSET Tasks, result : SUBSET Tasks, go : BOOLEAN]
Streams == [of : AtMostOne, live : BOOLEAN, event : {"none"} \cup Over]

(* A poll is about a task there is, and says how it ended only if it did.  *)
SoundPoll(p) ==
  /\ p = Poll(p.id, p.of, p.got) /\ p.of \in Tasks
  /\ p.got \in {"asked", "error", "lost", "timer", "running"} \cup Over
  /\ status[p.of] # "none"
  /\ p.got \in Over => status[p.of] = p.got

(* Everything there is is about the task last asked for.                   *)
AllAbout(t) == (\A p \in polls : p.of = t) /\ panel.result \subseteq {t} /\ stream.of \subseteq {t}

PanelInv ==
  /\ status \in [Tasks -> {"none", "running"} \cup Over]
  /\ post \in AtMostOne /\ \A t \in post : status[t] = "none"
  /\ stored \in AtMostOne /\ wanted \in AtMostOne
  /\ \A t \in stored \cup wanted : status[t] # "none"
  /\ panel \in Panels /\ stream \in Streams /\ (stream.event # "none" => stream.of # {})
  /\ \A p \in polls : SoundPoll(p)
  /\ clean => \A t \in wanted : AllAbout(t)
  /\ PanelFollows

LEMMA PollIs ==
  ASSUME NEW id, NEW t, NEW got
  PROVE  /\ Poll(id, t, got).id = id /\ Poll(id, t, got).of = t /\ Poll(id, t, got).got = got
BY DEF Poll

(* A poll moves on: what it is about stays.                                *)
LEMMA PollMoves ==
  ASSUME PanelInv, NEW p \in polls, NEW got
  PROVE  [p EXCEPT !.got = got] = Poll(p.id, p.of, got)
<1>1. p = [id |-> p.id, of |-> p.of, got |-> p.got]
  BY DEF PanelInv, SoundPoll, Poll
<1> QED BY <1>1 DEF Poll

LEMMA ClearedIsLess == ASSUME NEW ps PROVE Cleared(ps) \subseteq ps
BY DEF Cleared

(* A task is asked for: its poll, and what is left of the others.          *)
LEMMA AskedFor ==
  ASSUME PanelInv, NEW t \in Tasks, PollTeam(t), status' \in [Tasks -> {"none", "running"} \cup Over],
         \A u \in Tasks : status[u] # "none" => status'[u] = status[u], status'[t] # "none"
  PROVE  /\ \A p \in polls' : SoundPoll(p)'
         /\ wanted' = {t} /\ stored' = {t} /\ wanted' \in AtMostOne
         /\ \E p \in polls' : p.of = t
         /\ (\A p \in Cleared(polls) : p.of = t) => \A p \in polls' : p.of = t
<1>1. PICK id : polls' = Cleared(polls) \cup {Poll(id, t, "asked")}
  BY DEF PollTeam
<1>2. wanted' = {t} /\ stored' = {t}
  BY DEF PollTeam
<1>3. \A p \in polls : SoundPoll(p)'
  BY DEF PanelInv, SoundPoll
<1>4. SoundPoll(Poll(id, t, "asked"))'
  BY PollIs DEF SoundPoll, Over
<1> QED BY <1>1, <1>2, <1>3, <1>4, PollIs, ClearedIsLess DEF AtMostOne

LEMMA SubmitKeeps == ASSUME PanelInv, NEW t \in Tasks, Submit(t) PROVE PanelInv'
<1>1. panel' \in Panels /\ stream' \in Streams /\ stream'.event = "none"
  BY DEF Submit, Fresh, Closed, Panels, Streams, AtMostOne
<1>2. post' \in AtMostOne /\ wanted' = {} /\ wanted' \in AtMostOne
  BY DEF Submit, AtMostOne
<1>3. \A p \in polls' : SoundPoll(p)'
  BY DEF Submit, PanelInv, SoundPoll
<1> QED BY <1>1, <1>2, <1>3 DEF Submit, PanelInv, PanelFollows

LEMMA AcceptedKeeps == ASSUME PanelInv, NEW t \in Tasks, Accepted(t) PROVE PanelInv'
<1>1. /\ status' \in [Tasks -> {"none", "running"} \cup Over] /\ status'[t] = "running"
      /\ \A u \in Tasks : status[u] # "none" => status'[u] = status[u]
      /\ post' = {} /\ post' \in AtMostOne /\ panel' = panel
  BY DEF Accepted, PanelInv, AtMostOne
<1>2. stream' \in Streams /\ stream'.event = "none" /\ stream'.of = {t}
  BY DEF Accepted, Closed, Streams, AtMostOne
<1>3. /\ \A p \in polls' : SoundPoll(p)'
      /\ wanted' = {t} /\ stored' = {t} /\ wanted' \in AtMostOne
      /\ \E p \in polls' : p.of = t
      /\ (\A p \in Cleared(polls) : p.of = t) => \A p \in polls' : p.of = t
  BY <1>1, AskedFor DEF Accepted
<1>4. clean' => (\A p \in Cleared(polls) : p.of = t) /\ panel.result \subseteq {t}
  BY DEF Accepted, Alone
<1>5. clean' => AllAbout(t)'
  BY <1>1, <1>2, <1>3, <1>4 DEF AllAbout
<1> QED BY <1>1, <1>2, <1>3, <1>5 DEF PanelInv, PanelFollows

LEMMA OpenTaskKeeps == ASSUME PanelInv, NEW t \in Tasks, OpenTask(t) PROVE PanelInv'
<1>1. UNCHANGED <<status, post, panel, stream>> /\ status[t] # "none"
  BY DEF OpenTask
<1>3. /\ \A p \in polls' : SoundPoll(p)'
      /\ wanted' = {t} /\ stored' = {t} /\ wanted' \in AtMostOne
      /\ \E p \in polls' : p.of = t
      /\ (\A p \in Cleared(polls) : p.of = t) => \A p \in polls' : p.of = t
  BY <1>1, AskedFor DEF OpenTask, PanelInv
<1>4. clean' => (\A p \in Cleared(polls) : p.of = t) /\ panel.result \subseteq {t} /\ stream.of \subseteq {t}
  BY DEF OpenTask, Alone
<1>5. clean' => AllAbout(t)'
  BY <1>1, <1>3, <1>4 DEF AllAbout
<1> QED BY <1>1, <1>3, <1>5 DEF PanelInv, PanelFollows

LEMMA RefusedKeeps == ASSUME PanelInv, Refused PROVE PanelInv'
<1>1. PICK strayed \in BOOLEAN : panel' = [panel EXCEPT !.go = ~ strayed]
  BY DEF Refused
<1>2. /\ panel' \in Panels /\ panel'.phase = panel.phase /\ panel'.of = panel.of
      /\ panel'.result = panel.result
  BY <1>1 DEF PanelInv, Panels
<1>3. post' = {} /\ post' \in AtMostOne /\ UNCHANGED <<status, stored, wanted, polls, timer, stream, clean>>
  BY DEF Refused, AtMostOne
<1>4. \A p \in polls' : SoundPoll(p)'
  BY <1>3 DEF PanelInv, SoundPoll
<1>5. clean' => \A t \in wanted' : AllAbout(t)'
  BY <1>2, <1>3 DEF PanelInv, AllAbout
<1>6. PanelFollows'
  BY <1>2, <1>3 DEF PanelInv, PanelFollows
<1> QED BY <1>2, <1>3, <1>4, <1>5, <1>6 DEF PanelInv

LEMMA ReloadKeeps == ASSUME PanelInv, Reload PROVE PanelInv'
<1>1. /\ status' \in [Tasks -> {"none", "running"} \cup Over]
      /\ \A u \in Tasks : status[u] # "none" => status'[u] = status[u]
  BY DEF Reload, PanelInv, AtMostOne
<1>2. panel' \in Panels /\ panel'.result = {} /\ stream' \in Streams /\ stream'.event = "none" /\ stream'.of = {}
  BY DEF Reload, Fresh, Closed, Panels, Streams, AtMostOne
<1>3. /\ post' = {} /\ post' \in AtMostOne /\ wanted' = stored /\ stored' = stored
      /\ polls' = {Poll(1, t, "asked") : t \in stored}
  BY DEF Reload, AtMostOne
<1>4. stored \subseteq Tasks /\ \A t, u \in stored : t = u
  BY DEF PanelInv, AtMostOne
<1>5. \A t \in stored : status'[t] # "none"
  BY <1>1, <1>4 DEF PanelInv
<1>6. \A p \in polls' : SoundPoll(p)'
  <2> SUFFICES ASSUME NEW t \in stored PROVE SoundPoll(Poll(1, t, "asked"))'
    BY <1>3
  <2> QED BY <1>4, <1>5, PollIs DEF SoundPoll, Over
<1>7. \A t \in stored : AllAbout(t)' /\ \E p \in polls' : p.of = t
  BY <1>2, <1>3, <1>4, PollIs DEF AllAbout
<1> QED BY <1>1, <1>2, <1>3, <1>5, <1>6, <1>7 DEF PanelInv, PanelFollows

(* A poll is answered, asked again, or waits: it is still there.           *)
LEMMA PollGoesOnKeeps ==
  ASSUME PanelInv, NEW p \in polls, NEW got, NEW rest, rest \subseteq polls,
         polls' = rest \cup {Poll(p.id, p.of, got)}, UNCHANGED <<status, post, stored, wanted, stream, clean>>,
         got \in {"asked", "error", "lost", "timer", "running"} \cup Over,
         got \in Over => status[p.of] = got,
         panel' \in Panels, panel'.result \subseteq panel.result \cup {p.of},
         \/ panel' = panel /\ polls \subseteq rest \cup {p}
         \/ clean => \A t \in wanted : \A x \in polls : x.of = t
  PROVE  PanelInv'
<1> DEFINE q == Poll(p.id, p.of, got)
<1>1. q.id = p.id /\ q.of = p.of /\ q.got = got
  BY PollIs
<1>2. SoundPoll(q)'
  BY <1>1 DEF PanelInv, SoundPoll
<1> HIDE DEF q
<1>3. polls' = rest \cup {q}
  BY DEF q
<1>4. \A x \in polls' : SoundPoll(x)'
  BY <1>2, <1>3 DEF PanelInv, SoundPoll
<1>5. ASSUME clean, NEW t \in wanted PROVE AllAbout(t)' /\ \E x \in polls' : x.of = t
  <2>1. AllAbout(t)
    BY <1>5 DEF PanelInv
  <2> QED BY <1>1, <1>3, <2>1 DEF AllAbout
<1>6. PanelFollows'
  BY <1>5 DEF PanelFollows
<1> QED BY <1>4, <1>5, <1>6 DEF PanelInv

LEMMA PollAnsweredKeeps == ASSUME PanelInv, NEW p \in polls, PollAnswered(p) PROVE PanelInv'
<1>1. PICK got \in {status[p.of], "error", "lost"} : polls' = (polls \ {p}) \cup {[p EXCEPT !.got = got]}
  BY DEF PollAnswered
<1>2. polls' = (polls \ {p}) \cup {Poll(p.id, p.of, got)}
  BY <1>1, PollMoves
<1>3. SoundPoll(p) /\ status[p.of] \in {"none", "running"} \cup Over
  BY DEF PanelInv, SoundPoll
<1>4. /\ got \in {"asked", "error", "lost", "timer", "running"} \cup Over
      /\ got \in Over => status[p.of] = got
  BY <1>1, <1>3 DEF SoundPoll, Over
<1>5. panel' \in Panels /\ panel' = panel
  BY DEF PollAnswered, PanelInv
<1>6. UNCHANGED <<status, post, stored, wanted, stream, clean>>
  BY DEF PollAnswered
<1>7. polls \ {p} \subseteq polls /\ polls \subseteq (polls \ {p}) \cup {p}
  OBVIOUS
<1> QED BY <1>2, <1>4, <1>5, <1>6, <1>7, PollGoesOnKeeps

LEMMA PollLostKeeps == ASSUME PanelInv, NEW p \in polls, PollLost(p) PROVE PanelInv'
<1>1. polls' = (polls \ {p}) \cup {Poll(p.id, p.of, "timer")}
  BY PollMoves DEF PollLost, Rearmed
<1>2. "timer" \in {"asked", "error", "lost", "timer", "running"} \cup Over /\ "timer" \notin Over
  BY DEF Over
<1>3. panel' \in Panels /\ panel' = panel
  BY DEF PollLost, PanelInv
<1>4. UNCHANGED <<status, post, stored, wanted, stream, clean>>
  BY DEF PollLost
<1>5. polls \ {p} \subseteq polls /\ polls \subseteq (polls \ {p}) \cup {p}
  OBVIOUS
<1> QED BY <1>1, <1>2, <1>3, <1>4, <1>5, PollGoesOnKeeps

LEMMA TimerFiresKeeps == ASSUME PanelInv, NEW p \in polls, TimerFires(p) PROVE PanelInv'
<1>1. polls' = (Cleared(polls) \ {p}) \cup {Poll(p.id, p.of, "asked")} /\ Cleared(polls) \ {p} \subseteq polls
  BY PollMoves, ClearedIsLess DEF TimerFires
<1>2. "asked" \in {"asked", "error", "lost", "timer", "running"} \cup Over /\ "asked" \notin Over
  BY DEF Over
<1>3. panel' \in Panels /\ panel' = panel
  BY DEF TimerFires, PanelInv
<1>4. UNCHANGED <<status, post, stored, wanted, stream, clean>>
  BY DEF TimerFires
<1>5. clean => \A t \in wanted : \A x \in polls : x.of = t
  BY DEF PanelInv, AllAbout
<1> QED BY <1>1, <1>2, <1>3, <1>4, <1>5, PollGoesOnKeeps

LEMMA PollRejectedKeeps == ASSUME PanelInv, NEW p \in polls, PollRejected(p) PROVE PanelInv'
<1>1. polls' = polls \ {p} /\ UNCHANGED <<status, post, stored, wanted, panel, timer, stream>>
  BY DEF PollRejected
<1>2. \A x \in polls' : SoundPoll(x)'
  BY <1>1 DEF PanelInv, SoundPoll
<1>3. clean' => wanted = {}
  <2> SUFFICES ASSUME clean, {p.of} # wanted PROVE wanted = {}
    BY DEF PollRejected
  <2>1. \A t \in wanted : p.of = t
    BY DEF PanelInv, AllAbout
  <2> QED BY <2>1 DEF PanelInv, AtMostOne
<1> QED BY <1>1, <1>2, <1>3 DEF PanelInv, PanelFollows

LEMMA PollShownKeeps == ASSUME PanelInv, NEW p \in polls, PollShown(p) PROVE PanelInv'
<1> DEFINE shows == IF p.got = "succeeded" /\ panel.result = {} THEN {p.of} ELSE panel.result
<1>1. /\ p.got \in {"running"} \cup Over
      /\ panel' = [panel EXCEPT !.phase = p.got, !.of = {p.of}, !.result = shows]
      /\ UNCHANGED <<status, post, stored, wanted, stream, clean>>
  BY DEF PollShown
<1>2. SoundPoll(p) /\ panel.result \subseteq Tasks
  BY DEF PanelInv, Panels
<1>3. shows \subseteq Tasks /\ {p.of} \subseteq Tasks /\ shows \subseteq panel.result \cup {p.of}
  BY <1>2 DEF SoundPoll
<1>4. panel' \in Panels /\ panel'.phase = p.got /\ panel'.of = {p.of} /\ panel'.result = shows
  <2> HIDE DEF shows
  <2>1. shows \in SUBSET Tasks /\ {p.of} \in SUBSET Tasks
    BY <1>3
  <2>2. p.got \in {"none", "running"} \cup Over
    BY <1>1
  <2> QED BY <1>1, <2>1, <2>2 DEF PanelInv, Panels
<1>5. clean => \A t \in wanted : \A x \in polls : x.of = t
  BY DEF PanelInv, AllAbout
<1>6. CASE p.got = "running"
  <2>1. polls' = (polls \ {p}) \cup {Poll(p.id, p.of, "timer")}
    BY <1>6, PollMoves DEF PollShown, Rearmed
  <2>2. "timer" \in {"asked", "error", "lost", "timer", "running"} \cup Over /\ "timer" \notin Over
    BY DEF Over
  <2>3. polls \ {p} \subseteq polls /\ panel'.result \subseteq panel.result \cup {p.of}
    BY <1>3, <1>4
  <2> QED BY <1>1, <1>4, <1>5, <2>1, <2>2, <2>3, PollGoesOnKeeps
<1>7. CASE p.got # "running"
  <2>1. polls' = polls \ {p} /\ p.got \in Over
    BY <1>1, <1>7 DEF PollShown
  <2>2. \A x \in polls' : SoundPoll(x)'
    BY <1>1, <2>1 DEF PanelInv, SoundPoll
  <2>3. ASSUME clean, NEW t \in wanted
        PROVE  /\ AllAbout(t)' /\ status[t] \in Over /\ panel'.phase = status[t] /\ panel'.of = {t}
               /\ status[t] = "succeeded" => panel'.result = {t}
    <3>1. AllAbout(t) /\ p.of = t
      BY <1>5, <2>3 DEF PanelInv
    <3>2. status[t] = p.got
      BY <1>2, <2>1, <3>1 DEF SoundPoll
    <3>3. AllAbout(t)'
      BY <1>1, <1>3, <1>4, <2>1, <3>1 DEF AllAbout
    <3>4. panel.result \subseteq {t}
      BY <3>1 DEF AllAbout
    <3>5. p.got = "succeeded" => shows = {t}
      BY <3>1, <3>4
    <3> QED BY <1>4, <2>1, <3>1, <3>2, <3>3, <3>5
  <2>4. PanelFollows'
    BY <1>1, <2>3 DEF PanelFollows
  <2> QED BY <1>1, <1>4, <2>2, <2>3, <2>4 DEF PanelInv
<1> QED BY <1>6, <1>7

(* The stream opens, drops, or hears of an end.                            *)
LEMMA StreamMoves ==
  ASSUME PanelInv, stream' \in Streams, stream'.of = stream.of, stream'.event # "none" => stream.of # {},
         UNCHANGED <<post, stored, wanted, panel, polls, timer, clean>>,
         status' \in [Tasks -> {"none", "running"} \cup Over],
         \A t \in Tasks : (status[t] = "none" <=> status'[t] = "none")
                         /\ (status[t] \in Over => status'[t] = status[t])
  PROVE  PanelInv'
<1>1. post \subseteq Tasks /\ stored \subseteq Tasks /\ wanted \subseteq Tasks
  BY DEF PanelInv, AtMostOne
<1>2. \A p \in polls' : SoundPoll(p)'
  BY DEF PanelInv, SoundPoll
<1>3. clean => \A t \in wanted : AllAbout(t)'
  BY DEF PanelInv, AllAbout
<1>4. PanelFollows'
  BY <1>1 DEF PanelInv, PanelFollows
<1> QED BY <1>1, <1>2, <1>3, <1>4 DEF PanelInv

LEMMA StreamKeeps ==
  ASSUME PanelInv, StreamOpens \/ StreamDrops \/ \E t \in Tasks : TaskEnds(t)
  PROVE  PanelInv'
<1>1. ASSUME NEW live \in BOOLEAN PROVE [stream EXCEPT !.live = live] \in Streams
  BY DEF PanelInv, Streams
<1>2. CASE StreamOpens \/ StreamDrops
  <2>1. PICK live \in BOOLEAN : stream' = [stream EXCEPT !.live = live]
    BY <1>2 DEF StreamOpens, StreamDrops
  <2>2. stream' \in Streams /\ stream'.of = stream.of /\ stream'.event = stream.event
    BY <1>1, <2>1 DEF PanelInv, Streams
  <2>3. UNCHANGED <<status, post, stored, wanted, panel, polls, timer, clean>>
    BY <1>2 DEF StreamOpens, StreamDrops
  <2> QED BY <2>2, <2>3, StreamMoves DEF PanelInv
<1>3. ASSUME NEW t \in Tasks, TaskEnds(t) PROVE PanelInv'
  <2>1. PICK s \in Over :
          /\ status' = [status EXCEPT ![t] = s]
          /\ stream' = IF t \in stream.of /\ stream.live THEN [stream EXCEPT !.event = s] ELSE stream
    BY <1>3 DEF TaskEnds
  <2>2. stream' \in Streams /\ stream'.of = stream.of /\ (stream'.event # "none" => stream.of # {})
    BY <2>1 DEF PanelInv, Streams
  <2>3. /\ status[t] = "running" /\ UNCHANGED <<post, stored, wanted, panel, polls, timer, clean>>
        /\ s \notin {"none", "running"}
    BY <1>3 DEF TaskEnds, Over
  <2>4. /\ status' \in [Tasks -> {"none", "running"} \cup Over]
        /\ \A u \in Tasks : (status[u] = "none" <=> status'[u] = "none")
                            /\ (status[u] \in Over => status'[u] = status[u])
    BY <2>1, <2>3 DEF PanelInv, Over
  <2> QED BY <2>2, <2>3, <2>4, StreamMoves
<1> QED BY <1>2, <1>3

LEMMA EventArrivesKeeps == ASSUME PanelInv, EventArrives PROVE PanelInv'
<1>1. UNCHANGED <<status, post, stored, wanted, polls, timer, clean>> /\ stream.event # "none"
  BY DEF EventArrives
<1>2. stream.of \in AtMostOne /\ stream.of # {} /\ stream.of \in SUBSET Tasks
  BY <1>1 DEF PanelInv, Streams, AtMostOne
<1>3. \A p \in polls' : SoundPoll(p)'
  BY <1>1 DEF PanelInv, SoundPoll
<1>4. CASE stream' = Closed
  <2> DEFINE shows == IF stream.event = "succeeded" THEN stream.of ELSE panel.result
  <2>1. panel' = [panel EXCEPT !.go = TRUE, !.result = shows]
    BY <1>2, <1>4 DEF EventArrives, Closed, Streams, PanelInv
  <2>2. shows \in SUBSET Tasks
    BY <1>2 DEF PanelInv, Panels
  <2>3. stream' \in Streams /\ stream'.event = "none" /\ stream'.of = {}
    BY <1>4 DEF Closed, Streams, AtMostOne
  <2>4. ASSUME clean, NEW t \in wanted PROVE shows \subseteq {t} /\ (panel.result = {t} => shows = {t}) /\ AllAbout(t)
    BY <1>2, <2>4 DEF PanelInv, AllAbout
  <2> HIDE DEF shows
  <2>5. panel' \in Panels /\ panel'.phase = panel.phase /\ panel'.of = panel.of /\ panel'.result = shows
    BY <2>1, <2>2 DEF PanelInv, Panels
  <2>6. clean => \A t \in wanted : AllAbout(t)'
    BY <1>1, <2>3, <2>4, <2>5 DEF AllAbout
  <2>7. PanelFollows'
    BY <1>1, <2>4, <2>5 DEF PanelInv, PanelFollows
  <2> QED BY <1>1, <1>3, <2>3, <2>5, <2>6, <2>7 DEF PanelInv
<1>5. CASE stream' = [stream EXCEPT !.event = "none"] /\ UNCHANGED panel
  <2>1. stream' \in Streams /\ stream'.event = "none" /\ stream'.of = stream.of
    BY <1>5 DEF PanelInv, Streams
  <2> QED BY <1>1, <1>5, <2>1, StreamMoves DEF PanelInv
<1> QED BY <1>4, <1>5 DEF EventArrives

LEMMA PanelBegins == PanelInit => PanelInv
<1> SUFFICES ASSUME PanelInit PROVE PanelInv
  OBVIOUS
<1>1. Fresh \in Panels /\ Closed \in Streams /\ Closed.event = "none" /\ {} \in AtMostOne
  BY DEF Fresh, Closed, Panels, Streams, AtMostOne
<1> QED BY <1>1 DEF PanelInit, PanelInv, PanelFollows

LEMMA PanelKept == PanelInv /\ [PanelNext]_panelVars => PanelInv'
<1> SUFFICES ASSUME PanelInv, [PanelNext]_panelVars PROVE PanelInv'
  OBVIOUS
<1>1. CASE UNCHANGED panelVars
  <2>1. UNCHANGED <<status, post, stored, wanted, panel, polls, timer, stream, clean>>
    BY <1>1 DEF panelVars
  <2> QED BY <2>1, StreamMoves DEF PanelInv
<1> QED BY <1>1, SubmitKeeps, AcceptedKeeps, OpenTaskKeeps, RefusedKeeps, ReloadKeeps, PollAnsweredKeeps,
           PollLostKeeps, PollRejectedKeeps, PollShownKeeps, TimerFiresKeeps, StreamKeeps, EventArrivesKeeps
        DEF PanelNext

(* A task the user asked for is followed to its end: a poll of it is under *)
(* way or waits, or the panel shows how it ended and with what - through   *)
(* lost answers, missed events, reloads and tasks opened in between, for   *)
(* any number of tasks and polls; errors, and what is left of another task *)
(* when it is asked for, are left out.                                     *)
THEOREM PanelsFollowTheirTask == PanelSpec => []PanelFollows
<1>1. PanelInv => PanelFollows
  BY DEF PanelInv
<1> QED BY <1>1, PanelBegins, PanelKept, PTL DEF PanelSpec

-----------------------------------------------------------------------------
(* The line messages are written in: what is attached, and what it was.    *)

ComposerSpec == ComposerInit /\ [][ComposerNext]_composerVars

Picks == [file : Files, at : {"browser", "server", "over"}]
Posts == [to : Colleagues, pick : Nat, quote : SUBSET Colleagues, shown : Seq({"quote", "text", "name"})]

(* The picks that may be attached: somebody has read them.                 *)
WereRead == {n \in DOMAIN picks : picks[n].at = "over" /\ Readable(picks[n].file)}

ComposerTypes ==
  /\ colleague \in Colleagues /\ quote \subseteq {colleague} /\ attached \in Nat
  /\ picks \in Seq(Picks) /\ posted \in Seq(Posts)
ChipFits ==
  /\ chip.says = "ok" => chip.pick # 0 /\ attached = chip.pick
  /\ attached # 0 => chip.says # "none" /\ attached \in WereRead
LineFits(m) == m.quote \subseteq {m.to} /\ Stored(m) = m.shown
PostsFit ==
  \A i \in DOMAIN posted :
    /\ LineFits(posted[i])
    /\ posted[i].pick # 0 => posted[i].pick \in WereRead /\ posted[i].pick # attached
SentOnce == \A i, j \in DOMAIN posted : i # j /\ posted[i].pick # 0 => posted[i].pick # posted[j].pick

ComposerInv == ComposerTypes /\ ChipFits /\ PostsFit /\ SentOnce

Matches(doc, i) == doc.words \cap Rules[i].words # {} \/ doc.ext \in Rules[i].exts

LEMMA RulesAre ==
  /\ DOMAIN Rules = 1 .. 9
  /\ Rules[1] = Rule({"pdf"}, {"pdf"}, "pdf")
  /\ Rules[2] = Rule({"wordprocessingml"}, {"docx"}, "docx")
  /\ Rules[3] = Rule({"spreadsheetml", "excel"}, {"xlsx", "xls"}, "sheet")
  /\ Rules[4] = Rule({"msword"}, {"doc"}, "none")
  /\ Rules[5] = Rule({"presentationml"}, {"pptx", "ppt"}, "none")
  /\ Rules[6] = Rule({"zip"}, {"zip", "rar", "7z"}, "none")
  /\ Rules[7] = Rule({"json"}, {"json"}, "json")
  /\ Rules[8] = Rule({"csv"}, {"csv", "tsv"}, "rows")
  /\ Rules[9] = Rule({"text/", "markdown", "plain"}, {"txt", "md", "log", "yaml", "yml", "xml", "html"}, "text")
BY DEF Rules

(* The first rule that matches names the reader.                           *)
LEMMA FirstRuleReads ==
  ASSUME NEW doc, NEW i \in 1 .. 9, Matches(doc, i), \A j \in 1 .. 9 : j < i => ~Matches(doc, j)
  PROVE  Reader(doc) = Rules[i].reader
<1> DEFINE fit == {j \in 1 .. 9 : Matches(doc, j)}
<1>1. Reader(doc) = IF fit # {} THEN Rules[Min(fit)].reader ELSE IF doc.printable THEN "text" ELSE "none"
  BY RulesAre DEF Reader, Matches
<1>2. i \in fit /\ fit \in SUBSET Nat /\ \A j \in fit : j \in 1 .. 9 /\ Matches(doc, j) OBVIOUS
<1> HIDE DEF fit
<1>3. fit # {} BY <1>2
<1>4. Min(fit) \in fit /\ Min(fit) <= i BY <1>2, <1>3, MinIsLeast
<1>5. Min(fit) \in 1 .. 9 /\ ~(Min(fit) < i) BY <1>2, <1>4
<1>6. Min(fit) = i BY <1>4, <1>5
<1> QED BY <1>1, <1>3, <1>6

LEMMA NoRuleReads ==
  ASSUME NEW doc, \A j \in 1 .. 9 : ~Matches(doc, j)
  PROVE  Reader(doc) = IF doc.printable THEN "text" ELSE "none"
BY RulesAre DEF Reader, Matches

(* Which rules match, one by one.                                          *)
LEMMA MatchesAre ==
  ASSUME NEW doc
  PROVE  /\ Matches(doc, 1) <=> "pdf" \in doc.words \/ doc.ext = "pdf"
         /\ Matches(doc, 2) <=> "wordprocessingml" \in doc.words \/ doc.ext = "docx"
         /\ Matches(doc, 3) <=> "spreadsheetml" \in doc.words \/ "excel" \in doc.words \/ doc.ext \in {"xlsx", "xls"}
         /\ Matches(doc, 4) <=> "msword" \in doc.words \/ doc.ext = "doc"
         /\ Matches(doc, 5) <=> "presentationml" \in doc.words \/ doc.ext \in {"pptx", "ppt"}
         /\ Matches(doc, 6) <=> "zip" \in doc.words \/ doc.ext \in {"zip", "rar", "7z"}
         /\ Matches(doc, 7) <=> "json" \in doc.words \/ doc.ext = "json"
         /\ Matches(doc, 8) <=> "csv" \in doc.words \/ doc.ext \in {"csv", "tsv"}
         /\ Matches(doc, 9) <=> \/ "text/" \in doc.words \/ "markdown" \in doc.words \/ "plain" \in doc.words
                                \/ doc.ext \in {"txt", "md", "log", "yaml", "yml", "xml", "html"}
<1>1. \A i \in 1 .. 9 : \A words, exts, reader :
        Rules[i] = Rule(words, exts, reader) =>
          (Matches(doc, i) <=> (\E w \in words : w \in doc.words) \/ doc.ext \in exts)
  BY DEF Matches, Rule
<1> QED BY <1>1, RulesAre

(* The reader, rule by rule.                                               *)
LEMMA ReaderIs ==
  ASSUME NEW doc
  PROVE  Reader(doc) =
           IF Matches(doc, 1) THEN "pdf" ELSE
           IF Matches(doc, 2) THEN "docx" ELSE
           IF Matches(doc, 3) THEN "sheet" ELSE
           IF Matches(doc, 4) \/ Matches(doc, 5) \/ Matches(doc, 6) THEN "none" ELSE
           IF Matches(doc, 7) THEN "json" ELSE
           IF Matches(doc, 8) THEN "rows" ELSE
           IF Matches(doc, 9) \/ doc.printable THEN "text" ELSE "none"
<1>0. \A i \in 1 .. 9 : \A words, exts, reader : Rules[i] = Rule(words, exts, reader) => Rules[i].reader = reader
  BY DEF Rule
<1>1. /\ Rules[1].reader = "pdf" /\ Rules[2].reader = "docx" /\ Rules[3].reader = "sheet"
      /\ Rules[4].reader = "none" /\ Rules[5].reader = "none" /\ Rules[6].reader = "none"
      /\ Rules[7].reader = "json" /\ Rules[8].reader = "rows" /\ Rules[9].reader = "text"
  BY <1>0, RulesAre
<1>2. \A i \in 1 .. 9 : Matches(doc, i) /\ (\A j \in 1 .. 9 : j < i => ~Matches(doc, j)) => Reader(doc) = Rules[i].reader
  BY FirstRuleReads
<1>3. CASE Matches(doc, 1) BY <1>1, <1>2, <1>3
<1>4. CASE ~Matches(doc, 1) /\ Matches(doc, 2) BY <1>1, <1>2, <1>4
<1>5. CASE ~Matches(doc, 1) /\ ~Matches(doc, 2) /\ Matches(doc, 3) BY <1>1, <1>2, <1>5
<1> DEFINE Not3 == ~Matches(doc, 1) /\ ~Matches(doc, 2) /\ ~Matches(doc, 3)
           Not6 == Not3 /\ ~Matches(doc, 4) /\ ~Matches(doc, 5) /\ ~Matches(doc, 6)
<1>6. CASE Not3 /\ Matches(doc, 4) BY <1>1, <1>2, <1>6
<1>7. CASE Not3 /\ ~Matches(doc, 4) /\ Matches(doc, 5) BY <1>1, <1>2, <1>7
<1>8. CASE Not3 /\ ~Matches(doc, 4) /\ ~Matches(doc, 5) /\ Matches(doc, 6) BY <1>1, <1>2, <1>8
<1>9. CASE Not6 /\ Matches(doc, 7) BY <1>1, <1>2, <1>9
<1>10. CASE Not6 /\ ~Matches(doc, 7) /\ Matches(doc, 8) BY <1>1, <1>2, <1>10
<1>11. CASE Not6 /\ ~Matches(doc, 7) /\ ~Matches(doc, 8) /\ Matches(doc, 9) BY <1>1, <1>2, <1>11
<1>12. CASE Not6 /\ ~Matches(doc, 7) /\ ~Matches(doc, 8) /\ ~Matches(doc, 9)
  <2>1. \A j \in 1 .. 9 : ~Matches(doc, j) BY <1>12
  <2>2. Reader(doc) = IF doc.printable THEN "text" ELSE "none" BY <2>1, NoRuleReads
  <2> QED BY <2>2, <1>12
<1> QED BY <1>3, <1>4, <1>5, <1>6, <1>7, <1>8, <1>9, <1>10, <1>11, <1>12

(* A document's reader understands it, or it is refused; and one that can  *)
(* be told by its name and is understood by somebody is not refused.       *)
HasReader(doc) ==
  /\ Told(doc) => Reader(doc) \in Understand(doc.format) \cup {"none"}
  /\ doc.ext # "" /\ Understand(doc.format) # {} => Reader(doc) # "none"

LEMMA UnderstandIs ==
  /\ Understand("pdf") = {"pdf"} /\ Understand("docx") = {"docx"} /\ Understand("sheet") = {"sheet"}
  /\ Understand("rows") = {"rows", "sheet", "text"}
  /\ Understand("json") = {"json", "text"} /\ Understand("text") = {"text"}
  /\ \A f \in {"doc", "slides", "archive", "image"} : Understand(f) = {}
BY DEF Understand

IsDocument(doc, k, typed, named) ==
  /\ doc.format = k[1] /\ doc.words = IF typed THEN k[2] ELSE {}
  /\ doc.ext = IF named THEN k[3] ELSE ""
  /\ doc.printable <=> k[1] \in {"pdf", "json", "rows", "text"}

LEMMA KindsHaveReaders ==
  ASSUME NEW doc, NEW k \in DocumentKinds, NEW typed \in BOOLEAN, NEW named \in BOOLEAN,
         IsDocument(doc, k, typed, named)
  PROVE  HasReader(doc)
<1>1. CASE k = <<"pdf", {"pdf"}, "pdf">>
  BY <1>1, MatchesAre, ReaderIs, UnderstandIs DEF IsDocument, HasReader, Told
<1>2. CASE k = <<"docx", {"wordprocessingml"}, "docx">>
  BY <1>2, MatchesAre, ReaderIs, UnderstandIs DEF IsDocument, HasReader, Told
<1>3. CASE k = <<"sheet", {"spreadsheetml"}, "xlsx">>
  BY <1>3, MatchesAre, ReaderIs, UnderstandIs DEF IsDocument, HasReader, Told
<1>4. CASE k = <<"sheet", {"excel"}, "xls">>
  BY <1>4, MatchesAre, ReaderIs, UnderstandIs DEF IsDocument, HasReader, Told
<1>5. CASE k = <<"doc", {"msword"}, "doc">>
  BY <1>5, MatchesAre, ReaderIs, UnderstandIs DEF IsDocument, HasReader, Told
<1>6. CASE k = <<"slides", {"presentationml"}, "pptx">>
  BY <1>6, MatchesAre, ReaderIs, UnderstandIs DEF IsDocument, HasReader, Told
<1>7. CASE k = <<"slides", {}, "ppt">>
  BY <1>7, MatchesAre, ReaderIs, UnderstandIs DEF IsDocument, HasReader, Told
<1>8. CASE k = <<"archive", {"zip"}, "zip">>
  BY <1>8, MatchesAre, ReaderIs, UnderstandIs DEF IsDocument, HasReader, Told
<1>9. CASE k = <<"archive", {}, "rar">>
  BY <1>9, MatchesAre, ReaderIs, UnderstandIs DEF IsDocument, HasReader, Told
<1>10. CASE k = <<"json", {"json"}, "json">>
  BY <1>10, MatchesAre, ReaderIs, UnderstandIs DEF IsDocument, HasReader, Told
<1>11. CASE k = <<"rows", {"csv", "text/"}, "csv">>
  BY <1>11, MatchesAre, ReaderIs, UnderstandIs DEF IsDocument, HasReader, Told
<1>12. CASE k = <<"rows", {"excel"}, "csv">>
  BY <1>12, MatchesAre, ReaderIs, UnderstandIs DEF IsDocument, HasReader, Told
<1>13. CASE k = <<"rows", {"text/"}, "tsv">>
  BY <1>13, MatchesAre, ReaderIs, UnderstandIs DEF IsDocument, HasReader, Told
<1>14. CASE k = <<"text", {"text/", "plain"}, "txt">>
  BY <1>14, MatchesAre, ReaderIs, UnderstandIs DEF IsDocument, HasReader, Told
<1>15. CASE k = <<"text", {}, "py">>
  BY <1>15, MatchesAre, ReaderIs, UnderstandIs DEF IsDocument, HasReader, Told
<1>16. CASE k = <<"image", {}, "png">>
  BY <1>16, MatchesAre, ReaderIs, UnderstandIs DEF IsDocument, HasReader, Told
<1> QED BY <1>1, <1>2, <1>3, <1>4, <1>5, <1>6, <1>7, <1>8, <1>9, <1>10, <1>11, <1>12, <1>13, <1>14, <1>15, <1>16 DEF DocumentKinds

LEMMA DocumentsAre ==
  ASSUME NEW doc \in Documents
  PROVE  /\ DOMAIN doc = {"format", "words", "ext", "printable", "size"}
         /\ \E k \in DocumentKinds, typed, named \in BOOLEAN : IsDocument(doc, k, typed, named)
<1>1. PICK k \in DocumentKinds, typed \in BOOLEAN, named \in BOOLEAN : doc = Document(k, typed, named, 1)
  BY DEF Documents
<1>2. DOMAIN doc = {"format", "words", "ext", "printable", "size"} BY <1>1 DEF Document
<1>3. IsDocument(doc, k, typed, named) BY <1>1 DEF Document, IsDocument
<1> QED BY <1>2, <1>3

LEMMA ReadersDoFit == ReadersFit
<1>1. ASSUME NEW doc \in Documents PROVE HasReader(doc) BY DocumentsAre, KindsHaveReaders
<1> QED BY <1>1 DEF ReadersFit, HasReader

LEMMA FilesHaveReaders ==
  ASSUME NEW file \in Files
  PROVE  HasReader(file)
<1>1. PICK doc \in Documents : file = [doc EXCEPT !.size = file.size] BY FilesAssumption
<1>2. PICK k \in DocumentKinds, typed \in BOOLEAN, named \in BOOLEAN : IsDocument(doc, k, typed, named)
  BY DocumentsAre
<1>3. /\ file.format = doc.format /\ file.words = doc.words
      /\ file.ext = doc.ext /\ file.printable = doc.printable
  BY <1>1, DocumentsAre
<1>4. IsDocument(file, k, typed, named) BY <1>2, <1>3 DEF IsDocument
<1> QED BY <1>4, KindsHaveReaders

LEMMA CapsDoFit == CapsFit
<1>1. ASSUME NEW size \in 0 .. 30, size <= 20 PROVE 4 * ((size + 2) \div 3) <= 30
  <2>1. size \in 0 .. 20 BY <1>1
  <2>2. (size + 2) \div 3 <= 7 BY <2>1
  <2>3. (size + 2) \div 3 \in Int BY <2>1
  <2> QED BY <2>2, <2>3
<1> QED BY <1>1 DEF CapsFit, PageTakes, BodyTakes
-----------------------------------------------------------------------------
(* Lines and prompts.                                                      *)

LEMMA RangeOfConcat ==
  ASSUME NEW S, NEW s \in Seq(S), NEW t \in Seq(S)
  PROVE  ToSet(s \o t) = ToSet(s) \cup ToSet(t)
<1>1. /\ s \o t \in Seq(S) /\ Len(s \o t) = Len(s) + Len(t)
      /\ \A i \in 1 .. Len(s) + Len(t) : (s \o t)[i] = IF i <= Len(s) THEN s[i] ELSE t[i - Len(s)]
  BY ConcatProperties
<1>2. /\ Len(s) \in Nat /\ Len(t) \in Nat /\ DOMAIN s = 1 .. Len(s) /\ DOMAIN t = 1 .. Len(t)
      /\ DOMAIN (s \o t) = 1 .. Len(s) + Len(t)
  BY <1>1, LenProperties
<1> DEFINE c == s \o t
<1>3. DOMAIN c = 1 .. Len(s) + Len(t) /\ \A i \in 1 .. Len(s) + Len(t) : c[i] = IF i <= Len(s) THEN s[i] ELSE t[i - Len(s)]
  BY <1>1, <1>2
<1> HIDE DEF c
<1>4. ToSet(c) \subseteq ToSet(s) \cup ToSet(t)
  <2> SUFFICES ASSUME NEW i \in DOMAIN c PROVE c[i] \in ToSet(s) \cup ToSet(t) BY DEF ToSet
  <2>1. i \in 1 .. Len(s) + Len(t) BY <1>3
  <2>2. CASE i <= Len(s)
    <3>1. i \in DOMAIN s /\ c[i] = s[i] BY <1>2, <1>3, <2>1, <2>2
    <3> QED BY <3>1 DEF ToSet
  <2>3. CASE ~(i <= Len(s))
    <3>1. i - Len(s) \in DOMAIN t /\ c[i] = t[i - Len(s)] BY <1>2, <1>3, <2>1, <2>3
    <3> QED BY <3>1 DEF ToSet
  <2> QED BY <2>2, <2>3
<1>5. ToSet(s) \subseteq ToSet(c)
  <2> SUFFICES ASSUME NEW i \in DOMAIN s PROVE s[i] \in ToSet(c) BY DEF ToSet
  <2>1. i \in DOMAIN c /\ c[i] = s[i] BY <1>2, <1>3
  <2> QED BY <2>1 DEF ToSet
<1>6. ToSet(t) \subseteq ToSet(c)
  <2> SUFFICES ASSUME NEW i \in DOMAIN t PROVE t[i] \in ToSet(c) BY DEF ToSet
  <2>1. Len(s) + i \in DOMAIN c /\ ~(Len(s) + i <= Len(s)) /\ (Len(s) + i) - Len(s) = i BY <1>2, <1>3
  <2>2. c[Len(s) + i] = t[i] BY <1>3, <2>1
  <2> QED BY <2>1, <2>2 DEF ToSet
<1>7. ToSet(c) = ToSet(s) \cup ToSet(t) BY <1>4, <1>5, <1>6
<1> QED BY <1>7 DEF c

PartKinds == {"quote", "text", "name", "file"}

LEMMA PartsAre ==
  ASSUME NEW kind \in PartKinds, NEW there \in BOOLEAN
  PROVE  /\ Parts(kind, there) \in Seq(PartKinds) /\ ToSet(Parts(kind, there)) = IF there THEN {kind} ELSE {}
<1>1. <<kind>> \in Seq(PartKinds) /\ << >> \in Seq(PartKinds) OBVIOUS
<1>2. ToSet(<<kind>>) = {kind} /\ ToSet(<< >>) = {} BY DEF ToSet
<1> QED BY <1>1, <1>2 DEF Parts

(* The file is in the prompt of just the messages whose line names it.     *)
LEMMA NamedIsRead ==
  ASSUME NEW m
  PROVE  /\ Stored(m) \in Seq({"quote", "text", "name"})
         /\ "name" \in ToSet(Stored(m)) <=> "file" \in ToSet(Prompt(m))
<1> DEFINE quoted == m.quote # {}
           with == m.pick # 0
           q == Parts("quote", quoted)
           w == Parts("name", with)
           f == Parts("file", with)
           x == <<"text">>
<1>1. /\ q \in Seq(PartKinds) /\ ToSet(q) = IF quoted THEN {"quote"} ELSE {}
      /\ w \in Seq(PartKinds) /\ ToSet(w) = IF with THEN {"name"} ELSE {}
      /\ f \in Seq(PartKinds) /\ ToSet(f) = IF with THEN {"file"} ELSE {}
  BY PartsAre DEF PartKinds
<1>2. x \in Seq(PartKinds) /\ ToSet(x) = {"text"}
  BY PartsAre DEF Parts, PartKinds
<1>3. Stored(m) = (q \o x) \o w /\ Prompt(m) = (q \o f) \o x BY DEF Stored, Prompt
<1> HIDE DEF q, w, f, x
<1>4. q \o x \in Seq(PartKinds) /\ q \o f \in Seq(PartKinds) BY <1>1, <1>2
<1>a. \A s, t \in Seq(PartKinds) : ToSet(s \o t) = ToSet(s) \cup ToSet(t) BY RangeOfConcat
<1>5. ToSet((q \o x) \o w) = (ToSet(q) \cup ToSet(x)) \cup ToSet(w)
  <2>1. ToSet(q \o x) = ToSet(q) \cup ToSet(x) BY <1>1, <1>2, <1>a
  <2>2. ToSet((q \o x) \o w) = ToSet(q \o x) \cup ToSet(w) BY <1>1, <1>4, <1>a
  <2> QED BY <2>1, <2>2
<1>6. ToSet((q \o f) \o x) = (ToSet(q) \cup ToSet(f)) \cup ToSet(x)
  <2>1. ToSet(q \o f) = ToSet(q) \cup ToSet(f) BY <1>1, <1>a
  <2>2. ToSet((q \o f) \o x) = ToSet(q \o f) \cup ToSet(x) BY <1>2, <1>4, <1>a
  <2> QED BY <2>1, <2>2
<1>7. "name" \in ToSet(Stored(m)) <=> "file" \in ToSet(Prompt(m))
  BY <1>1, <1>2, <1>3, <1>5, <1>6
<1> DEFINE L == {"quote", "text", "name"}
<1>8. q \in Seq(L) /\ x \in Seq(L) /\ w \in Seq(L)
  <2>1. <<"quote">> \in Seq(L) /\ <<"name">> \in Seq(L) /\ <<"text">> \in Seq(L) /\ << >> \in Seq(L)
    OBVIOUS
  <2> HIDE DEF L
  <2> QED BY <2>1 DEF q, x, w, Parts
<1> HIDE DEF L
<1>9. (q \o x) \o w \in Seq(L)
  <2>1. q \o x \in Seq(L) BY <1>8
  <2> QED BY <2>1, <1>8
<1> QED BY <1>3, <1>7, <1>9 DEF L
-----------------------------------------------------------------------------
(* The steps.                                                              *)

LEMMA PicksAre ==
  ASSUME ComposerTypes
  PROVE  /\ Len(picks) \in Nat /\ DOMAIN picks = 1 .. Len(picks)
         /\ Len(posted) \in Nat /\ DOMAIN posted = 1 .. Len(posted)
         /\ \A n \in DOMAIN picks : picks[n] \in Picks
         /\ \A i \in DOMAIN posted : posted[i] \in Posts
<1>1. picks \in Seq(Picks) /\ posted \in Seq(Posts) BY DEF ComposerTypes
<1> QED BY <1>1, LenProperties, ElementOfSeq

(* What was read by somebody stays read.                                   *)
StaysRead == WereRead \subseteq WereRead'

LEMMA PostsStay ==
  ASSUME ComposerInv, StaysRead, UNCHANGED posted, \A i \in DOMAIN posted : posted[i].pick # 0 => posted[i].pick # attached'
  PROVE  PostsFit' /\ SentOnce'
<1>1. SentOnce' BY DEF SentOnce, ComposerInv
<1>2. PostsFit' BY DEF ComposerInv, PostsFit, StaysRead
<1> QED BY <1>1, <1>2

(* Steps that leave the files, the chip and the posts alone.               *)
LEMMA WordsOnlyStep ==
  ASSUME ComposerInv, UNCHANGED <<picks, attached, chip, posted>>,
         colleague' \in Colleagues, quote' \subseteq {colleague'}
  PROVE  ComposerInv'
<1>1. ComposerTypes' BY DEF ComposerInv, ComposerTypes
<1>2. StaysRead BY DEF StaysRead, WereRead
<1>3. ChipFits' BY <1>2 DEF ComposerInv, ChipFits, StaysRead
<1>4. \A i \in DOMAIN posted : posted[i].pick # 0 => posted[i].pick # attached'
  BY DEF ComposerInv, PostsFit
<1> QED BY <1>1, <1>2, <1>3, <1>4, PostsStay DEF ComposerInv

LEMMA PickFileKeeps == ASSUME ComposerInv, NEW file \in Files, PickFile(file) PROVE ComposerInv'
<1> DEFINE n == Len(picks) + 1
           pick == [file |-> file, at |-> IF PageTakes(file.size) THEN "browser" ELSE "over"]
<1>0. ComposerTypes /\ picks \in Seq(Picks) BY DEF ComposerInv, ComposerTypes
<1>1. pick \in Picks BY DEF Picks
<1>2. picks' = Append(picks, pick) /\ UNCHANGED <<colleague, attached, quote, posted>> BY DEF PickFile
<1>3. chip'.says \in {"busy", "error"} BY DEF PickFile, Says
<1> HIDE DEF pick
<1>4. /\ Append(picks, pick) \in Seq(Picks) /\ Len(Append(picks, pick)) = Len(picks) + 1
      /\ \A k \in 1 .. Len(picks) : Append(picks, pick)[k] = picks[k]
  BY <1>0, <1>1, AppendProperties
<1>5. /\ picks' \in Seq(Picks) /\ DOMAIN picks' = 1 .. Len(picks) + 1
      /\ \A k \in DOMAIN picks : k \in DOMAIN picks' /\ picks'[k] = picks[k]
  <2>1. Len(picks') = Len(picks) + 1 /\ picks' \in Seq(Picks) BY <1>2, <1>4
  <2>2. DOMAIN picks' = 1 .. Len(picks') BY <2>1, LenProperties
  <2> QED BY <1>0, <1>2, <1>4, <2>1, <2>2, PicksAre
<1>6. StaysRead BY <1>5 DEF StaysRead, WereRead
<1>7. ComposerTypes' BY <1>0, <1>2, <1>5 DEF ComposerTypes
<1>8. ChipFits' BY <1>2, <1>3, <1>6 DEF ComposerInv, ChipFits, StaysRead
<1>9. \A i \in DOMAIN posted : posted[i].pick # 0 => posted[i].pick # attached'
  BY <1>2 DEF ComposerInv, PostsFit
<1> QED BY <1>2, <1>6, <1>7, <1>8, <1>9, PostsStay DEF ComposerInv

(* A pick that is not over moves on.                                       *)
LEMMA PickMoves ==
  ASSUME ComposerInv, NEW n \in DOMAIN picks, picks[n].at # "over", NEW place \in {"server", "over"},
         picks' = [picks EXCEPT ![n].at = place]
  PROVE  /\ picks' \in Seq(Picks) /\ StaysRead /\ n \notin WereRead
         /\ DOMAIN picks' = DOMAIN picks /\ picks'[n].at = place /\ picks'[n].file = picks[n].file
<1>1. ComposerTypes /\ picks \in Seq(Picks) BY DEF ComposerInv, ComposerTypes
<1> DEFINE pick == [picks[n] EXCEPT !.at = place]
<1>2. picks[n] \in Picks BY <1>1, PicksAre
<1>3. pick \in Picks /\ pick.at = place /\ pick.file = picks[n].file BY <1>2 DEF Picks
<1>4. picks' = [picks EXCEPT ![n] = pick] OBVIOUS
<1> HIDE DEF pick
<1>5. n \in 1 .. Len(picks) BY <1>1, PicksAre
<1>6. picks' \in Seq(Picks) BY <1>1, <1>3, <1>4, <1>5, ExceptSeq
<1>7. DOMAIN picks' = DOMAIN picks /\ picks'[n] = pick /\ \A k \in DOMAIN picks : k # n => picks'[k] = picks[k]
  BY <1>4
<1>8. n \notin WereRead BY DEF WereRead
<1>9. StaysRead BY <1>7, <1>8 DEF StaysRead, WereRead
<1> QED BY <1>3, <1>6, <1>7, <1>8, <1>9

LEMMA ReadingStepsKeep ==
  ASSUME ComposerInv, NEW n \in DOMAIN picks, BrowserReads(n) \/ NotRead(n)
  PROVE  ComposerInv'
<1>1. PICK place \in {"server", "over"} : picks' = [picks EXCEPT ![n].at = place]
  BY DEF BrowserReads, NotRead
<1>2. picks[n].at # "over" BY DEF BrowserReads, NotRead
<1>3. UNCHANGED <<colleague, attached, quote, posted>> BY DEF BrowserReads, NotRead
<1>4. chip' = chip \/ chip'.says = "error" BY DEF BrowserReads, NotRead, Says
<1>5. picks' \in Seq(Picks) /\ StaysRead BY <1>1, <1>2, PickMoves
<1>6. ComposerTypes' BY <1>3, <1>5 DEF ComposerInv, ComposerTypes
<1>7. ChipFits' BY <1>3, <1>4, <1>5 DEF ComposerInv, ChipFits, StaysRead
<1>8. \A i \in DOMAIN posted : posted[i].pick # 0 => posted[i].pick # attached'
  BY <1>3 DEF ComposerInv, PostsFit
<1> QED BY <1>3, <1>5, <1>6, <1>7, <1>8, PostsStay DEF ComposerInv

LEMMA ExtractedKeeps == ASSUME ComposerInv, NEW n \in DOMAIN picks, Extracted(n) PROVE ComposerInv'
<1>1. /\ picks' = [picks EXCEPT ![n].at = "over"] /\ picks[n].at = "server" /\ Readable(picks[n].file)
      /\ attached' = n /\ chip'.says = "ok" /\ chip'.pick = n /\ UNCHANGED <<colleague, quote, posted>>
  BY DEF Extracted, Says
<1>2. /\ picks' \in Seq(Picks) /\ StaysRead /\ n \notin WereRead
      /\ DOMAIN picks' = DOMAIN picks /\ picks'[n].at = "over" /\ picks'[n].file = picks[n].file
  BY <1>1, PickMoves
<1>3. n \in Nat /\ n # 0 BY PicksAre DEF ComposerInv
<1>4. n \in WereRead' BY <1>1, <1>2 DEF WereRead, Readable
<1>5. ComposerTypes' BY <1>1, <1>2, <1>3 DEF ComposerInv, ComposerTypes
<1>6. ChipFits' BY <1>1, <1>3, <1>4 DEF ChipFits
<1>7. \A i \in DOMAIN posted : posted[i].pick # 0 => posted[i].pick # attached'
  BY <1>1, <1>2 DEF ComposerInv, PostsFit
<1> QED BY <1>1, <1>2, <1>5, <1>6, <1>7, PostsStay DEF ComposerInv

LEMMA DropFileKeeps == ASSUME ComposerInv, DropFile PROVE ComposerInv'
<1>1. attached' = 0 /\ chip'.says = "none" /\ UNCHANGED <<colleague, picks, quote, posted>>
  BY DEF DropFile, NoChip
<1>2. StaysRead BY <1>1 DEF StaysRead, WereRead
<1>3. ComposerTypes' BY <1>1 DEF ComposerInv, ComposerTypes
<1>4. ChipFits' BY <1>1 DEF ChipFits
<1>5. \A i \in DOMAIN posted : posted[i].pick # 0 => posted[i].pick # attached' BY <1>1
<1> QED BY <1>1, <1>2, <1>3, <1>4, <1>5, PostsStay DEF ComposerInv

LEMMA SendMessageKeeps == ASSUME ComposerInv, NEW typed \in BOOLEAN, SendMessage(typed) PROVE ComposerInv'
<1> DEFINE m == [to |-> colleague, pick |-> attached, quote |-> quote, shown |-> Shown]
<1>0. ComposerTypes /\ posted \in Seq(Posts) BY DEF ComposerInv, ComposerTypes
<1>1. /\ posted' = Append(posted, m) /\ attached' = 0 /\ quote' = {} /\ UNCHANGED <<colleague, picks>>
      /\ chip' = IF attached # 0 THEN NoChip ELSE chip
  BY DEF SendMessage
<1>2. Stored(m) = Shown BY DEF Stored, Shown
<1>3. m \in Posts
  <2>1. Stored(m) \in Seq({"quote", "text", "name"}) BY NamedIsRead
  <2>2. colleague \in Colleagues /\ attached \in Nat /\ quote \in SUBSET Colleagues
    BY <1>0 DEF ComposerTypes
  <2> QED BY <1>2, <2>1, <2>2 DEF Posts
<1>4. m.to = colleague /\ m.pick = attached /\ m.quote = quote /\ m.shown = Shown OBVIOUS
<1> HIDE DEF m
<1>5. /\ Append(posted, m) \in Seq(Posts) /\ Len(Append(posted, m)) = Len(posted) + 1
      /\ \A k \in 1 .. Len(posted) : Append(posted, m)[k] = posted[k]
      /\ Append(posted, m)[Len(posted) + 1] = m
  BY <1>0, <1>3, AppendProperties
<1>6. /\ posted' \in Seq(Posts) /\ DOMAIN posted' = 1 .. Len(posted) + 1
      /\ \A k \in 1 .. Len(posted) : posted'[k] = posted[k]
      /\ posted'[Len(posted) + 1] = m
  <2>1. Len(posted') = Len(posted) + 1 /\ posted' \in Seq(Posts) BY <1>1, <1>5
  <2>2. DOMAIN posted' = 1 .. Len(posted') BY <2>1, LenProperties
  <2> QED BY <1>1, <1>5, <2>1, <2>2
<1>7. Len(posted) \in Nat /\ DOMAIN posted = 1 .. Len(posted) BY <1>0, PicksAre
<1>8. \A k \in DOMAIN posted' : k \in DOMAIN posted \/ k = Len(posted) + 1 BY <1>6, <1>7
<1>9. ComposerTypes' BY <1>0, <1>1, <1>6 DEF ComposerTypes
<1>10. ChipFits' BY <1>1 DEF ComposerInv, ChipFits, NoChip
<1>11. WereRead' = WereRead BY <1>1 DEF WereRead
<1>12. m.pick # 0 => m.pick \in WereRead BY <1>4 DEF ComposerInv, ChipFits
<1>13. \A k \in DOMAIN posted : posted[k].pick # 0 => posted[k].pick # m.pick
  BY <1>4 DEF ComposerInv, PostsFit
<1>14. PostsFit'
  <2> SUFFICES ASSUME NEW k \in DOMAIN posted'
               PROVE  /\ LineFits(posted'[k])
                      /\ posted'[k].pick # 0 => posted'[k].pick \in WereRead /\ posted'[k].pick # 0
    BY <1>1, <1>11 DEF PostsFit
  <2>1. CASE k \in DOMAIN posted
    <3>1. posted'[k] = posted[k] BY <1>6, <1>7, <2>1
    <3> QED BY <2>1, <3>1 DEF ComposerInv, PostsFit
  <2>2. CASE k = Len(posted) + 1
    <3>1. posted'[k] = m BY <1>6, <2>2
    <3>2. m.quote \subseteq {m.to} BY <1>0, <1>4 DEF ComposerTypes
    <3>3. LineFits(m) BY <1>2, <1>4, <3>2 DEF LineFits
    <3> QED BY <1>12, <3>1, <3>3
  <2> QED BY <1>8, <2>1, <2>2
<1>15. SentOnce'
  <2> SUFFICES ASSUME NEW i \in DOMAIN posted', NEW j \in DOMAIN posted', i # j, posted'[i].pick # 0
               PROVE  posted'[i].pick # posted'[j].pick
    BY DEF SentOnce
  <2>1. CASE i \in DOMAIN posted /\ j \in DOMAIN posted
    <3>1. posted'[i] = posted[i] /\ posted'[j] = posted[j] BY <1>6, <1>7, <2>1
    <3> QED BY <2>1, <3>1 DEF ComposerInv, SentOnce
  <2>2. CASE i \in DOMAIN posted /\ j = Len(posted) + 1
    <3>1. posted'[i] = posted[i] /\ posted'[j] = m BY <1>6, <1>7, <2>2
    <3> QED BY <1>13, <2>2, <3>1
  <2>3. CASE i = Len(posted) + 1 /\ j \in DOMAIN posted
    <3>1. posted'[i] = m /\ posted'[j] = posted[j] BY <1>6, <1>7, <2>3
    <3> QED BY <1>13, <2>3, <3>1
  <2> QED BY <1>8, <2>1, <2>2, <2>3
<1> QED BY <1>9, <1>10, <1>14, <1>15 DEF ComposerInv

LEMMA ComposerHolds == ComposerSpec => []ComposerInv
<1>1. ComposerInit => ComposerInv
  <2> SUFFICES ASSUME ComposerInit PROVE ComposerInv OBVIOUS
  <2>1. colleague \in Colleagues BY ComposerAssumption DEF ComposerInit
  <2>2. ComposerTypes BY <2>1 DEF ComposerInit, ComposerTypes
  <2>3. ChipFits BY DEF ComposerInit, ChipFits, NoChip
  <2>4. DOMAIN posted = {} BY DEF ComposerInit
  <2> QED BY <2>2, <2>3, <2>4 DEF ComposerInv, PostsFit, SentOnce
<1>2. ComposerInv /\ [ComposerNext]_composerVars => ComposerInv'
  <2> SUFFICES ASSUME ComposerInv, [ComposerNext]_composerVars PROVE ComposerInv' OBVIOUS
  <2>0. colleague \in Colleagues /\ quote \subseteq {colleague} BY DEF ComposerInv, ComposerTypes
  <2>1. CASE \E a \in Colleagues : SelectAgent(a) BY <2>1, WordsOnlyStep DEF SelectAgent
  <2>2. CASE \E file \in Files : PickFile(file) BY <2>2, PickFileKeeps
  <2>3. CASE \E n \in DOMAIN picks : BrowserReads(n) \/ NotRead(n) BY <2>3, ReadingStepsKeep
  <2>4. CASE \E n \in DOMAIN picks : Extracted(n) BY <2>4, ExtractedKeeps
  <2>5. CASE DropFile BY <2>5, DropFileKeeps
  <2>6. CASE SetReplyTarget BY <2>0, <2>6, WordsOnlyStep DEF SetReplyTarget
  <2>7. CASE DropQuote BY <2>0, <2>7, WordsOnlyStep DEF DropQuote
  <2>8. CASE \E typed \in BOOLEAN : SendMessage(typed) BY <2>8, SendMessageKeeps
  <2>9. CASE UNCHANGED composerVars BY <2>0, <2>9, WordsOnlyStep DEF composerVars
  <2> QED BY <2>1, <2>2, <2>3, <2>4, <2>5, <2>6, <2>7, <2>8, <2>9 DEF ComposerNext
<1> QED BY <1>1, <1>2, PTL DEF ComposerSpec

(* What is attached is what is sent and shown: the chip names the file     *)
(* that would go, each file goes once and was read by a reader that        *)
(* understands it, a quote stays in its thread, the server's line is the   *)
(* page's and names a file just when the prompt has it, and no file that   *)
(* the page takes is cut off by the server (the submit handler of the      *)
(* chat, extractDocument and sendChatMessage): for any colleagues, any     *)
(* documents of the kinds listed and any number of picks and posts.        *)
THEOREM FilesGoAsShown == ComposerSpec => []AttachedAsShown
<1>1. ComposerInv => AttachedAsShown
  <2> SUFFICES ASSUME ComposerInv PROVE AttachedAsShown OBVIOUS
  <2>1. /\ chip.says = "ok" => attached = chip.pick
        /\ attached # 0 => chip.says # "none"
    BY DEF ComposerInv, ChipFits
  <2>2. SentOnce BY DEF ComposerInv
  <2>3. ASSUME NEW i \in DOMAIN posted
        PROVE  LET m == posted[i] IN
               /\ m.quote \subseteq {m.to}
               /\ Stored(m) = m.shown
               /\ ("name" \in ToSet(m.shown) <=> "file" \in ToSet(Prompt(m)))
               /\ m.pick # 0 => LET doc == picks[m.pick].file
                                IN Told(doc) => Reader(doc) \in Understand(doc.format)
    <3> DEFINE m == posted[i]
               doc == picks[m.pick].file
    <3>1. LineFits(m) /\ (m.pick # 0 => m.pick \in WereRead) BY DEF ComposerInv, PostsFit
    <3>2. "name" \in ToSet(Stored(m)) <=> "file" \in ToSet(Prompt(m)) BY NamedIsRead
    <3>3. ASSUME m.pick # 0, Told(doc) PROVE Reader(doc) \in Understand(doc.format)
      <4>1. m.pick \in DOMAIN picks /\ Reader(doc) # "none" BY <3>1, <3>3 DEF WereRead, Readable
      <4>2. doc \in Files BY <4>1, PicksAre DEF ComposerInv, Picks
      <4> QED BY <3>3, <4>1, <4>2, FilesHaveReaders DEF HasReader
    <3> QED BY <3>1, <3>2, <3>3 DEF LineFits
  <2> QED BY <2>1, <2>2, <2>3, ReadersDoFit, CapsDoFit DEF SentOnce, AttachedAsShown
<1> QED BY <1>1, ComposerHolds, PTL

-----------------------------------------------------------------------------
(* The reactions: the row and what adds up to it, the page and its object. *)

ReactionsSpec == ReactionsInit /\ [][ReactionsNext]_reactionVars

ReactionSets == SUBSET Emojis
ClickStates ==
  [emoji : ReactionSets, of : SUBSET Loads, server : {"idle", "asked", "read", "written", "failed"},
   page : {"idle", "waits", "over"}, next : ReactionSets]
LoadStates == [at : {"idle", "asked", "got", "over"}, got : ReactionSets, alone : BOOLEAN]

(* A click that is not made yet has no emoji, one that is made has one.    *)
ClickSound(k) ==
  /\ k.page = "idle" <=> k.server = "idle"
  /\ k.page # "idle" => \E e \in Emojis : k.emoji = {e}

Active(l) == loads[l].at \in {"asked", "got"}
(* What is on its way to the page is the row.                              *)
GotTheRow == \A l \in Loads : loads[l].at = "got" => loads[l].got = row

(* The server has the row as it will write it.                             *)
ClicksCounted ==
  /\ \A c, d \in Clicks : clicks[c].server = "read" /\ clicks[d].server = "read" => c = d
  /\ \A c \in Clicks : clicks[c].server = "read" => clicks[c].next = Toggled(row, clicks[c].emoji)
  /\ row = {e \in Emojis : Odd(e)}

(* One click is under way; the page shows what it will make of the row.    *)
OnlyClick(c) ==
  /\ \A l \in Loads : ~ Active(l)
  /\ \A d \in Clicks \ {c} : clicks[d].server \notin {"asked", "read"} /\ clicks[d].page # "waits"
  /\ clicks[c].page = "waits" /\ clicks[c].of = object
  /\ \/ clicks[c].server = "asked" /\ shown = Toggled(row, clicks[c].emoji)
     \/ clicks[c].server = "read" /\ shown = Toggled(row, clicks[c].emoji) /\ shown = clicks[c].next
     \/ clicks[c].server = "written" /\ shown = row /\ shown = clicks[c].next

Calm ==
  \/ ClicksAtRest /\ shown = row /\ GotTheRow
  \/ \E c \in Clicks : OnlyClick(c)

ReactionsInv ==
  /\ row \in ReactionSets /\ shown \in ReactionSets /\ object \in SUBSET Loads
  /\ clicks \in [Clicks -> ClickStates] /\ loads \in [Loads -> LoadStates]
  /\ overlap \in BOOLEAN /\ calm \in BOOLEAN
  /\ \A c \in Clicks : ClickSound(clicks[c])
  /\ ~ overlap => ClicksCounted
  /\ calm => Calm
  /\ \A l \in Loads : Active(l) /\ loads[l].alone => ClicksAtRest /\ GotTheRow

LEMMA ReactionFacts ==
  ASSUME ReactionsInv
  PROVE  /\ \A c \in Clicks : clicks[c] \in ClickStates /\ ClickSound(clicks[c])
         /\ \A l \in Loads : loads[l] \in LoadStates
         /\ clicks \in [Clicks -> ClickStates] /\ loads \in [Loads -> LoadStates]
BY DEF ReactionsInv

LEMMA ToggledTwice ==
  ASSUME NEW S \in ReactionSets, NEW e \in Emojis
  PROVE  /\ Toggled(S, {e}) \in ReactionSets
         /\ \A x : x \in Toggled(S, {e}) <=> IF x = e THEN x \notin S ELSE x \in S
BY DEF Toggled, ReactionSets

Hits(e) == {c \in Clicks : clicks[c].emoji = {e} /\ clicks[c].server = "written"}

LEMMA CountedStays ==
  ASSUME ClicksCounted, row' = row,
         \A c \in Clicks :
           /\ clicks'[c].server = "read" =>
                clicks[c].server = "read" /\ clicks'[c].next = clicks[c].next /\ clicks'[c].emoji = clicks[c].emoji
           /\ clicks'[c].server = "written" <=> clicks[c].server = "written"
           /\ clicks[c].server = "written" => clicks'[c].emoji = clicks[c].emoji
  PROVE  ClicksCounted'
<1>1. \A e : Hits(e)' = Hits(e)
  BY DEF Hits
<1>2. \A e : Odd(e)' <=> Odd(e)
  BY <1>1 DEF Odd, Hits
<1> QED BY <1>2 DEF ClicksCounted

(* One more click counted.                                                 *)
LEMMA OneMore ==
  ASSUME ReactionsInv, ClicksCounted, NEW c \in Clicks, clicks[c].server = "read",
         NEW k \in ClickStates, k.server = "written", k.emoji = clicks[c].emoji,
         clicks' = [clicks EXCEPT ![c] = k], row' = clicks[c].next
  PROVE  ClicksCounted'
<1>1. PICK x \in Emojis : clicks[c].emoji = {x}
  BY ReactionFacts DEF ClickSound
<1>2. clicks'[c] = k /\ \A d \in Clicks \ {c} : clicks'[d] = clicks[d] /\ clicks[d].server # "read"
  BY ReactionFacts DEF ClicksCounted
<1>3. \A e \in Emojis \ {x} : Hits(e)' = Hits(e)
  BY <1>1, <1>2 DEF Hits
<1>4. Hits(x)' = Hits(x) \cup {c} /\ c \notin Hits(x) /\ Hits(x) \subseteq Clicks
  BY <1>1, <1>2 DEF Hits
<1>5. IsFiniteSet(Hits(x))
  BY <1>4, FS_Subset, ReactionsAssumption
<1>6. Cardinality(Hits(x)') = Cardinality(Hits(x)) + 1 /\ Cardinality(Hits(x)) \in Nat
  BY <1>4, <1>5, FS_AddElement, FS_CardinalityType
<1>7. Odd(x)' <=> ~ Odd(x)
  <2> DEFINE n == Cardinality(Hits(x))
  <2>1. n \in Nat /\ Cardinality(Hits(x)') = n + 1
    BY <1>6
  <2> HIDE DEF n
  <2>2. (n + 1) % 2 = 1 <=> n % 2 # 1
    BY <2>1
  <2> QED BY <2>1, <2>2 DEF Odd, Hits, n
<1>8. \A e \in Emojis \ {x} : Odd(e)' <=> Odd(e)
  BY <1>3 DEF Odd, Hits
<1>9. row' = Toggled(row, {x}) /\ row = {e \in Emojis : Odd(e)} /\ row \in ReactionSets
  BY <1>1 DEF ClicksCounted, ReactionsInv
<1>10. row' = {e \in Emojis : Odd(e)'}
  BY <1>7, <1>8, <1>9, ToggledTwice DEF ReactionSets
<1> QED BY <1>2, <1>10 DEF ClicksCounted

(* What a click that is under way excludes.                                *)
LEMMA UnderWay ==
  ASSUME ReactionsInv, NEW c \in Clicks, clicks[c].server \in {"asked", "read"} \/ clicks[c].page = "waits"
  PROVE  /\ ~ ClicksAtRest /\ (calm => OnlyClick(c))
         /\ \A l \in Loads : ~ (Active(l) /\ loads[l].alone)
BY DEF ReactionsInv, ClicksAtRest, Calm, OnlyClick

(* A step of one click.                                                    *)
LEMMA ClickMoves ==
  ASSUME ReactionsInv, NEW c \in Clicks, NEW k \in ClickStates, clicks' = [clicks EXCEPT ![c] = k],
         ClickSound(k), UNCHANGED <<object, loads>>,
         clicks[c].server \in {"asked", "read"} \/ clicks[c].page = "waits",
         row' \in ReactionSets, shown' \in ReactionSets, overlap' \in BOOLEAN, calm' \in BOOLEAN,
         ~ overlap' => ClicksCounted', calm' => Calm'
  PROVE  ReactionsInv'
<1>1. clicks' \in [Clicks -> ClickStates] /\ \A d \in Clicks : ClickSound(clicks'[d])
  BY ReactionFacts
<1>2. \A l \in Loads : ~ (Active(l) /\ loads[l].alone)'
  BY UnderWay DEF Active
<1> QED BY <1>1, <1>2 DEF ReactionsInv

LEMMA ToggleKeeps == ASSUME ReactionsInv, NEW c \in Clicks, ToggleReaction(c) PROVE ReactionsInv'
<1>1. PICK e \in Emojis :
        /\ shown' = Toggled(shown, {e})
        /\ clicks' = [clicks EXCEPT ![c] = [emoji |-> {e}, of |-> object, server |-> "asked",
                                            page |-> "waits", next |-> {}]]
  BY DEF ToggleReaction
<1> DEFINE k == [emoji |-> {e}, of |-> object, server |-> "asked", page |-> "waits", next |-> {}]
<1>2. /\ k \in ClickStates /\ ClickSound(k) /\ k.emoji = {e} /\ k.of = object /\ k.server = "asked"
      /\ k.page = "waits"
  BY DEF ReactionsInv, ClickStates, ClickSound, ReactionSets
<1> HIDE DEF k
<1>3. clicks' = [clicks EXCEPT ![c] = k]
  BY <1>1 DEF k
<1>4. /\ clicks' \in [Clicks -> ClickStates] /\ clicks'[c] = k
      /\ \A d \in Clicks \ {c} : clicks'[d] = clicks[d]
      /\ clicks[c].server = "idle"
  BY <1>2, <1>3, ReactionFacts DEF ToggleReaction, ClickSound
<1>5. /\ loads' \in [Loads -> LoadStates]
      /\ \A l \in Loads : loads'[l].at = loads[l].at /\ ~ loads'[l].alone
  <2>1. loads' = [l \in Loads |-> [loads[l] EXCEPT !.alone = FALSE]]
    BY DEF ToggleReaction
  <2>2. \A l \in Loads : /\ [loads[l] EXCEPT !.alone = FALSE] \in LoadStates
                         /\ [loads[l] EXCEPT !.alone = FALSE].at = loads[l].at
                         /\ ~ [loads[l] EXCEPT !.alone = FALSE].alone
    BY ReactionFacts DEF LoadStates
  <2> QED BY <2>1, <2>2
<1>6. ~ overlap => ClicksCounted'
  BY <1>2, <1>4, CountedStays DEF ToggleReaction, ReactionsInv
<1>7. calm' => OnlyClick(c)'
  <2> SUFFICES ASSUME calm, AtRest PROVE OnlyClick(c)'
    BY DEF ToggleReaction
  <2>1. shown = row /\ \A l \in Loads : ~ Active(l)
    BY DEF ReactionsInv, Calm, OnlyClick, AtRest, ClicksAtRest, Active
  <2>2. row' = row /\ object' = object
    BY DEF ToggleReaction
  <2>3. \A l \in Loads : ~ Active(l)'
    BY <1>5, <2>1 DEF Active
  <2>4. \A d \in Clicks \ {c} : clicks'[d].server \notin {"asked", "read"} /\ clicks'[d].page # "waits"
    BY <1>4 DEF AtRest, ClicksAtRest
  <2>5. shown' = Toggled(row', clicks'[c].emoji)
    BY <1>1, <1>2, <1>4, <2>1, <2>2
  <2> QED BY <1>2, <1>4, <2>2, <2>3, <2>4, <2>5 DEF OnlyClick
<1>8. /\ row' \in ReactionSets /\ shown' \in ReactionSets /\ object' \in SUBSET Loads
      /\ overlap' = overlap /\ calm' \in BOOLEAN
  BY <1>1, ToggledTwice DEF ReactionsInv, ToggleReaction
<1>9. \A d \in Clicks : ClickSound(clicks'[d])
  BY <1>2, <1>4, ReactionFacts
<1> QED BY <1>4, <1>5, <1>6, <1>7, <1>8, <1>9 DEF ReactionsInv, Calm

LEMMA ReadsClickKeeps == ASSUME ReactionsInv, NEW c \in Clicks, ReactionReads(c) PROVE ReactionsInv'
<1> DEFINE next == Toggled(row, clicks[c].emoji)
           k == [clicks[c] EXCEPT !.server = "read", !.next = next]
<1>1. PICK e \in Emojis : clicks[c].emoji = {e}
  BY ReactionFacts DEF ReactionReads, ClickSound
<1>2. next \in ReactionSets
  BY <1>1, ToggledTwice DEF ReactionsInv
<1>3. clicks' = [clicks EXCEPT ![c] = k] /\ clicks[c].server = "asked"
  BY ReactionFacts DEF ReactionReads
<1> HIDE DEF next
<1>4. /\ k \in ClickStates /\ k.emoji = clicks[c].emoji /\ k.of = clicks[c].of /\ k.server = "read"
      /\ k.page = clicks[c].page /\ k.next = next
  BY <1>2, ReactionFacts DEF ClickStates
<1> HIDE DEF k
<1>5. ClickSound(k)
  BY <1>1, <1>3, <1>4, ReactionFacts DEF ClickSound
<1>6. clicks'[c] = k /\ \A d \in Clicks \ {c} : clicks'[d] = clicks[d]
  BY <1>3, ReactionFacts
<1>7. ~ overlap' => ClicksCounted'
  <2> SUFFICES ASSUME ~ overlap, \A d \in Clicks : clicks[d].server # "read" PROVE ClicksCounted'
    BY DEF ReactionReads, ReactionsInv
  <2>1. ClicksCounted /\ row' = row
    BY DEF ReactionsInv, ReactionReads
  <2>2. \A x : Hits(x)' = Hits(x)
    BY <1>3, <1>4, <1>6 DEF Hits
  <2>3. \A x : Odd(x)' <=> Odd(x)
    BY <2>2 DEF Odd, Hits
  <2>4. row' = {x \in Emojis : Odd(x)'}
    BY <2>1, <2>3 DEF ClicksCounted
  <2>5. \A d \in Clicks : clicks'[d].server = "read" => d = c
    BY <1>6
  <2>6. clicks'[c].next = Toggled(row', clicks'[c].emoji)
    BY <1>4, <1>6, <2>1 DEF next
  <2> QED BY <2>4, <2>5, <2>6 DEF ClicksCounted
<1>8. calm' => OnlyClick(c)'
  <2> SUFFICES ASSUME calm PROVE OnlyClick(c)'
    BY DEF ReactionReads
  <2>1. OnlyClick(c)
    BY <1>3, UnderWay
  <2>2. row' = row /\ object' = object /\ shown' = shown /\ loads' = loads
    BY DEF ReactionReads
  <2> QED BY <1>3, <1>4, <1>6, <2>1, <2>2 DEF OnlyClick, Active, next
<1>9. UNCHANGED <<row, shown, object, loads, calm>> /\ overlap' \in BOOLEAN
  BY DEF ReactionReads, ReactionsInv
<1>10. row' \in ReactionSets /\ shown' \in ReactionSets /\ calm' \in BOOLEAN
  BY <1>9 DEF ReactionsInv
<1>11. calm' => Calm'
  BY <1>8 DEF Calm
<1> QED BY <1>3, <1>4, <1>5, <1>7, <1>9, <1>10, <1>11, ClickMoves

LEMMA WritesClickKeeps == ASSUME ReactionsInv, NEW c \in Clicks, ReactionWrites(c) PROVE ReactionsInv'
<1> DEFINE k == [clicks[c] EXCEPT !.server = "written"]
<1>3. clicks' = [clicks EXCEPT ![c] = k] /\ clicks[c].server = "read" /\ row' = clicks[c].next
  BY ReactionFacts DEF ReactionWrites
<1>4. /\ k \in ClickStates /\ k.emoji = clicks[c].emoji /\ k.of = clicks[c].of /\ k.server = "written"
      /\ k.page = clicks[c].page /\ k.next = clicks[c].next /\ clicks[c].next \in ReactionSets
  BY ReactionFacts DEF ClickStates
<1> HIDE DEF k
<1>5. ClickSound(k)
  BY <1>3, <1>4, ReactionFacts DEF ClickSound
<1>6. clicks'[c] = k /\ \A d \in Clicks \ {c} : clicks'[d] = clicks[d]
  BY <1>3, ReactionFacts
<1>7. ~ overlap' => ClicksCounted'
  BY <1>3, <1>4, OneMore DEF ReactionsInv, ReactionWrites
<1>8. calm' => OnlyClick(c)'
  <2> SUFFICES ASSUME calm PROVE OnlyClick(c)'
    BY DEF ReactionWrites
  <2>1. OnlyClick(c)
    BY <1>3, UnderWay
  <2>2. object' = object /\ shown' = shown /\ loads' = loads
    BY DEF ReactionWrites
  <2> QED BY <1>3, <1>4, <1>6, <2>1, <2>2 DEF OnlyClick, Active
<1>9. UNCHANGED <<shown, object, loads, overlap, calm>>
  BY DEF ReactionWrites
<1>10. row' \in ReactionSets /\ shown' \in ReactionSets /\ calm' \in BOOLEAN /\ overlap' \in BOOLEAN
  BY <1>3, <1>4, <1>9 DEF ReactionsInv
<1>11. calm' => Calm'
  BY <1>8 DEF Calm
<1> QED BY <1>3, <1>4, <1>5, <1>7, <1>9, <1>10, <1>11, ClickMoves

(* A click that fails or is lost is not counted, and ends the calm.        *)
LEMMA ClickLostKeeps == ASSUME ReactionsInv, NEW c \in Clicks, ReactionFails(c) \/ ReactionLost(c) PROVE ReactionsInv'
<1>1. PICK k \in ClickStates :
        /\ clicks' = [clicks EXCEPT ![c] = k] /\ ClickSound(k)
        /\ k.emoji = clicks[c].emoji /\ k.next = clicks[c].next
        /\ k.server = clicks[c].server \/ (k.server = "failed" /\ clicks[c].server # "written")
  <2>1. CASE ReactionFails(c)
    <3> DEFINE k == [clicks[c] EXCEPT !.server = "failed"]
    <3>1. k \in ClickStates /\ clicks' = [clicks EXCEPT ![c] = k] /\ clicks[c].server \in {"asked", "read"}
      BY <2>1, ReactionFacts DEF ClickStates, ReactionFails
    <3>2. k.emoji = clicks[c].emoji /\ k.next = clicks[c].next /\ k.server = "failed" /\ k.page = clicks[c].page
      BY ReactionFacts DEF ClickStates
    <3> HIDE DEF k
    <3>3. ClickSound(k)
      BY <3>1, <3>2, ReactionFacts DEF ClickSound
    <3> QED BY <3>1, <3>2, <3>3
  <2>2. CASE ReactionLost(c)
    <3> DEFINE k == [clicks[c] EXCEPT !.page = "over"]
    <3>1. k \in ClickStates /\ clicks' = [clicks EXCEPT ![c] = k] /\ clicks[c].page = "waits"
      BY <2>2, ReactionFacts DEF ClickStates, ReactionLost
    <3>2. k.emoji = clicks[c].emoji /\ k.next = clicks[c].next /\ k.server = clicks[c].server /\ k.page = "over"
      BY ReactionFacts DEF ClickStates
    <3> HIDE DEF k
    <3>3. ClickSound(k)
      BY <3>1, <3>2, ReactionFacts DEF ClickSound
    <3> QED BY <3>1, <3>2, <3>3
  <2> QED BY <2>1, <2>2
<1>2. /\ UNCHANGED <<row, shown, object, loads, overlap>> /\ calm' = FALSE
      /\ clicks[c].server \in {"asked", "read"} \/ clicks[c].page = "waits"
  BY DEF ReactionFails, ReactionLost
<1>3. clicks'[c] = k /\ \A d \in Clicks \ {c} : clicks'[d] = clicks[d]
  BY <1>1, ReactionFacts
<1>4. \A d \in Clicks :
        /\ clicks'[d].server = "read" =>
             clicks[d].server = "read" /\ clicks'[d].next = clicks[d].next /\ clicks'[d].emoji = clicks[d].emoji
        /\ clicks'[d].server = "written" <=> clicks[d].server = "written"
        /\ clicks[d].server = "written" => clicks'[d].emoji = clicks[d].emoji
  BY <1>1, <1>3
<1>5. ~ overlap' => ClicksCounted'
  BY <1>2, <1>4, CountedStays DEF ReactionsInv
<1>6. row' \in ReactionSets /\ shown' \in ReactionSets /\ overlap' \in BOOLEAN
  BY <1>2 DEF ReactionsInv
<1> QED BY <1>1, <1>2, <1>5, <1>6, ClickMoves

LEMMA ShownKeeps == ASSUME ReactionsInv, NEW c \in Clicks, ReactionShown(c) PROVE ReactionsInv'
<1> DEFINE k == [clicks[c] EXCEPT !.page = "over"]
<1>1. /\ clicks' = [clicks EXCEPT ![c] = k] /\ clicks[c].page = "waits" /\ clicks[c].server = "written"
      /\ shown' = IF clicks[c].of = object THEN clicks[c].next ELSE shown
      /\ UNCHANGED <<row, object, loads, overlap, calm>>
  BY ReactionFacts DEF ReactionShown
<1>2. /\ k \in ClickStates /\ k.emoji = clicks[c].emoji /\ k.next = clicks[c].next
      /\ k.server = "written" /\ k.page = "over" /\ clicks[c].next \in ReactionSets
  BY <1>1, ReactionFacts DEF ClickStates
<1> HIDE DEF k
<1>3. ClickSound(k)
  BY <1>1, <1>2, ReactionFacts DEF ClickSound
<1>4. clicks'[c] = k /\ \A d \in Clicks \ {c} : clicks'[d] = clicks[d]
  BY <1>1, ReactionFacts
<1>5. ~ overlap' => ClicksCounted'
  BY <1>1, <1>2, <1>4, CountedStays DEF ReactionsInv
<1>6. calm' => Calm'
  <2> SUFFICES ASSUME calm PROVE Calm'
    BY <1>1
  <2>1. OnlyClick(c)
    BY <1>1, UnderWay
  <2>2. shown' = row'
    BY <1>1, <2>1 DEF OnlyClick
  <2>3. ClicksAtRest'
    BY <1>2, <1>4, <2>1 DEF OnlyClick, ClicksAtRest
  <2>4. GotTheRow'
    BY <1>1, <2>1 DEF OnlyClick, Active, GotTheRow
  <2> QED BY <2>2, <2>3, <2>4 DEF Calm
<1>7. /\ row' \in ReactionSets /\ shown' \in ReactionSets /\ overlap' \in BOOLEAN /\ calm' \in BOOLEAN
      /\ UNCHANGED <<object, loads>>
  BY <1>1, <1>2 DEF ReactionsInv
<1> QED BY <1>1, <1>2, <1>3, <1>5, <1>6, <1>7, ClickMoves

(* A step of one load.                                                     *)
LEMMA LoadMoves ==
  ASSUME ReactionsInv, NEW l \in Loads, NEW m \in LoadStates, loads' = [loads EXCEPT ![l] = m],
         UNCHANGED <<row, clicks, overlap>>, shown' \in ReactionSets, object' \in SUBSET Loads,
         calm' \in BOOLEAN, m.at = "got" => m.got = row,
         m.at \in {"asked", "got"} /\ m.alone => ClicksAtRest /\ GotTheRow,
         calm' => ClicksAtRest /\ shown' = row /\ GotTheRow
  PROVE  ReactionsInv'
<1>1. /\ loads' \in [Loads -> LoadStates] /\ loads'[l] = m
      /\ \A x \in Loads \ {l} : loads'[x] = loads[x]
  BY ReactionFacts
<1>2. GotTheRow => GotTheRow'
  BY <1>1 DEF GotTheRow
<1>3. ClicksAtRest' <=> ClicksAtRest
  BY DEF ClicksAtRest
<1>4. \A x \in Loads : (Active(x) /\ loads[x].alone)' => ClicksAtRest' /\ GotTheRow'
  BY <1>1, <1>2, <1>3 DEF ReactionsInv, Active
<1>5. calm' => Calm'
  BY <1>2, <1>3 DEF Calm
<1>6. ~ overlap' => ClicksCounted'
  BY CountedStays DEF ReactionsInv
<1> QED BY <1>1, <1>4, <1>5, <1>6 DEF ReactionsInv

(* A load that is under way excludes a click that is alone.                *)
LEMMA CalmLoad ==
  ASSUME ReactionsInv, NEW l \in Loads, Active(l), calm \/ loads[l].alone
  PROVE  ClicksAtRest /\ GotTheRow /\ (calm => shown = row)
BY DEF ReactionsInv, Calm, OnlyClick

LEMMA LoadAskedKeeps == ASSUME ReactionsInv, NEW l \in Loads, LoadAsked(l) PROVE ReactionsInv'
<1> DEFINE m == [loads[l] EXCEPT !.at = "asked", !.alone = AtRest]
<1>1. loads' = [loads EXCEPT ![l] = m] /\ UNCHANGED <<row, shown, object, clicks, overlap>> /\ calm' = (calm /\ AtRest)
  BY ReactionFacts DEF LoadAsked
<1>2. AtRest \in BOOLEAN
  BY DEF AtRest
<1>3. m \in LoadStates /\ m.at = "asked" /\ m.alone = AtRest
  BY <1>2, ReactionFacts DEF LoadStates
<1> HIDE DEF m
<1>4. AtRest => ClicksAtRest /\ GotTheRow /\ (calm => shown = row)
  BY DEF AtRest, ReactionsInv, Calm, OnlyClick, ClicksAtRest, GotTheRow
<1>5. shown' \in ReactionSets /\ object' \in SUBSET Loads /\ calm' \in BOOLEAN
  BY <1>1, <1>2 DEF ReactionsInv
<1>6. calm' => ClicksAtRest /\ shown' = row /\ GotTheRow
  BY <1>1, <1>4
<1> QED BY <1>1, <1>3, <1>4, <1>5, <1>6, LoadMoves

LEMMA LoadReadsKeeps == ASSUME ReactionsInv, NEW l \in Loads, LoadReads(l) PROVE ReactionsInv'
<1> DEFINE m == [loads[l] EXCEPT !.at = "got", !.got = row]
<1>1. loads' = [loads EXCEPT ![l] = m] /\ UNCHANGED <<row, shown, object, clicks, overlap, calm>> /\ Active(l)
  BY ReactionFacts DEF LoadReads, Active
<1>2. row \in ReactionSets
  BY DEF ReactionsInv
<1>3. m \in LoadStates /\ m.at = "got" /\ m.got = row /\ m.alone = loads[l].alone
  BY <1>2, ReactionFacts DEF LoadStates
<1> HIDE DEF m
<1>5. shown' \in ReactionSets /\ object' \in SUBSET Loads /\ calm' \in BOOLEAN
  BY <1>1 DEF ReactionsInv
<1>6. calm' => ClicksAtRest /\ shown' = row /\ GotTheRow
  BY <1>1, CalmLoad
<1> QED BY <1>1, <1>3, <1>5, <1>6, CalmLoad, LoadMoves

LEMMA LoadShownKeeps == ASSUME ReactionsInv, NEW l \in Loads, LoadShown(l) PROVE ReactionsInv'
<1> DEFINE m == [loads[l] EXCEPT !.at = "over"]
<1>1. loads' = [loads EXCEPT ![l] = m] /\ UNCHANGED <<row, clicks, overlap>> /\ Active(l)
  BY ReactionFacts DEF LoadShown, Active
<1>2. m \in LoadStates /\ m.at = "over" /\ loads[l].got \in ReactionSets /\ loads[l].alone \in BOOLEAN
  BY ReactionFacts DEF LoadStates
<1> HIDE DEF m
<1>3. \/ loads[l].at = "got" /\ shown' = loads[l].got /\ object' = {l} /\ calm' = (calm \/ loads[l].alone)
      \/ UNCHANGED <<shown, object, calm>>
  BY DEF LoadShown
<1>5. shown' \in ReactionSets /\ object' \in SUBSET Loads /\ calm' \in BOOLEAN
  BY <1>2, <1>3 DEF ReactionsInv
<1>6. calm' => ClicksAtRest /\ shown' = row /\ GotTheRow
  <2>1. calm \/ loads[l].alone => ClicksAtRest /\ GotTheRow /\ (calm => shown = row)
    BY <1>1, CalmLoad
  <2>2. CASE UNCHANGED <<shown, object, calm>>
    BY <2>1, <2>2
  <2>3. CASE loads[l].at = "got" /\ shown' = loads[l].got /\ calm' = (calm \/ loads[l].alone)
    <3>1. GotTheRow => loads[l].got = row
      BY <2>3 DEF GotTheRow
    <3> HIDE DEF GotTheRow
    <3> QED BY <2>1, <2>3, <3>1
  <2> QED BY <1>3, <2>2, <2>3
<1> QED BY <1>1, <1>2, <1>5, <1>6, LoadMoves

LEMMA ReactionsBegin == ReactionsInit => ReactionsInv
<1> SUFFICES ASSUME ReactionsInit PROVE ReactionsInv
  OBVIOUS
<1> DEFINE k == [emoji |-> {}, of |-> {}, server |-> "idle", page |-> "idle", next |-> {}]
           m == [at |-> "idle", got |-> {}, alone |-> FALSE]
<1>1. k \in ClickStates /\ m \in LoadStates /\ ClickSound(k) /\ k.server = "idle" /\ k.page = "idle" /\ m.at = "idle"
  BY DEF ClickStates, LoadStates, ClickSound, ReactionSets
<1>2. clicks = [c \in Clicks |-> k] /\ loads = [l \in Loads |-> m] /\ row = {} /\ shown = {} /\ object = {}
  BY DEF ReactionsInit
<1> HIDE DEF k, m
<1>3. /\ clicks \in [Clicks -> ClickStates] /\ loads \in [Loads -> LoadStates]
      /\ \A c \in Clicks : clicks[c] = k
      /\ \A l \in Loads : loads[l] = m
  BY <1>1, <1>2
<1>4. \A e : Hits(e) = {}
  BY <1>1, <1>3 DEF Hits
<1>5. \A e : ~ Odd(e)
  <2>1. \A e : Cardinality({c \in Clicks : clicks[c].emoji = {e} /\ clicks[c].server = "written"}) = 0
    BY <1>4, FS_EmptySet DEF Hits
  <2>2. 0 % 2 # 1
    OBVIOUS
  <2> QED BY <2>1, <2>2, Zenon DEF Odd
<1>6. ClicksCounted
  BY <1>1, <1>2, <1>3, <1>5 DEF ClicksCounted
<1>7. ClicksAtRest /\ GotTheRow /\ \A l \in Loads : ~ Active(l)
  BY <1>1, <1>3 DEF ClicksAtRest, GotTheRow, Active
<1>8. {} \in ReactionSets /\ overlap = FALSE /\ calm = TRUE
  BY DEF ReactionSets, ReactionsInit
<1> QED BY <1>1, <1>2, <1>3, <1>6, <1>7, <1>8 DEF ReactionsInv, Calm

LEMMA ReactionsKept == ReactionsInv /\ [ReactionsNext]_reactionVars => ReactionsInv'
<1> SUFFICES ASSUME ReactionsInv, [ReactionsNext]_reactionVars PROVE ReactionsInv'
  OBVIOUS
<1>1. CASE UNCHANGED reactionVars
  <2>1. UNCHANGED <<row, shown, object, clicks, loads, overlap, calm>>
    BY <1>1 DEF reactionVars
  <2>2. ~ overlap' => ClicksCounted'
    BY <2>1, CountedStays DEF ReactionsInv
  <2>3. calm' => Calm'
    BY <2>1 DEF ReactionsInv, Calm, ClicksAtRest, GotTheRow, OnlyClick, Active
  <2>4. \A l \in Loads : (Active(l) /\ loads[l].alone)' => ClicksAtRest' /\ GotTheRow'
    BY <2>1 DEF ReactionsInv, ClicksAtRest, GotTheRow, Active
  <2> QED BY <2>1, <2>2, <2>3, <2>4 DEF ReactionsInv
<1> QED BY <1>1, ToggleKeeps, ReadsClickKeeps, WritesClickKeeps, ClickLostKeeps, ShownKeeps, LoadAskedKeeps,
           LoadReadsKeeps, LoadShownKeeps DEF ReactionsNext

(* Unless the server handled two clicks at once, the row is what the       *)
(* clicks it handled add up to; and the page at rest shows the row when    *)
(* what happened since a load of its own went through one after the other: *)
(* for any emojis, clicks and loads, whatever else is lost or late.        *)
THEOREM ReactionsAddUp == ReactionsSpec => []ReactionsSettle
<1>1. ReactionsInv => ReactionsSettle
  <2> SUFFICES ASSUME ReactionsInv PROVE ReactionsSettle
    OBVIOUS
  <2>1. AtRest /\ calm => shown = row
    BY DEF ReactionsInv, AtRest, ClicksAtRest, Calm, OnlyClick
  <2> QED BY <2>1 DEF ReactionsInv, ReactionsSettle, ClicksCounted
<1> QED BY <1>1, ReactionsBegin, ReactionsKept, PTL DEF ReactionsSpec

-----------------------------------------------------------------------------
LEMMA SameCardinality ==
  ASSUME NEW S PROVE Tested!Cardinality(S) = Cardinality(S)
BY Zenon DEF Tested!Cardinality, Cardinality

(* What listings are made of.                                              *)
LEMMA ThoseIsSeq ==
  ASSUME NEW S, NEW s \in Seq(S), NEW K
  PROVE  \E T : Tested!Those(s, K) \in Seq(T)
<1> DEFINE place == {i \in DOMAIN s : s[i] \in K}
           Nth(n) == CHOOSE i \in place : Tested!Cardinality({j \in place : j <= i}) = n
           those == [n \in 1..Tested!Cardinality(place) |-> s[Nth(n)]]
<1>1. Tested!Cardinality(place) \in Nat
  <2>1. DOMAIN s = 1..Len(s) /\ Len(s) \in Nat
    OBVIOUS
  <2>2. IsFiniteSet(1..Len(s))
    BY <2>1, FS_Interval
  <2>3. place \subseteq 1..Len(s)
    BY <2>1
  <2> QED BY <2>2, <2>3, FS_Subset, FS_CardinalityType, SameCardinality
<1>2. Tested!Those(s, K) = those
  BY Zenon DEF Tested!Those
<1> HIDE DEF place, Nth
<1>3. those \in Seq({s[Nth(n)] : n \in 1..Tested!Cardinality(place)})
  BY <1>1
<1> QED BY <1>2, <1>3

LEMMA DescendingIs ==
  ASSUME NEW T, NEW s \in Seq(T)
  PROVE  /\ Descending(s) \in Seq(T) /\ Len(Descending(s)) = Len(s)
         /\ \A i \in 1..Len(s) : Descending(s)[i] = s[Len(s) + 1 - i]
BY DEF Descending

(* The last rows of a table in ascending order are the first in descending *)
(* order, turned around.                                                   *)
LEMMA TakeNewestIsNewest ==
  ASSUME NEW T, NEW s \in Seq(T), NEW n \in Nat \ {0}
  PROVE  TakeNewest(s, n) = Tested!Newest(s, n)
<1>1. CASE n >= Len(s)
  BY <1>1, DescendingIs DEF TakeNewest, Descending, Tested!Newest
<1>2. CASE n < Len(s)
  <2> DEFINE first == SubSeq(Descending(s), 1, n)
             last == SubSeq(s, Len(s) - n + 1, Len(s))
  <2>1. /\ first \in Seq(T) /\ Len(first) = n
        /\ \A i \in 1..n : first[i] = Descending(s)[i]
    BY <1>2, DescendingIs, SubSeqProperties
  <2>2. /\ last \in Seq(T) /\ Len(last) = n
        /\ \A i \in 1..n : last[i] = s[Len(s) - n + i]
    BY <1>2, SubSeqProperties
  <2>3. TakeNewest(s, n) = Descending(first) /\ Tested!Newest(s, n) = last
    BY <1>2 DEF TakeNewest, Tested!Newest
  <2> HIDE DEF first, last
  <2>4. Descending(first) \in Seq(T) /\ Len(Descending(first)) = n
    BY <2>1, DescendingIs
  <2>5. ASSUME NEW i \in 1..n PROVE Descending(first)[i] = last[i]
    <3>1. Descending(first)[i] = first[n + 1 - i]
      BY <2>1, DescendingIs
    <3>2. first[n + 1 - i] = Descending(s)[n + 1 - i]
      BY <2>1
    <3>3. /\ n + 1 - i \in 1..Len(s) /\ Len(s) \in Nat
          /\ Len(s) + 1 - (n + 1 - i) = Len(s) - n + i
      BY <1>2
    <3>4. Descending(s)[n + 1 - i] = s[Len(s) + 1 - (n + 1 - i)]
      BY <3>3, DescendingIs
    <3> QED BY <2>2, <3>1, <3>2, <3>3, <3>4
  <2> QED BY <2>2, <2>3, <2>4, <2>5, SeqEqual
<1> QED BY <1>1, <1>2

LEMMA TakeAllIsAll ==
  ASSUME NEW T, NEW s \in Seq(T)
  PROVE  TakeNewest(s, Len(s)) = s
<1> DEFINE t == Descending(s)
<1>1. t \in Seq(T) /\ Len(t) = Len(s) /\ \A i \in 1..Len(s) : t[i] = s[Len(s) + 1 - i]
  BY DescendingIs
<1>2. TakeNewest(s, Len(s)) = Descending(t)
  BY DEF TakeNewest
<1> HIDE DEF t
<1>3. /\ Descending(t) \in Seq(T) /\ Len(Descending(t)) = Len(s)
      /\ \A i \in 1..Len(s) : Descending(t)[i] = t[Len(s) + 1 - i]
  BY <1>1, DescendingIs
<1>4. ASSUME NEW i \in 1..Len(s) PROVE Descending(t)[i] = s[i]
  <2>1. Len(s) + 1 - i \in 1..Len(s) /\ Len(s) + 1 - (Len(s) + 1 - i) = i
    OBVIOUS
  <2> QED BY <1>1, <1>3, <2>1
<1> QED BY <1>2, <1>3, <1>4, SeqEqual

-----------------------------------------------------------------------------
(* What the simulation needs of a state: the columns and lists it has, and *)
(* that nothing touched a message whose reaction is being toggled.         *)
NextOf(had, e) == LET set == IF had = Null THEN {} ELSE had
                 IN IF e \in set THEN set \ {e} ELSE set \cup {e}

RepoInv ==
  /\ made \in Seq(Runs)
  /\ DOMAIN content = Runs
  /\ \A r \in Runs : DOMAIN content[r] = Tested!Columns
  /\ content = [r \in Runs |-> [c \in Tested!Columns |-> content[r][c]]]
  /\ \A r \in Runs : content[r].output # None /\ content[r].error # None
  /\ \A r \in Runs : content[r].attempts \in Nat
  /\ kept \in [Runs -> [attempts : Nat, error : {"cleared", "written"}]]
  /\ open \in [Runs -> Nat] /\ requeued \in [Runs -> Nat]
  /\ thread \in [Staff -> Seq(Messages)]
  /\ reactions \in [Messages -> {Null} \cup SUBSET Emoji]
  /\ toggling # NoToggle =>
       \E m \in Messages, e \in Emoji, a \in Staff :
         /\ InThread(a, m)
         /\ toggling = [message |-> m, emoji |-> e, next |-> NextOf(reactions[m], e)]

(* Reading undefined for null once more changes nothing.                   *)
LEMMA PatchTwice ==
  ASSUME NEW r, NEW entry PROVE AsPatched(r, MapRun(entry)) = AsPatched(r, entry)
<1>1. DOMAIN MapRun(entry) = DOMAIN entry
  BY DEF MapRun
<1>2. \A c \in DOMAIN entry : MapRun(MapRun(entry))[c] = MapRun(entry)[c]
  BY <1>1, NullAssumption DEF MapRun, Undefined
<1>3. MapRun(entry).attempts = entry.attempts \/ "attempts" \notin DOMAIN entry
  BY DEF MapRun
<1> QED BY <1>1, <1>2, <1>3 DEF AsPatched

LEMMA PlainAnswer ==
  ASSUME answer'[1] \notin {"run", "attempts", "runs"} PROVE Answered' = answer'
BY DEF Answered

LEMMA SeenSame == ASSUME UNCHANGED runVars PROVE UNCHANGED <<made, content, kept, [r \in Runs |-> AsPatched(r, content[r])]>>
BY DEF runVars, AsPatched, MapRun, Undefined

LEMMA InitSim == RepoInit => Tested!Init /\ RepoInv
<1> SUFFICES ASSUME RepoInit PROVE Tested!Init /\ RepoInv
  OBVIOUS
<1> USE DEF RepoInit
<1>1. [r \in Runs |-> AsPatched(r, content[r])] = [r \in Runs |-> Tested!NewRun]
  <2>1. ASSUME NEW r \in Runs PROVE AsPatched(r, content[r]) = Tested!NewRun
    <3>1. /\ content[r] = [status |-> "queued", attempts |-> 0, output |-> Null, error |-> Null]
          /\ kept[r].attempts = 0
      OBVIOUS
    <3> QED BY <3>1 DEF AsPatched, MapRun, Undefined, Tested!NewRun
  <2> QED BY <2>1
<1>2. [m \in Messages |-> Undefined(reactions[m])] = [m \in Messages |-> None]
  BY DEF Undefined
<1>5. Answered = <<"done">>
  BY DEF Answered
<1>3. Tested!Init
  BY <1>1, <1>2, <1>5 DEF Tested!Init, Messages, Tested!Messages
<1>4. RepoInv
  BY NullAssumption DEF RepoInv, Tested!Columns, NoToggle
<1> QED BY <1>3, <1>4

-----------------------------------------------------------------------------
(* The calls about runs.                                                   *)

LEMMA FoundIsCreated == \A r : Found(r) <=> r \in Tested!Created
BY DEF Found, Tested!Created

LEMMA MappedIsShown ==
  ASSUME NEW s, answer' = <<"runs", s, Mapped(s)>>, UNCHANGED runVars
  PROVE  Answered' = <<"runs", s, Tested!Shown(s)>>
<1> DEFINE D == {q \in Runs : \E i \in DOMAIN s : s[i] = q}
<1>1. Mapped(s) = [r \in D |-> MapRun(content[r])] /\ Tested!Shown(s) = [r \in D |-> [q \in Runs |-> AsPatched(q, content[q])][r]]
  BY DEF Mapped, Tested!Shown
<1>2. \A r \in D : AsPatched(r, MapRun(content[r])) = AsPatched(r, content[r])
  BY PatchTwice
<1>3. Answered' = <<"runs", s, [r \in DOMAIN Mapped(s) |-> AsPatched(r, Mapped(s)[r])]>>
  BY DEF Answered, AsPatched, MapRun, Undefined, runVars
<1>4. [r \in DOMAIN Mapped(s) |-> AsPatched(r, Mapped(s)[r])] = Tested!Shown(s)
  <2> HIDE DEF D
  <2>1. D \subseteq Runs
    BY DEF D
  <2> QED BY <1>1, <1>2, <2>1
<1> QED BY <1>3, <1>4

LEMMA RunsUntouched ==
  ASSUME UNCHANGED <<letterVars, chatVars>>
  PROVE  UNCHANGED <<open, thread, reactions, toggling,
                     [m \in Messages |-> Undefined(reactions[m])]>>
BY DEF letterVars, chatVars, Messages, Tested!Messages

LEMMA UpdateSim ==
  ASSUME RepoInv, NEW r \in Runs, NEW s \in States, NEW p \in Patches, UpdateRunStatus(r, s, p)
  PROVE  Tested!UpdateRunStatus(r, s, p)
<1> USE DEF UpdateRunStatus
<1>1. CASE Found(r)
  <2> DEFINE abstract == [q \in Runs |-> AsPatched(q, content[q])]
             entry == [c \in Tested!Columns |->
                       IF c = "status" THEN s
                       ELSE IF c \in Written(p) THEN p[c] ELSE content[r][c]]
             patched == [c \in Tested!Columns |->
                           IF c = "status" THEN s
                           ELSE IF c \in DOMAIN p THEN p[c] ELSE abstract[r][c]]
             rest == Left(r, p)
             after == [c \in DOMAIN entry |-> IF c = "attempts" THEN entry[c] - rest.attempts
                                               ELSE IF c = "error" /\ rest.error = "cleared" THEN None
                                               ELSE MapRun(entry)[c]]
  <2>1. content' = [content EXCEPT ![r] = entry] /\ kept' = [kept EXCEPT ![r] = rest] /\ DOMAIN content = Runs
    BY <1>1 DEF RepoInv
  <2>2. /\ DOMAIN p \subseteq {"output", "error", "attempts"}
        /\ "output" \in DOMAIN p => p.output \notin {None, Null}
        /\ "error" \in DOMAIN p => p.error # Null
        /\ "attempts" \in DOMAIN p => p.attempts = 0
    BY PatchesAssumption
  <2>3. /\ DOMAIN content[r] = Tested!Columns /\ content[r].attempts \in Nat
        /\ kept \in [Runs -> [attempts : Nat, error : {"cleared", "written"}]]
    BY DEF RepoInv
  <2>4. DOMAIN entry = Tested!Columns /\ DOMAIN after = Tested!Columns /\ DOMAIN patched = Tested!Columns
    OBVIOUS
  <2>5. after = patched
    <3>1. after.attempts = patched.attempts
      <4>1. "attempts" \in Tested!Columns /\ entry.attempts = content[r].attempts
        BY DEF Written, Tested!Columns
      <4>2. abstract[r].attempts = content[r].attempts - kept[r].attempts
        BY <2>3, <4>1 DEF AsPatched
      <4>3. rest.attempts = IF "attempts" \in DOMAIN p THEN content[r].attempts ELSE kept[r].attempts
        BY DEF Left
      <4>4. after.attempts = content[r].attempts - rest.attempts
        BY <2>4, <4>1
      <4>5. patched.attempts = IF "attempts" \in DOMAIN p THEN 0 ELSE content[r].attempts - kept[r].attempts
        BY <2>2, <4>1, <4>2
      <4> HIDE DEF after, patched, rest
      <4> QED BY <2>3, <4>3, <4>4, <4>5
    <3>2. after.error = patched.error
      <4>1. "error" \in Tested!Columns
        BY DEF Tested!Columns
      <4>2. rest.error = IF "error" \notin DOMAIN p THEN kept[r].error
                         ELSE IF p.error = None THEN "cleared" ELSE "written"
        BY DEF Left
      <4>3. abstract[r].error = IF kept[r].error = "cleared" THEN None ELSE Undefined(content[r].error)
        BY <2>3, <4>1 DEF AsPatched, MapRun
      <4>4. entry.error = IF "error" \in DOMAIN p /\ p.error # None THEN p.error ELSE content[r].error
        BY <4>1 DEF Written
      <4>5. after.error = IF rest.error = "cleared" THEN None ELSE Undefined(entry.error)
        BY <2>4, <4>1 DEF MapRun
      <4>6. patched.error = IF "error" \in DOMAIN p THEN p.error ELSE abstract[r].error
        BY <4>1
      <4> HIDE DEF after, patched, rest, entry, abstract
      <4> QED BY <2>2, <4>2, <4>3, <4>4, <4>5, <4>6 DEF Undefined
    <3>3. after.output = patched.output
      <4>1. "output" \in Tested!Columns
        BY DEF Tested!Columns
      <4>2. abstract[r].output = Undefined(content[r].output)
        BY <2>3, <4>1 DEF AsPatched, MapRun
      <4>3. entry.output = IF "output" \in DOMAIN p THEN p.output ELSE content[r].output
        BY <2>2, <4>1 DEF Written
      <4>4. after.output = Undefined(entry.output)
        BY <2>4, <4>1 DEF MapRun
      <4>5. patched.output = IF "output" \in DOMAIN p THEN p.output ELSE abstract[r].output
        BY <4>1
      <4> HIDE DEF after, patched, rest, entry, abstract
      <4> QED BY <2>2, <4>2, <4>3, <4>4, <4>5 DEF Undefined
    <3>4. after.status = patched.status
      BY <2>4 DEF MapRun, Tested!Columns
    <3>5. \A c \in Tested!Columns : after[c] = patched[c]
      <4> HIDE DEF after, patched
      <4> QED BY <3>1, <3>2, <3>3, <3>4 DEF Tested!Columns
    <3>6. after = [c \in Tested!Columns |-> after[c]] /\ patched = [c \in Tested!Columns |-> patched[c]]
      BY <2>4
    <3> HIDE DEF after, patched
    <3> QED BY <3>5, <3>6
  <2>6. AsPatched(r, content[r])' = after
    <3>1. content'[r] = entry /\ kept'[r] = rest
      BY <2>1, <2>3
    <3> HIDE DEF entry, rest
    <3> QED BY <3>1 DEF AsPatched, MapRun, Undefined
  <2>7. ASSUME NEW q \in Runs \ {r} PROVE AsPatched(q, content[q])' = AsPatched(q, content[q])
    <3>1. content'[q] = content[q] /\ kept'[q] = kept[q]
      BY <2>1, <2>3
    <3> QED BY <3>1 DEF AsPatched, MapRun, Undefined
  <2>8. [q \in Runs |-> AsPatched(q, content[q])]' = [abstract EXCEPT ![r] = patched]
    <3> HIDE DEF after, patched
    <3>1. \A q \in Runs : AsPatched(q, content[q])' = IF q = r THEN patched ELSE abstract[q]
      BY <2>5, <2>6, <2>7
    <3> HIDE DEF abstract
    <3>2. DOMAIN abstract = Runs
      BY DEF abstract
    <3> QED BY <3>1, <3>2
  <2>9. r \in Tested!Created /\ Answered' = <<"done">>
        /\ UNCHANGED <<made, open, thread, [m \in Messages |-> Undefined(reactions[m])]>>
    BY <1>1, FoundIsCreated, RunsUntouched, PlainAnswer
  <2> QED BY <2>8, <2>9 DEF Tested!UpdateRunStatus, Messages, Tested!Messages
<1>2. CASE ~ Found(r)
  <2>1. UNCHANGED runVars /\ answer' = <<"throws">>
    BY <1>2 DEF runVars
  <2>2. UNCHANGED [q \in Runs |-> AsPatched(q, content[q])] /\ Answered' = <<"throws">>
    BY <2>1, SeenSame, PlainAnswer
  <2> QED BY <1>2, <2>2, FoundIsCreated, RunsUntouched DEF Tested!UpdateRunStatus, Messages, Tested!Messages
<1> QED BY <1>1, <1>2

LEMMA IncrementSim ==
  ASSUME RepoInv, NEW r \in Runs, IncrementRunAttempts(r)
  PROVE  Tested!IncrementRunAttempts(r)
<1> USE DEF IncrementRunAttempts
<1> DEFINE abstract == [q \in Runs |-> AsPatched(q, content[q])]
           n == content[r].attempts
           k == kept[r].attempts
<1>0. /\ DOMAIN content = Runs /\ DOMAIN content[r] = Tested!Columns /\ "attempts" \in DOMAIN content[r]
      /\ abstract[r].attempts = n - k /\ n \in Nat /\ k \in Nat
  BY DEF RepoInv, AsPatched, Tested!Columns
<1>3. n < MaxCount /\ MaxCount \in Nat
  BY LimitsAssumption
<1>4. abstract[r].attempts < MaxCount
  <2> HIDE DEF n, k, abstract
  <2> QED BY <1>0, <1>3
<1>1. CASE Found(r)
  <2>1. content' = [content EXCEPT ![r].attempts = n + 1] /\ UNCHANGED kept
    BY <1>1
  <2>2. content'[r] = [content[r] EXCEPT !.attempts = n + 1] /\ content'[r].attempts = n + 1
    BY <1>0, <2>1
  <2>3. \A q \in Runs \ {r} : content'[q] = content[q]
    BY <1>0, <2>1
  <2>4. AsPatched(r, content[r])' = [abstract[r] EXCEPT !.attempts = abstract[r].attempts + 1]
    <3> DEFINE was == AsPatched(r, content[r])
               is == AsPatched(r, content[r])'
    <3>1. DOMAIN is = Tested!Columns /\ DOMAIN was = Tested!Columns /\ abstract[r] = was
      BY <1>0, <2>2 DEF AsPatched
    <3>2. is.attempts = n + 1 - k
      BY <1>0, <2>1, <2>2 DEF AsPatched
    <3>3. is.attempts = was.attempts + 1
      <4> HIDE DEF n, k, is, abstract
      <4> QED BY <1>0, <3>1, <3>2
    <3>4. \A c \in Tested!Columns \ {"attempts"} : is[c] = was[c]
      BY <1>0, <2>1, <2>2 DEF AsPatched, MapRun, Undefined
    <3>5. is = [c \in Tested!Columns |-> is[c]] /\ was = [c \in Tested!Columns |-> was[c]]
      BY <1>0, <2>2 DEF AsPatched
    <3> HIDE DEF is, was, abstract
    <3>6. is = [was EXCEPT !.attempts = was.attempts + 1]
      BY <3>1, <3>3, <3>4, <3>5
    <3> QED BY <3>1, <3>6 DEF is
  <2>7. ASSUME NEW q \in Runs \ {r} PROVE AsPatched(q, content[q])' = abstract[q]
    BY <2>1, <2>3 DEF AsPatched, MapRun, Undefined
  <2>5. [q \in Runs |-> AsPatched(q, content[q])]'
          = [abstract EXCEPT ![r].attempts = abstract[r].attempts + 1]
    <3> DEFINE new == [abstract[r] EXCEPT !.attempts = abstract[r].attempts + 1]
    <3>1. \A q \in Runs : AsPatched(q, content[q])' = IF q = r THEN new ELSE abstract[q]
      <4> HIDE DEF abstract
      <4> QED BY <2>4, <2>7
    <3>2. DOMAIN abstract = Runs
      OBVIOUS
    <3>3. [abstract EXCEPT ![r].attempts = abstract[r].attempts + 1] = [abstract EXCEPT ![r] = new]
      BY <3>2
    <3> HIDE DEF abstract, new
    <3> QED BY <3>1, <3>2, <3>3
  <2>6. r \in Tested!Created /\ Answered' = <<"attempts", r, abstract[r].attempts + 1>>
        /\ UNCHANGED <<made, open, thread, [m \in Messages |-> Undefined(reactions[m])]>>
    <3>1. answer' = <<"attempts", r, n + 1>> /\ UNCHANGED kept
      BY <1>1, <2>2
    <3>2. n + 1 - k = abstract[r].attempts + 1
      <4> HIDE DEF n, k, abstract
      <4> QED BY <1>0
    <3>3. answer'[1] = "attempts" /\ answer'[2] = r /\ answer'[3] - kept'[answer'[2]].attempts = abstract[r].attempts + 1
      <4>1. answer'[1] = "attempts" /\ answer'[2] = r /\ answer'[3] = n + 1
        BY <3>1
      <4>2. kept'[answer'[2]].attempts = k
        BY <3>1, <4>1
      <4> HIDE DEF n, k, abstract
      <4>3. answer'[3] - kept'[answer'[2]].attempts = n + 1 - k
        BY <1>0, <4>1, <4>2, SMTT(30)
      <4> QED BY <3>2, <4>1, <4>3
    <3>4. Answered' = <<"attempts", answer'[2], answer'[3] - kept'[answer'[2]].attempts>>
      BY <3>3 DEF Answered
    <3>5. Answered' = <<"attempts", r, abstract[r].attempts + 1>>
      <4> HIDE DEF abstract
      <4> QED BY <3>3, <3>4
    <3> QED BY <1>1, <3>5, FoundIsCreated, RunsUntouched
  <2> HIDE DEF abstract
  <2> QED BY <1>4, <2>5, <2>6 DEF Tested!IncrementRunAttempts, Messages, Tested!Messages, abstract
<1>2. CASE ~ Found(r)
  <2>1. UNCHANGED runVars /\ answer' = <<"throws">>
    BY <1>2 DEF runVars
  <2>2. UNCHANGED abstract /\ Answered' = <<"throws">>
    BY <2>1, SeenSame, PlainAnswer
  <2> QED BY <1>2, <1>4, <2>1, <2>2, FoundIsCreated, RunsUntouched
      DEF Tested!IncrementRunAttempts, Messages, Tested!Messages, runVars
<1> QED BY <1>1, <1>2

(* A listing of runs: what is kept of a list is a list of runs.            *)
LEMMA ThoseRuns ==
  ASSUME RepoInv, NEW K \in SUBSET Runs
  PROVE  \E T : Tested!Those(made, K) \in Seq(T)
BY ThoseIsSeq DEF RepoInv

LEMMA ListSim ==
  ASSUME RepoInv, NEW whose \in SUBSET Staff, NEW limit \in RunLimits,
         ListRunsByOrg(whose, limit)
  PROVE  Tested!ListRunsByOrg(whose, limit)
<1> DEFINE all == Tested!Those(made, {r \in Runs : AgentOf[r] \in whose})
           some == TakeNewest(all, IF limit > 0 THEN limit ELSE Len(all))
<1>1. PICK T : all \in Seq(T)
  BY ThoseRuns
<1>2. some = IF limit > 0 THEN Tested!Newest(all, limit) ELSE all
  <2> HIDE DEF all
  <2>1. limit \in Nat
    BY LimitsAssumption
  <2> QED BY <1>1, <2>1, TakeNewestIsNewest, TakeAllIsAll
<1>3. answer' = <<"runs", some, Mapped(some)>> /\ UNCHANGED runVars
  BY DEF ListRunsByOrg
<1>4. Answered' = <<"runs", some, Tested!Shown(some)>>
  <2> HIDE DEF some
  <2> QED BY <1>3, MappedIsShown
<1>5. UNCHANGED <<made, [r \in Runs |-> AsPatched(r, content[r])], open, thread,
                  [m \in Messages |-> Undefined(reactions[m])]>>
  BY SeenSame, RunsUntouched DEF ListRunsByOrg, runVars
<1> QED BY <1>2, <1>4, <1>5 DEF Tested!ListRunsByOrg, Messages, Tested!Messages

LEMMA RunSim ==
  ASSUME RepoInv, RunCall PROVE Tested!RunCall
<1>1. ASSUME NEW r \in Runs, CreateRun(r) PROVE Tested!CreateRun(r)
  <2>1. UNCHANGED [q \in Runs |-> AsPatched(q, content[q])] /\ answer' = <<"done">>
    BY <1>1 DEF CreateRun, AsPatched, MapRun, Undefined
  <2>2. Answered' = <<"done">>
    BY <2>1, PlainAnswer
  <2> QED BY <1>1, <2>1, <2>2, FoundIsCreated, RunsUntouched
      DEF CreateRun, Tested!CreateRun, Messages, Tested!Messages
<1>2. ASSUME NEW r \in Runs, GetRun(r) PROVE Tested!GetRun(r)
  <2>1. UNCHANGED runVars /\ UNCHANGED <<letterVars, chatVars>>
    BY <1>2 DEF GetRun
  <2>2. Answered' = IF Found(r) THEN <<"run", r, AsPatched(r, content[r])>> ELSE <<"null">>
    <3>1. CASE Found(r)
      <4>1. answer' = <<"run", r, MapRun(content[r])>>
        BY <1>2, <3>1 DEF GetRun
      <4>2. Answered' = <<"run", r, AsPatched(r, MapRun(content[r]))>>
        BY <2>1, <4>1 DEF Answered, AsPatched, MapRun, Undefined, runVars
      <4> QED BY <3>1, <4>2, PatchTwice
    <3>2. CASE ~ Found(r)
      <4>1. answer' = <<"null">>
        BY <1>2, <3>2 DEF GetRun
      <4> QED BY <3>2, <4>1, PlainAnswer
    <3> QED BY <3>1, <3>2
  <2> QED BY <2>1, <2>2, SeenSame, FoundIsCreated, RunsUntouched
      DEF Tested!GetRun, Messages, Tested!Messages
<1>3. ASSUME NEW r \in Runs, ListChildRuns(r) PROVE Tested!ListChildRuns(r)
  <2> DEFINE some == Tested!Those(made, {q \in Runs : ParentOf[q] = r})
  <2>1. answer' = <<"runs", some, Mapped(some)>> /\ UNCHANGED runVars /\ UNCHANGED <<letterVars, chatVars>>
    BY <1>3 DEF ListChildRuns
  <2>2. Answered' = <<"runs", some, Tested!Shown(some)>>
    <3> HIDE DEF some
    <3> QED BY <2>1, MappedIsShown
  <2> QED BY <2>1, <2>2, SeenSame, RunsUntouched DEF Tested!ListChildRuns, Messages, Tested!Messages
<1> QED BY <1>1, <1>2, <1>3, IncrementSim, UpdateSim, ListSim DEF RunCall, Tested!RunCall

LEMMA RunInv ==
  ASSUME RepoInv, RunCall PROVE RepoInv'
<1>1. UNCHANGED <<open, requeued, thread, reactions, toggling>>
  BY DEF RunCall, CreateRun, GetRun, UpdateRunStatus, IncrementRunAttempts, ListChildRuns,
         ListRunsByOrg, runVars, letterVars, chatVars
<1>2. made' \in Seq(Runs)
  <2>1. ASSUME NEW r \in Runs, CreateRun(r) PROVE made' \in Seq(Runs)
    BY <2>1 DEF RepoInv, CreateRun
  <2>2. CASE ~ \E r \in Runs : CreateRun(r)
    BY <2>2 DEF RepoInv, RunCall, GetRun, UpdateRunStatus, IncrementRunAttempts,
                ListChildRuns, ListRunsByOrg, runVars
  <2> QED BY <2>1, <2>2
<1> DEFINE Shape(f) == /\ DOMAIN f = Runs
                       /\ \A r \in Runs : DOMAIN f[r] = Tested!Columns
                       /\ f = [r \in Runs |-> [c \in Tested!Columns |-> f[r][c]]]
                       /\ \A r \in Runs : f[r].output # None /\ f[r].error # None /\ f[r].attempts \in Nat
<1>3. Shape(content)
  BY DEF RepoInv
<1>4. ASSUME NEW r \in Runs, NEW s \in States, NEW p \in Patches, UpdateRunStatus(r, s, p)
      PROVE  Shape(content')
  BY <1>3, <1>4, PatchesAssumption DEF UpdateRunStatus, Written, Tested!Columns
<1>5. ASSUME NEW r \in Runs, IncrementRunAttempts(r) PROVE Shape(content')
  BY <1>3, <1>5 DEF IncrementRunAttempts, Tested!Columns
<1>6. Shape(content')
  BY <1>3, <1>4, <1>5 DEF RunCall, CreateRun, GetRun, ListChildRuns, ListRunsByOrg, runVars
<1>7. kept' \in [Runs -> [attempts : Nat, error : {"cleared", "written"}]]
  <2> DEFINE K == [attempts : Nat, error : {"cleared", "written"}]
  <2>1. kept \in [Runs -> K] /\ \A r \in Runs : content[r].attempts \in Nat
    BY DEF RepoInv
  <2>2. ASSUME NEW r \in Runs, NEW p \in Patches PROVE Left(r, p) \in K
    <3>1. kept[r] \in K /\ kept[r].attempts \in Nat /\ kept[r].error \in {"cleared", "written"}
      BY <2>1
    <3> QED BY <2>1, <3>1 DEF Left
  <2>3. ASSUME NEW r \in Runs, NEW s \in States, NEW p \in Patches, UpdateRunStatus(r, s, p)
        PROVE  kept' \in [Runs -> K]
    <3> HIDE DEF K
    <3> QED BY <2>1, <2>2, <2>3 DEF UpdateRunStatus
  <2> QED BY <2>1, <2>3 DEF RunCall, CreateRun, GetRun, IncrementRunAttempts, ListChildRuns, ListRunsByOrg, runVars
<1> QED BY <1>1, <1>2, <1>6, <1>7 DEF RepoInv, InThread

-----------------------------------------------------------------------------
(* The calls about dead letters.                                           *)

LEMMA LetterSim ==
  ASSUME RepoInv, LetterCall PROVE Tested!LetterCall /\ RepoInv'
<1>0. /\ UNCHANGED <<made, content, kept, thread, reactions, toggling>>
      /\ UNCHANGED [r \in Runs |-> AsPatched(r, content[r])]
      /\ UNCHANGED [m \in Messages |-> Undefined(reactions[m])]
      /\ Answered' = answer'
  <2>1. UNCHANGED runVars /\ UNCHANGED chatVars /\ answer'[1] \in {"done", "letters"}
    BY DEF LetterCall, RecordDeadLetter, ListDeadLetters, MarkDeadLetterRequeued
  <2> QED BY <2>1, SeenSame, PlainAnswer DEF runVars, chatVars, Messages, Tested!Messages
<1>1. open' \in [Runs -> Nat] /\ requeued' \in [Runs -> Nat]
  <2>1. ASSUME NEW r \in Runs, RecordDeadLetter(r)
        PROVE  open' \in [Runs -> Nat] /\ requeued' \in [Runs -> Nat]
    BY <2>1 DEF RepoInv, RecordDeadLetter
  <2>2. ASSUME NEW r \in Runs, MarkDeadLetterRequeued(r)
        PROVE  open' \in [Runs -> Nat] /\ requeued' \in [Runs -> Nat]
    BY <2>2 DEF RepoInv, MarkDeadLetterRequeued
  <2>3. CASE ListDeadLetters
    BY <2>3 DEF RepoInv, ListDeadLetters, letterVars
  <2> QED BY <2>1, <2>2, <2>3 DEF LetterCall
<1>2. RepoInv'
  BY <1>0, <1>1 DEF RepoInv, InThread
<1>3. ASSUME NEW r \in Runs, RecordDeadLetter(r) PROVE Tested!RecordDeadLetter(r)
  <2>1. open[r] < MaxCount
    BY <1>3, LimitsAssumption DEF RepoInv, RecordDeadLetter
  <2> QED BY <1>0, <1>3, <2>1
      DEF RecordDeadLetter, Tested!RecordDeadLetter, Messages, Tested!Messages
<1>4. ASSUME NEW r \in Runs, MarkDeadLetterRequeued(r) PROVE Tested!MarkDeadLetterRequeued(r)
  BY <1>0, <1>4 DEF MarkDeadLetterRequeued, Tested!MarkDeadLetterRequeued, Messages, Tested!Messages
<1>5. ASSUME ListDeadLetters PROVE Tested!ListDeadLetters
  BY <1>0, <1>5 DEF ListDeadLetters, letterVars, Tested!ListDeadLetters, Messages, Tested!Messages
<1> QED BY <1>2, <1>3, <1>4, <1>5 DEF LetterCall, Tested!LetterCall

-----------------------------------------------------------------------------
(* The calls about chat.                                                   *)

LEMMA ChatUntouched ==
  ASSUME UNCHANGED <<runVars, letterVars>>
  PROVE  UNCHANGED <<made, content, kept, open, requeued, [r \in Runs |-> AsPatched(r, content[r])]>>
BY SeenSame DEF runVars, letterVars

LEMMA InThreadAgrees ==
  ASSUME NEW a, NEW m PROVE InThread(a, m) <=> m \in Tested!InThread(a)
BY DEF InThread, Tested!InThread

(* A thread that grows.                                                    *)
LEMMA AppendKeepsInv ==
  ASSUME RepoInv, UNCHANGED <<made, content, kept, open, requeued, reactions, toggling>>,
         NEW a \in Staff, NEW m \in Messages,
         thread' = [thread EXCEPT ![a] = Append(@, m)] \/ UNCHANGED thread
  PROVE  RepoInv'
<1>1. thread' \in [Staff -> Seq(Messages)]
  <2>1. thread \in [Staff -> Seq(Messages)] /\ Append(thread[a], m) \in Seq(Messages)
    BY DEF RepoInv
  <2> QED BY <2>1
<1>2. ASSUME NEW b \in Staff, NEW n, InThread(b, n) PROVE InThread(b, n)'
  <2>1. PICK i \in DOMAIN thread[b] : thread[b][i] = n
    BY <1>2 DEF InThread
  <2>2. thread[b] \in Seq(Messages) /\ i \in 1..Len(thread[b])
    BY <2>1 DEF RepoInv
  <2>3. \/ thread'[b] = thread[b]
        \/ thread'[b] = Append(thread[b], m)
    BY DEF RepoInv
  <2>4. i \in DOMAIN thread'[b] /\ thread'[b][i] = n
    BY <2>1, <2>2, <2>3
  <2> QED BY <2>4 DEF InThread
<1> QED BY <1>1, <1>2 DEF RepoInv

LEMMA AppendSim ==
  ASSUME RepoInv, NEW a \in Staff, NEW r \in Runs,
         AppendChatMessage(a, r) \/ AppendChatReplyIfAbsent(a, r)
  PROVE  /\ RepoInv'
         /\ Tested!AppendChatMessage(a, r) \/ Tested!AppendChatReplyIfAbsent(a, r)
<1> DEFINE q == [role |-> "user", run |-> r]
           p == [role |-> "agent", run |-> r]
<1>1. q \in Messages /\ p \in Messages
  BY DEF Messages, Tested!Messages
<1>2. /\ UNCHANGED <<made, content, kept, open, requeued, reactions, toggling>>
      /\ UNCHANGED [n \in Runs |-> AsPatched(n, content[n])]
      /\ UNCHANGED [m \in Messages |-> Undefined(reactions[m])]
  BY ChatUntouched DEF AppendChatMessage, AppendChatReplyIfAbsent, Messages, Tested!Messages
<1>3. RepoInv'
  BY <1>1, <1>2, AppendKeepsInv DEF AppendChatMessage, AppendChatReplyIfAbsent
<1>6. Answered' = answer'
  BY PlainAnswer DEF AppendChatMessage, AppendChatReplyIfAbsent
<1>4. ASSUME AppendChatMessage(a, r) PROVE Tested!AppendChatMessage(a, r)
  BY <1>2, <1>4, <1>6, InThreadAgrees
  DEF AppendChatMessage, Tested!AppendChatMessage, Messages, Tested!Messages
<1>5. ASSUME AppendChatReplyIfAbsent(a, r) PROVE Tested!AppendChatReplyIfAbsent(a, r)
  <2>1. InThread(a, p) <=> p \in Tested!InThread(a)
    BY InThreadAgrees
  <2>2. /\ AgentOf[r] = a
        /\ thread' = IF p \in Tested!InThread(a) THEN thread ELSE [thread EXCEPT ![a] = Append(@, p)]
        /\ answer' = <<IF p \in Tested!InThread(a) THEN "false" ELSE "true">>
    <3> HIDE DEF p
    <3>1. CASE InThread(a, p)
      BY <1>5, <2>1, <3>1 DEF AppendChatReplyIfAbsent, p
    <3>2. CASE ~ InThread(a, p)
      BY <1>5, <2>1, <3>2 DEF AppendChatReplyIfAbsent, p
    <3> QED BY <3>1, <3>2
  <2> QED BY <1>2, <1>6, <2>2 DEF Tested!AppendChatReplyIfAbsent, Messages, Tested!Messages
<1> QED BY <1>3, <1>4, <1>5

LEMMA ListMessagesSim ==
  ASSUME RepoInv, NEW a \in Staff, NEW limit \in ChatLimits, ListChatMessages(a, limit)
  PROVE  RepoInv' /\ Tested!ListChatMessages(a, limit)
<1>1. /\ UNCHANGED <<made, content, kept, open, requeued, thread, reactions, toggling>>
      /\ UNCHANGED [r \in Runs |-> AsPatched(r, content[r])]
      /\ UNCHANGED [m \in Messages |-> Undefined(reactions[m])]
  BY ChatUntouched DEF ListChatMessages, chatVars, Messages, Tested!Messages
<1>2. RepoInv'
  BY <1>1 DEF RepoInv, InThread
<1> DEFINE some == Tested!Newest(thread[a], limit)
<1>3. limit \in Nat \ {0} /\ thread[a] \in Seq(Messages)
  BY LimitsAssumption DEF RepoInv
<1>4. TakeNewest(thread[a], limit) = some
  BY <1>3, TakeNewestIsNewest
<1>5. some \in Seq(Messages)
  BY <1>3 DEF Tested!Newest
<1>6. \A i \in 1..Len(some) :
        Undefined(reactions[some[i]]) = [m \in Messages |-> Undefined(reactions[m])][some[i]]
  <2> HIDE DEF some
  <2> QED BY <1>5
<1>7. answer' = <<"messages", [i \in 1..Len(some) |->
                    <<some[i], [m \in Messages |-> Undefined(reactions[m])][some[i]]>>]>>
  <2> HIDE DEF some
  <2> QED BY <1>4, <1>6 DEF ListChatMessages
<1>8. Answered' = answer'
  BY <1>7, PlainAnswer
<1> QED BY <1>1, <1>2, <1>7, <1>8 DEF Tested!ListChatMessages, Messages, Tested!Messages

LEMMA ClearSim ==
  ASSUME RepoInv, NEW a \in Staff, ClearChatMessages(a)
  PROVE  RepoInv' /\ Tested!ClearChatMessages(a)
<1>1. /\ UNCHANGED <<made, content, kept, open, requeued, toggling>>
      /\ UNCHANGED [r \in Runs |-> AsPatched(r, content[r])]
      /\ toggling = NoToggle
  BY ChatUntouched DEF ClearChatMessages
<1>2. thread' \in [Staff -> Seq(Messages)]
  BY DEF RepoInv, ClearChatMessages
<1>3. reactions' \in [Messages -> {Null} \cup SUBSET Emoji]
  BY DEF RepoInv, ClearChatMessages
<1>4. RepoInv'
  BY <1>1, <1>2, <1>3 DEF RepoInv
<1>5. [m \in Messages |-> Undefined(reactions'[m])]
        = [m \in Messages |-> IF m \in Tested!InThread(a) THEN None
                              ELSE [n \in Messages |-> Undefined(reactions[n])][m]]
  BY InThreadAgrees DEF ClearChatMessages, Undefined
<1>6. Answered' = answer'
  BY PlainAnswer DEF ClearChatMessages
<1> QED BY <1>1, <1>4, <1>5, <1>6
        DEF ClearChatMessages, Tested!ClearChatMessages, Messages, Tested!Messages

(* The read of a toggle is a step of the abstract repository only if it    *)
(* finds no message.                                                       *)
LEMMA ToggleReadSim ==
  ASSUME RepoInv, NEW a \in Staff, NEW m \in Messages, NEW e \in Emoji, ToggleReads(a, m, e)
  PROVE  /\ RepoInv'
         /\ \/ Tested!ToggleChatReaction(a, m, e)
            \/ UNCHANGED <<made, content, kept, open, requeued, thread, reactions, answer, Answered>>
<1>1. /\ UNCHANGED <<made, content, kept, open, requeued, thread, reactions>>
      /\ UNCHANGED [r \in Runs |-> AsPatched(r, content[r])]
      /\ UNCHANGED [n \in Messages |-> Undefined(reactions[n])]
  BY ChatUntouched DEF ToggleReads, Messages, Tested!Messages
<1>2. CASE InThread(a, m)
  <2>1. toggling' = [message |-> m, emoji |-> e, next |-> NextOf(reactions[m], e)]
    BY <1>2 DEF ToggleReads, NextOf
  <2>2. RepoInv'
    BY <1>1, <1>2, <2>1 DEF RepoInv, InThread
  <2>3. UNCHANGED <<answer, Answered>>
    BY <1>1, <1>2 DEF ToggleReads, Answered, AsPatched, MapRun, Undefined
  <2> QED BY <1>1, <2>2, <2>3
<1>3. CASE ~ InThread(a, m)
  <2>1. toggling' = toggling /\ answer' = <<"null">> /\ m \notin Tested!InThread(a)
    BY <1>3, InThreadAgrees DEF ToggleReads
  <2>2. RepoInv'
    BY <1>1, <2>1 DEF RepoInv, InThread
  <2>4. Answered' = <<"null">>
    BY <2>1, PlainAnswer
  <2>3. Tested!ToggleChatReaction(a, m, e)
    BY <1>1, <2>1, <2>4 DEF Tested!ToggleChatReaction, Messages, Tested!Messages
  <2> QED BY <2>2, <2>3
<1> QED BY <1>2, <1>3

LEMMA ToggleWriteSim ==
  ASSUME RepoInv, ToggleWrites
  PROVE  /\ RepoInv'
         /\ \E a \in Staff, m \in Messages, e \in Emoji : Tested!ToggleChatReaction(a, m, e)
<1>1. /\ UNCHANGED <<made, content, kept, open, requeued, thread>>
      /\ UNCHANGED [r \in Runs |-> AsPatched(r, content[r])]
      /\ toggling' = NoToggle
  BY ChatUntouched DEF ToggleWrites
<1>2. PICK m \in Messages, e \in Emoji, a \in Staff :
        /\ InThread(a, m)
        /\ toggling = [message |-> m, emoji |-> e, next |-> NextOf(reactions[m], e)]
  BY DEF RepoInv, ToggleWrites
<1>3. reactions[m] \in {Null} \cup SUBSET Emoji /\ NextOf(reactions[m], e) \in SUBSET Emoji
  BY DEF RepoInv, NextOf
<1>4. /\ reactions' = [reactions EXCEPT ![m] = NextOf(reactions[m], e)]
      /\ answer' = <<"message", m, NextOf(reactions[m], e)>>
  BY <1>2 DEF ToggleWrites
<1>5. reactions' \in [Messages -> {Null} \cup SUBSET Emoji]
  BY <1>3, <1>4 DEF RepoInv
<1>6. RepoInv'
  BY <1>1, <1>5 DEF RepoInv
<1> DEFINE visible == [n \in Messages |-> Undefined(reactions[n])]
<1>7. Tested!Toggled(visible[m], e) = NextOf(reactions[m], e)
  BY <1>3, NullAssumption DEF Tested!Toggled, Undefined, NextOf
<1>8. [n \in Messages |-> Undefined(reactions'[n])]
        = [visible EXCEPT ![m] = NextOf(reactions[m], e)]
  <2>1. Undefined(reactions'[m]) = NextOf(reactions[m], e)
    BY <1>3, <1>4, NullAssumption DEF RepoInv, Undefined
  <2>2. \A n \in Messages \ {m} : reactions'[n] = reactions[n]
    BY <1>4 DEF RepoInv
  <2> QED BY <2>1, <2>2
<1>9. m \in Tested!InThread(a)
  BY <1>2, InThreadAgrees
<1>11. Answered' = <<"message", m, NextOf(reactions[m], e)>>
  BY <1>4, PlainAnswer
<1>10. Tested!ToggleChatReaction(a, m, e)
  BY <1>1, <1>4, <1>7, <1>8, <1>9, <1>11
  DEF Tested!ToggleChatReaction, Messages, Tested!Messages
<1> QED BY <1>6, <1>10

LEMMA ChatSim ==
  ASSUME RepoInv, ChatCall
  PROVE  /\ RepoInv'
         /\ Tested!ChatCall
            \/ UNCHANGED <<made, content, kept, open, requeued, thread, reactions, answer, Answered>>
<1>1. Messages = Tested!Messages
  BY DEF Messages
<1>2. CASE ToggleWrites
  BY <1>1, <1>2, ToggleWriteSim DEF Tested!ChatCall
<1>3. ASSUME NEW a \in Staff, NEW r \in Runs, AppendChatMessage(a, r) \/ AppendChatReplyIfAbsent(a, r)
      PROVE  RepoInv' /\ Tested!ChatCall
  BY <1>3, AppendSim DEF Tested!ChatCall
<1>4. ASSUME NEW a \in Staff, NEW limit \in ChatLimits, ListChatMessages(a, limit)
      PROVE  RepoInv' /\ Tested!ChatCall
  BY <1>4, ListMessagesSim DEF Tested!ChatCall
<1>5. ASSUME NEW a \in Staff, ClearChatMessages(a) PROVE RepoInv' /\ Tested!ChatCall
  BY <1>5, ClearSim DEF Tested!ChatCall
<1>6. ASSUME NEW a \in Staff, NEW m \in Messages, NEW e \in Emoji, ToggleReads(a, m, e)
      PROVE  /\ RepoInv'
             /\ Tested!ChatCall
                \/ UNCHANGED <<made, content, kept, open, requeued, thread, reactions, answer, Answered>>
  BY <1>1, <1>6, ToggleReadSim DEF Tested!ChatCall
<1> QED BY <1>2, <1>3, <1>4, <1>5, <1>6 DEF ChatCall

-----------------------------------------------------------------------------
(* A step of production's repository is a step of the tests' repository or *)
(* none.                                                                   *)
LEMMA StepSim ==
  ASSUME RepoInv, [RepoNext]_repoVars
  PROVE  RepoInv' /\ [Tested!Next]_(Tested!vars)
<1>1. CASE RunCall
  BY <1>1, RunSim, RunInv DEF Tested!Next
<1>2. CASE LetterCall
  BY <1>2, LetterSim DEF Tested!Next
<1>3. CASE ChatCall
  <2>1. CASE UNCHANGED <<made, content, kept, open, requeued, thread, reactions, answer, Answered>>
    <3>1. UNCHANGED [r \in Runs |-> AsPatched(r, content[r])]
      BY <2>1, SeenSame DEF runVars
    <3> QED BY <1>3, <2>1, <3>1, ChatSim DEF Tested!vars, Tested!Messages
  <2> QED BY <1>3, <2>1, ChatSim DEF Tested!Next
<1>4. CASE UNCHANGED repoVars
  <2>1. /\ UNCHANGED <<made, content, kept, open, requeued, thread, reactions, toggling, answer>>
        /\ UNCHANGED [r \in Runs |-> AsPatched(r, content[r])]
    BY <1>4, SeenSame DEF repoVars, runVars
  <2>2. UNCHANGED Answered
    BY <2>1 DEF Answered, AsPatched, MapRun, Undefined
  <2>3. RepoInv'
    BY <2>1 DEF RepoInv, InThread
  <2> QED BY <2>1, <2>2, <2>3 DEF Tested!vars, Tested!Messages
<1> QED BY <1>1, <1>2, <1>3, <1>4 DEF RepoNext

(* Production's repository acts like the one the tests run on: each call   *)
(* the program makes of PrismaRepository is answered, and leaves the same  *)
(* rows, as InMemoryRepository does it; the attempts and the error that    *)
(* the patch of a requeue leaves in the row are all that differs.          *)
THEOREM PrismaActsAsTestedHolds == RepoSpec => PrismaActsAsTested
<1>1. RepoInv /\ [RepoNext]_repoVars => RepoInv' /\ [Tested!Next]_(Tested!vars)
  BY StepSim
<1> QED BY <1>1, InitSim, PTL DEF RepoSpec, PrismaActsAsTested, Tested!Spec
=============================================================================
