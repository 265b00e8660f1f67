----------------------- MODULE DiagnosticsSenderProofs -----------------------
(***************************************************************************)
(* What holds of DiagnosticsSender for any senders, chains, threads,       *)
(* levels, subscriptions and messages.  One inductive invariant IInv       *)
(* carries the five properties proved here:                                *)
(*   Subscribers  tokens are used once, and at most one is a chain's;      *)
(*   Calls        a thread's calls go along the chains for one message;    *)
(*   Mutexes      a mutex is held by a loop over its sender's subscribers, *)
(*                and such a loop holds it (IteratorsStayValid);           *)
(*   MinLevels    minLevel is the least level of those the computation has *)
(*                visited, or of all while there is none (MinLevelIsLeast);*)
(*   Dues         who is still subscribed and has not been called is still *)
(*                to be visited (MissedOnlyWhileRecomputing);              *)
(*   Published    messages are numbered as they are published;             *)
(*   Visits       a message has been received where its thread is, or      *)
(*                where it has been further along the chain;               *)
(*   Order        no message overtakes one in delivery (SameOrder).        *)
(* NoCircularWait follows from Calls and Mutexes.                          *)
(*                                                                         *)
(* The proof that a step keeps the invariant goes in two stages: lemmas    *)
(* named ...Effect say what each action of the model does, Steps sorts the *)
(* actions by what they do to subscriptions and calls; the lemmas named    *)
(* ...Stay then prove one part of the invariant each.                      *)
(***************************************************************************)
EXTENDS DiagnosticsSender, FiniteSetTheorems, WellFoundedInduction, TLAPS

(* How far a sender is along the chains.                                    *)
Rank ==
  CHOOSE rank \in [Senders -> 0 .. Cardinality(Senders)] :
    \A s \in Senders : Outer[s] \in Senders => rank[s] < rank[Outer[s]]

(* The values of the parts of the state.                                    *)
Impls ==
  [subscribers : UNION {[D -> Subscriptions] : D \in SUBSET Tokens},
   nextSubscriptionToken : Nat \ {0}, minLevel : 0 .. LevelMax, owned : BOOLEAN]

Logs ==
  [sent : 0 .. MaxMessages,
   missed : SUBSET [sender : Senders, token : Tokens, blind : BOOLEAN],
   received : [Senders -> [Tokens -> Seq(1 .. MaxMessages)]]]

TypeOK ==
  /\ sender \in [Senders -> Impls]
  /\ mutex \in [Senders -> Threads \cup {NoThread}]
  /\ stack \in [Threads -> Seq(Frames)]
  /\ log \in Logs

-----------------------------------------------------------------------------
(* Subscription k of s is what Chain() of another sender returned.          *)
Chains(s, k) == sender[s].subscribers[k].delegate \in Senders

(* Tokens are not used again, and at most one subscription is a chain.      *)
Subscribers ==
  \A s \in Senders :
    /\ \A k \in Subscribed(s) :
         /\ k < sender[s].nextSubscriptionToken
         /\ Chains(s, k) => sender[s].subscribers[k].delegate = Outer[s]
    /\ \A j, k \in Subscribed(s) : Chains(s, j) /\ Chains(s, k) => j = k

(* The calls a thread is in, from the outermost to the innermost one, go    *)
(* along the chains on behalf of one message.                               *)
Calls ==
  \A t \in Threads : \A i \in DOMAIN stack[t] :
    /\ stack[t][i].pc = "recompute" => Len(stack[t]) = 1
    /\ stack[t][i].pc = "recompute" <=> stack[t][i].message = 0
    /\ i > 1 => stack[t][i].pc = "deliver"
    /\ stack[t][i].message = Top(t).message
    /\ stack[t][i].message <= log.sent
    /\ \A j \in DOMAIN stack[t] :
         i < j => Rank[stack[t][j].sender] < Rank[stack[t][i].sender]

(* Call i of thread t is in a loop over the subscribers.                    *)
InLoop(t, i) == stack[t][i].pc \in {"deliver", "recompute"}

(* A loop has its sender's mutex, and a mutex is only held by a loop.       *)
Mutexes ==
  /\ IteratorsStayValid
  /\ \A s \in Senders : mutex[s] # NoThread =>
       \E i \in DOMAIN stack[mutex[s]] :
         InLoop(mutex[s], i) /\ stack[mutex[s]][i].sender = s

(* minLevel is the least level of the subscribers of s but those in left.   *)
Least(s, left) ==
  IsLeast(sender[s].minLevel,
          {LevelMax} \cup {LevelOf(s, k) : k \in Subscribed(s) \ left})

(* While minLevel is computed anew, it is the least of those visited.       *)
MinLevels ==
  /\ MinLevelIsLeast
  /\ \A t \in Threads :
       At(t, {"recompute"}) => Least(Top(t).sender, Top(t).left)

(* Those a call is due to were subscribed when it began, and in its loop    *)
(* have yet to be visited or have left.                                     *)
Dues ==
  /\ MissedOnlyWhileRecomputing
  /\ \A t \in Threads : \A i \in DOMAIN stack[t] :
       LET f == stack[t][i] IN
       /\ \A k \in f.due : k < sender[f.sender].nextSubscriptionToken
       /\ f.due \cap Subscribed(f.sender) \subseteq Wanting(f.sender, f.level)
       /\ f.pc = "recompute" => f.due = {}
       /\ f.pc = "deliver" => f.due \cap Subscribed(f.sender) \subseteq f.left

-----------------------------------------------------------------------------
(* A subscriber of s has received message n.                                *)
Occurs(s, n) ==
  \E k \in Tokens : \E i \in DOMAIN log.received[s][k] : log.received[s][k][i] = n

(* A subscriber of s has received m before n.                               *)
SomeBefore(s, m, n) == \E k \in Tokens : Before(log.received[s][k], m, n)

(* The innermost call of t has yet to call the sender it is chained to.     *)
ToCall(t) == \E k \in Top(t).left : Chains(Top(t).sender, k)

(* Messages are numbered as they are published, and each is on one thread.  *)
Published ==
  /\ \A s \in Senders, n \in Nat : Occurs(s, n) => n \in 1 .. log.sent
  /\ \A t, u \in Threads :
       stack[t] # << >> /\ stack[u] # << >> /\ t # u =>
         Top(t).message # Top(u).message \/ Top(t).message = 0

(* Thread t is in a call to s, the i-th or further out.                     *)
In(t, i, s) == \E j \in DOMAIN stack[t] : j >= i /\ stack[t][j].sender = s

(* Once a loop has called the sender it is chained to, no chain is left.    *)
(* The message of a thread has been received by senders the thread is in,   *)
(* and, when the innermost one has passed it on already, further along.     *)
Visits ==
  \A t \in Threads :
    /\ \A i \in DOMAIN stack[t] : i > 1 =>
         \A k \in stack[t][i].left : ~Chains(stack[t][i].sender, k)
    /\ stack[t] # << >> => \A s \in Senders : Occurs(s, Top(t).message) =>
         \/ In(t, 2, s)
         \/ In(t, 1, s) /\ Top(t).pc = "deliver"
         \/ Top(t).pc = "deliver" /\ ~ToCall(t) /\ Rank[s] > Rank[Top(t).sender]

(* While n is delivered at s, nothing received there comes after n, neither *)
(* at s nor at the sender that s is chained to.                             *)
Order ==
  /\ SameOrder
  /\ \A t \in Threads : \A i \in DOMAIN stack[t] :
       stack[t][i].pc = "deliver" =>
         LET s == stack[t][i].sender
             n == stack[t][i].message IN
         \A m \in 1 .. log.sent : m # n =>
           /\ ~SomeBefore(s, n, m)
           /\ Outer[s] \in Senders /\ Occurs(s, m) => ~SomeBefore(Outer[s], n, m)

IInv ==
  /\ TypeOK /\ Subscribers /\ Calls /\ Mutexes
  /\ MinLevels /\ Dues /\ Published /\ Visits /\ Order

-----------------------------------------------------------------------------
(* Ranks grow along the chains, as DiagnosticsAssumption says.              *)
LEMMA RankGrows ==
  /\ Rank \in [Senders -> 0 .. Cardinality(Senders)]
  /\ Cardinality(Senders) \in Nat
  /\ \A s \in Senders : Rank[s] \in Nat /\ Rank[s] <= Cardinality(Senders)
  /\ \A s \in Senders : Outer[s] \in Senders => Rank[s] < Rank[Outer[s]]
<1>1. Cardinality(Senders) \in Nat
  BY DiagnosticsAssumption, FS_CardinalityType
<1>2. /\ Rank \in [Senders -> 0 .. Cardinality(Senders)]
      /\ \A s \in Senders : Outer[s] \in Senders => Rank[s] < Rank[Outer[s]]
  BY DiagnosticsAssumption DEF Rank
<1>3. \A s \in Senders : Rank[s] \in 0 .. Cardinality(Senders)
  BY <1>2
<1>. QED BY <1>1, <1>2, <1>3

-----------------------------------------------------------------------------
(* What a step does to the calls a thread is in.                            *)

OthersStay(t) ==
  /\ stack' \in [Threads -> Seq(Frames)]
  /\ \A u \in Threads \ {t} : stack'[u] = stack[u]

Entered(t, f) ==
  OthersStay(t) /\ stack[t] = << >> /\ stack'[t] = <<f>> /\ f \in Frames

Advanced(t, f) ==
  /\ OthersStay(t) /\ stack[t] # << >> /\ f \in Frames
  /\ stack'[t] # << >> /\ Len(stack'[t]) = Len(stack[t])
  /\ stack'[t][1] = f
  /\ \A i \in 2 .. Len(stack[t]) : stack'[t][i] = stack[t][i]

Pushed(t, g, f) ==
  /\ OthersStay(t) /\ stack[t] # << >> /\ g \in Frames /\ f \in Frames
  /\ stack'[t] # << >> /\ Len(stack'[t]) = Len(stack[t]) + 1
  /\ stack'[t][1] = g /\ stack'[t][2] = f
  /\ \A i \in 2 .. Len(stack[t]) : stack'[t][i + 1] = stack[t][i]

Left(t) ==
  /\ OthersStay(t) /\ stack[t] # << >>
  /\ Len(stack'[t]) = Len(stack[t]) - 1
  /\ \A i \in 1 .. Len(stack[t]) - 1 : stack'[t][i] = stack[t][i + 1]

(* A thread that begins a call.                                             *)
LEMMA Entering ==
  ASSUME TypeOK, NEW t \in Threads, NEW f \in Frames, stack[t] = << >>, Enter(t, f)
  PROVE  Entered(t, f)
<1>1. <<f>> \o << >> = <<f>> /\ <<f>> \in Seq(Frames)
  OBVIOUS
<1>. QED BY <1>1 DEF TypeOK, Enter, Entered, OthersStay

(* The innermost call goes on.                                              *)
LEMMA Advancing ==
  ASSUME TypeOK, NEW t \in Threads, NEW f \in Frames, stack[t] # << >>,
         Advance(t, f)
  PROVE  Advanced(t, f)
<1>1. stack[t] \in Seq(Frames) /\ 1 \in DOMAIN stack[t] /\ Len(stack[t]) > 0
  BY DEF TypeOK
<1>2. stack'[t] = [stack[t] EXCEPT ![1] = f] /\ stack' = [stack EXCEPT ![t] = stack'[t]]
  BY DEF Advance, TypeOK
<1>3. /\ stack'[t] \in Seq(Frames) /\ Len(stack'[t]) = Len(stack[t])
      /\ stack'[t][1] = f /\ \A i \in 2 .. Len(stack[t]) : stack'[t][i] = stack[t][i]
  BY <1>1, <1>2
<1>4. OthersStay(t)
  BY <1>2, <1>3 DEF TypeOK, OthersStay
<1>. QED BY <1>1, <1>3, <1>4 DEF Advanced

(* The innermost call returns.                                              *)
LEMMA Leaving ==
  ASSUME TypeOK, NEW t \in Threads, stack[t] # << >>, Leave(t)
  PROVE  Left(t)
<1>1. stack[t] \in Seq(Frames) /\ Len(stack[t]) > 0
  BY DEF TypeOK
<1>2. stack'[t] = Tail(stack[t]) /\ stack' = [stack EXCEPT ![t] = stack'[t]]
  BY DEF Leave, TypeOK
<1>3. /\ stack'[t] \in Seq(Frames) /\ Len(stack'[t]) = Len(stack[t]) - 1
      /\ \A i \in 1 .. Len(stack[t]) - 1 : stack'[t][i] = stack[t][i + 1]
  BY <1>1, <1>2
<1>4. OthersStay(t)
  BY <1>2, <1>3 DEF TypeOK, OthersStay
<1>. QED BY <1>1, <1>3, <1>4 DEF Left

(* The innermost call makes another one.                                    *)
LEMMA Pushing ==
  ASSUME TypeOK, NEW t \in Threads, NEW g \in Frames, NEW f \in Frames,
         stack[t] # << >>,
         stack' = [stack EXCEPT ![t] = <<g>> \o <<f>> \o Tail(@)]
  PROVE  Pushed(t, g, f)
<1>1. stack[t] \in Seq(Frames) /\ Len(stack[t]) > 0
  BY DEF TypeOK
<1>. DEFINE tail == Tail(stack[t])
<1>2. /\ tail \in Seq(Frames) /\ Len(tail) = Len(stack[t]) - 1
      /\ \A i \in 1 .. Len(tail) : tail[i] = stack[t][i + 1]
  BY <1>1
<1>3. stack'[t] = <<g>> \o <<f>> \o tail /\ stack' = [stack EXCEPT ![t] = stack'[t]]
  BY DEF TypeOK
<1>. HIDE DEF tail
<1>4. LET two == <<g>> \o <<f>> IN
      two \in Seq(Frames) /\ Len(two) = 2 /\ two[1] = g /\ two[2] = f
  OBVIOUS
<1>5. /\ stack'[t] \in Seq(Frames) /\ Len(stack'[t]) = Len(stack[t]) + 1
      /\ stack'[t][1] = g /\ stack'[t][2] = f
      /\ \A i \in 3 .. Len(stack[t]) + 1 : stack'[t][i] = tail[i - 2]
  BY <1>1, <1>2, <1>3, <1>4
<1>6. ASSUME NEW i \in 2 .. Len(stack[t]) PROVE stack'[t][i + 1] = stack[t][i]
  BY <1>1, <1>2, <1>5
<1>7. OthersStay(t)
  BY <1>3, <1>5 DEF TypeOK, OthersStay
<1>. QED BY <1>1, <1>5, <1>6, <1>7 DEF Pushed

-----------------------------------------------------------------------------
(* What the operations do to the subscriptions of a sender.                 *)

Maps == UNION {[D -> Subscriptions] : D \in SUBSET Tokens}

(* A map of subscriptions has tokens for its keys.                          *)
LEMMA MapTypes ==
  /\ \A m \in Maps : DOMAIN m \subseteq Tokens /\ m \in [DOMAIN m -> Subscriptions]
  /\ \A D \in SUBSET Tokens : [D -> Subscriptions] \subseteq Maps
<1>1. ASSUME NEW m \in Maps
      PROVE  DOMAIN m \subseteq Tokens /\ m \in [DOMAIN m -> Subscriptions]
  <2>1. PICK D \in SUBSET Tokens : m \in [D -> Subscriptions]
    BY DEF Maps
  <2>. QED BY <2>1
<1>2. ASSUME NEW D \in SUBSET Tokens PROVE [D -> Subscriptions] \subseteq Maps
  BY DEF Maps
<1>. QED BY <1>1, <1>2

(* Types of the parts of a sender.                                          *)
LEMMA SenderTypes ==
  ASSUME TypeOK, NEW s \in Senders
  PROVE  /\ sender[s] \in Impls
         /\ sender[s].subscribers \in Maps
         /\ Subscribed(s) \subseteq Tokens /\ Tokens \subseteq Nat
         /\ \A k \in Subscribed(s) : /\ sender[s].subscribers[k] \in Subscriptions
                                     /\ LevelOf(s, k) \in Levels
         /\ sender[s].nextSubscriptionToken \in Nat \ {0}
         /\ sender[s].minLevel \in 0 .. LevelMax
         /\ Levels \subseteq 0 .. LevelMax /\ LevelMax \in Nat
         /\ mutex[s] \in Threads \cup {NoThread}
<1>1. sender[s] \in Impls /\ mutex[s] \in Threads \cup {NoThread}
  BY DEF TypeOK
<1>2. sender[s].subscribers \in Maps
  BY <1>1 DEF Impls, Maps
<1>3. \A k \in Subscribed(s) : sender[s].subscribers[k] \in Subscriptions
  BY <1>2, MapTypes DEF Subscribed
<1>4. Tokens \subseteq Nat
  BY DiagnosticsAssumption DEF Tokens
<1>. QED
  BY <1>1, <1>2, <1>3, <1>4, MapTypes, DiagnosticsAssumption
  DEF Subscribed, LevelOf, Subscriptions, Impls

ImplBecomes(s, map, token, level) ==
  sender' = [sender EXCEPT ![s].subscribers = map,
                           ![s].nextSubscriptionToken = token,
                           ![s].minLevel = level]

(* What the parts of one sender become.                                     *)
LEMMA ImplChange ==
  ASSUME TypeOK, NEW s \in Senders, NEW map \in Maps, NEW token \in Nat \ {0},
         NEW level \in 0 .. LevelMax, ImplBecomes(s, map, token, level)
  PROVE  /\ sender' \in [Senders -> Impls]
         /\ \A r \in Senders \ {s} : sender'[r] = sender[r]
         /\ sender'[s].subscribers = map
         /\ sender'[s].nextSubscriptionToken = token
         /\ sender'[s].minLevel = level
         /\ sender'[s].owned = sender[s].owned
<1>1. sender \in [Senders -> Impls] /\ sender[s] \in Impls
  BY DEF TypeOK
<1>2. sender' = [sender EXCEPT ![s] = sender'[s]]
  BY <1>1 DEF ImplBecomes
<1>3. sender'[s] = [sender[s] EXCEPT !.subscribers = map,
                                    !.nextSubscriptionToken = token,
                                    !.minLevel = level]
  BY <1>1 DEF ImplBecomes
<1>4. sender'[s] = [subscribers |-> map, nextSubscriptionToken |-> token,
                    minLevel |-> level, owned |-> sender[s].owned]
  BY <1>1, <1>3 DEF Impls
<1>5. sender'[s] \in Impls
  BY <1>1, <1>4 DEF Impls, Maps
<1>6. sender' \in [Senders -> Impls]
  BY <1>1, <1>2, <1>5
<1>. QED BY <1>1, <1>2, <1>4, <1>6

(* SubscribeToDiagnostics adds a subscription under a new token.            *)
Subscribes(s, delegate, level) ==
  LET token == sender[s].nextSubscriptionToken IN
  /\ delegate \in Senders => ~ChainedNow(s)
  /\ mutex[s] = NoThread
  /\ token \in Tokens /\ token \notin Subscribed(s)
  /\ sender' \in [Senders -> Impls]
  /\ \A r \in Senders \ {s} : sender'[r] = sender[r]
  /\ DOMAIN sender'[s].subscribers = Subscribed(s) \cup {token}
  /\ \A k \in Subscribed(s) : sender'[s].subscribers[k] = sender[s].subscribers[k]
  /\ sender'[s].subscribers[token] = [delegate |-> delegate, minLevel |-> level]
  /\ sender'[s].nextSubscriptionToken = token + 1
  /\ sender'[s].minLevel = Lower(sender[s].minLevel, level)

(* Subscribe does this with some delegate and level.                        *)
LEMMA SubscribeEffect ==
  ASSUME TypeOK, Subscribers, NEW t \in Threads, NEW s \in Senders, Subscribe(t, s)
  PROVE  \E delegate \in {Listener, Outer[s]} \ {NoSender}, level \in Levels :
           Subscribes(s, delegate, level)
<1>. DEFINE token == sender[s].nextSubscriptionToken
            map == sender[s].subscribers
            new(d, l) == [k \in DOMAIN map \cup {token} |->
                            IF k = token THEN [delegate |-> d, minLevel |-> l]
                            ELSE map[k]]
<1>1. PICK delegate \in {Listener, Outer[s]} \ {NoSender}, level \in Levels :
        /\ delegate \in Senders => ~ChainedNow(s)
        /\ sender' = [sender EXCEPT
             ![s].subscribers = [k \in DOMAIN @ \cup {token} |->
                                   IF k = token
                                   THEN [delegate |-> delegate, minLevel |-> level]
                                   ELSE @[k]],
             ![s].nextSubscriptionToken = token + 1,
             ![s].minLevel = Lower(@, level)]
  BY DEF Subscribe
<1>2. mutex[s] = NoThread /\ token <= MaxSubscriptions[s]
  BY DEF Subscribe
<1>3. token \in Tokens
  <2>1. token \in 1 .. MaxSubscriptions[s]
    BY <1>2, SenderTypes, DiagnosticsAssumption
  <2>. QED BY <2>1 DEF Tokens
<1>4. token \notin Subscribed(s)
  BY SenderTypes DEF Subscribers
<1>5. new(delegate, level) \in Maps
  <2>1. DOMAIN map \cup {token} \in SUBSET Tokens
    BY <1>3, SenderTypes DEF Subscribed
  <2>2. [delegate |-> delegate, minLevel |-> level] \in Subscriptions
    BY DiagnosticsAssumption DEF Subscriptions
  <2>3. \A k \in DOMAIN map : map[k] \in Subscriptions
    BY SenderTypes DEF Subscribed
  <2>4. new(delegate, level) \in [DOMAIN map \cup {token} -> Subscriptions]
    BY <2>2, <2>3
  <2>. QED BY <2>1, <2>4, MapTypes
<1>6. /\ DOMAIN new(delegate, level) = Subscribed(s) \cup {token}
      /\ new(delegate, level)[token] = [delegate |-> delegate, minLevel |-> level]
      /\ \A k \in Subscribed(s) : new(delegate, level)[k] = map[k]
  BY <1>4 DEF Subscribed
<1>7. Lower(sender[s].minLevel, level) \in 0 .. LevelMax /\ token + 1 \in Nat \ {0}
  BY SenderTypes DEF Lower
<1>8. ImplBecomes(s, new(delegate, level), token + 1, Lower(sender[s].minLevel, level))
  <2>1. sender \in [Senders -> Impls] /\ sender[s] \in Impls
    BY DEF TypeOK
  <2>. QED BY <1>1, <2>1 DEF Impls, ImplBecomes
<1>. HIDE DEF new
<1>9. /\ sender' \in [Senders -> Impls]
      /\ \A r \in Senders \ {s} : sender'[r] = sender[r]
      /\ sender'[s].subscribers = new(delegate, level)
      /\ sender'[s].nextSubscriptionToken = token + 1
      /\ sender'[s].minLevel = Lower(sender[s].minLevel, level)
  BY <1>5, <1>7, <1>8, ImplChange
<1>10. Subscribes(s, delegate, level)
  BY <1>1, <1>2, <1>3, <1>4, <1>6, <1>9 DEF Subscribes
<1>. QED BY <1>1, <1>10

Drops(s, k, level) ==
  sender' = [sender EXCEPT ![s].subscribers = Without(@, k), ![s].minLevel = level]

(* What both ways to unsubscribe do.                                        *)
LEMMA WithoutEffect ==
  ASSUME TypeOK, NEW s \in Senders, NEW k \in Subscribed(s), NEW level \in 0 .. LevelMax,
         Drops(s, k, level)
  PROVE  /\ sender' \in [Senders -> Impls]
         /\ \A r \in Senders \ {s} : sender'[r] = sender[r]
         /\ DOMAIN sender'[s].subscribers = Subscribed(s) \ {k}
         /\ \A j \in Subscribed(s) \ {k} :
              sender'[s].subscribers[j] = sender[s].subscribers[j]
         /\ sender'[s].nextSubscriptionToken = sender[s].nextSubscriptionToken
         /\ sender'[s].minLevel = level
<1>. DEFINE new == Without(sender[s].subscribers, k)
<1>1. /\ DOMAIN new = Subscribed(s) \ {k}
      /\ \A j \in Subscribed(s) \ {k} : new[j] = sender[s].subscribers[j]
  BY DEF Without, Subscribed
<1>2. new \in Maps
  <2>1. new \in [Subscribed(s) \ {k} -> Subscriptions]
    BY SenderTypes DEF Without, Subscribed
  <2>. QED BY <2>1, SenderTypes, MapTypes
<1>3. sender \in [Senders -> Impls] /\ sender[s] \in Impls
  BY DEF TypeOK
<1>. HIDE DEF new
<1>4. ImplBecomes(s, new, sender[s].nextSubscriptionToken, level)
  BY <1>3 DEF Drops, Impls, ImplBecomes, new
<1>. QED BY <1>1, <1>2, <1>4, SenderTypes, ImplChange

(* A subscription that minLevel does not depend on goes.                    *)
LEMMA UnsubscribeEffect ==
  ASSUME TypeOK, NEW t \in Threads, NEW s \in Senders, NEW k \in Tokens,
         Unsubscribe(t, s, k)
  PROVE  /\ sender' \in [Senders -> Impls] /\ mutex[s] = NoThread
         /\ k \in Subscribed(s) /\ LevelOf(s, k) # sender[s].minLevel
         /\ \A r \in Senders \ {s} : sender'[r] = sender[r]
         /\ DOMAIN sender'[s].subscribers = Subscribed(s) \ {k}
         /\ \A j \in Subscribed(s) \ {k} :
              sender'[s].subscribers[j] = sender[s].subscribers[j]
         /\ sender'[s].nextSubscriptionToken = sender[s].nextSubscriptionToken
         /\ sender'[s].minLevel = sender[s].minLevel
<1>1. /\ mutex[s] = NoThread
      /\ k \in Subscribed(s) /\ LevelOf(s, k) # sender[s].minLevel
  BY DEF Unsubscribe, Free, WasLeast
<1>2. sender[s].minLevel \in 0 .. LevelMax
  BY SenderTypes
<1>3. Drops(s, k, sender[s].minLevel)
  BY SenderTypes DEF Unsubscribe, TypeOK, Impls, Drops
<1>. QED BY <1>1, <1>2, <1>3, WithoutEffect

-----------------------------------------------------------------------------
(* What the steps do.                                                       *)

(* The calls in progress.                                                   *)
LEMMA FrameTypes ==
  ASSUME TypeOK, NEW t \in Threads
  PROVE  /\ stack[t] \in Seq(Frames) /\ Len(stack[t]) \in Nat
         /\ DOMAIN stack[t] = 1 .. Len(stack[t])
         /\ \A i \in DOMAIN stack[t] : stack[t][i] \in Frames
         /\ stack[t] # << >> => 1 \in DOMAIN stack[t] /\ Top(t) \in Frames
BY DEF TypeOK, Top

(* The parts of a call.                                                     *)
LEMMA FrameFields ==
  ASSUME NEW f \in Frames
  PROVE  /\ f.sender \in Senders /\ f.level \in Levels /\ f.message \in 0 .. MaxMessages
         /\ f.pc \in {"format", "test", "lock", "deliver", "recompute"}
         /\ f.left \in SUBSET Tokens /\ f.due \in SUBSET Tokens /\ f.blind \in BOOLEAN
BY DEF Frames

(* A call that begins is well typed.                                        *)
LEMMA CallTypes ==
  ASSUME TypeOK, NEW s \in Senders, NEW pc \in {"format", "test", "recompute"},
         NEW l \in Levels, NEW n \in 0 .. MaxMessages
  PROVE  /\ Call(s, pc, l, n) \in Frames
         /\ Wanting(s, l) \subseteq Subscribed(s)
         /\ Call(s, pc, l, n).sender = s /\ Call(s, pc, l, n).pc = pc
         /\ Call(s, pc, l, n).level = l /\ Call(s, pc, l, n).message = n
         /\ Call(s, pc, l, n).due = Wanting(s, l)
<1>1. Wanting(s, l) \subseteq Subscribed(s)
  BY DEF Wanting
<1>2. Wanting(s, l) \in SUBSET Tokens
  BY <1>1, SenderTypes
<1>. QED BY <1>1, <1>2 DEF Call, Frames

(* f is where the call g has come to.                                       *)
Follows(f, g) ==
  /\ f \in Frames
  /\ f.sender = g.sender /\ f.level = g.level /\ f.message = g.message

(* A pass of a loop.                                                        *)
LEMMA PassTypes ==
  ASSUME NEW g \in Frames, NEW k
  PROVE  /\ Follows(Visited(g, k), g) /\ Follows(Served(g, k), g)
         /\ Visited(g, k).pc = g.pc /\ Served(g, k).pc = g.pc
         /\ Visited(g, k).left = g.left \ {k} /\ Served(g, k).left = g.left \ {k}
         /\ Visited(g, k).due = g.due /\ Served(g, k).due = g.due \ {k}
BY DEF Frames, Follows, Visited, Served

(* A subscription that minLevel depends on goes: minLevel is set to its     *)
(* maximum, and the thread goes on with the mutex to compute it anew.       *)
LEMMA UnsubscribeLeastEffect ==
  ASSUME TypeOK, NEW t \in Threads, NEW s \in Senders, NEW k \in Tokens,
         UnsubscribeLeast(t, s, k)
  PROVE  /\ sender' \in [Senders -> Impls] /\ mutex[s] = NoThread
         /\ k \in Subscribed(s) /\ LevelOf(s, k) = sender[s].minLevel
         /\ \A r \in Senders \ {s} : sender'[r] = sender[r]
         /\ DOMAIN sender'[s].subscribers = Subscribed(s) \ {k}
         /\ \A j \in Subscribed(s) \ {k} :
              sender'[s].subscribers[j] = sender[s].subscribers[j]
         /\ sender'[s].nextSubscriptionToken = sender[s].nextSubscriptionToken
         /\ sender'[s].minLevel = LevelMax
         /\ mutex' \in [Senders -> Threads \cup {NoThread}]
         /\ mutex'[s] = t /\ \A r \in Senders \ {s} : mutex'[r] = mutex[r]
         /\ stack[t] = << >>
         /\ \E f \in Frames :
              /\ Entered(t, f)
              /\ f.sender = s /\ f.pc = "recompute" /\ f.message = 0
              /\ f.left = Subscribed(s) \ {k} /\ f.due = {}
<1>1. /\ mutex[s] = NoThread /\ stack[t] = << >>
      /\ k \in Subscribed(s) /\ LevelOf(s, k) = sender[s].minLevel
      /\ mutex' = [mutex EXCEPT ![s] = t]
      /\ Drops(s, k, LevelMax)
  BY DEF UnsubscribeLeast, Free, WasLeast, Drops
<1>2. LevelMax \in 0 .. LevelMax
  BY DiagnosticsAssumption
<1>3. mutex' \in [Senders -> Threads \cup {NoThread}]
      /\ mutex'[s] = t /\ \A r \in Senders \ {s} : mutex'[r] = mutex[r]
  BY <1>1 DEF TypeOK
<1>. DEFINE c == Call(s, "recompute", LevelOf(s, k), 0)
            f == [c EXCEPT !.left = Subscribed(s) \ {k}, !.due = {}]
<1>4. c \in Frames /\ c.sender = s /\ c.pc = "recompute" /\ c.message = 0
  BY <1>1, SenderTypes, CallTypes, DiagnosticsAssumption
<1>. HIDE DEF c
<1>5. /\ f \in Frames /\ f.sender = s /\ f.pc = "recompute" /\ f.message = 0
      /\ f.left = Subscribed(s) \ {k} /\ f.due = {}
  BY <1>1, <1>4, SenderTypes DEF Frames
<1>. HIDE DEF f
<1>6. Entered(t, f)
  BY <1>1, <1>5, Entering DEF UnsubscribeLeast, c, f
<1>7. /\ sender' \in [Senders -> Impls]
      /\ \A r \in Senders \ {s} : sender'[r] = sender[r]
      /\ DOMAIN sender'[s].subscribers = Subscribed(s) \ {k}
      /\ \A j \in Subscribed(s) \ {k} :
              sender'[s].subscribers[j] = sender[s].subscribers[j]
      /\ sender'[s].nextSubscriptionToken = sender[s].nextSubscriptionToken
      /\ sender'[s].minLevel = LevelMax
  BY <1>1, <1>2, WithoutEffect
<1>. QED BY <1>1, <1>3, <1>5, <1>6, <1>7

(* One pass of that computation: minLevel is lowered to the level of a      *)
(* subscriber that had not been visited.                                    *)
LEMMA RecomputeEffect ==
  ASSUME TypeOK, NEW t \in Threads, Recompute(t)
  PROVE  LET s == Top(t).sender IN
         /\ At(t, {"recompute"}) /\ stack[t] # << >> /\ Top(t) \in Frames
         /\ sender' \in [Senders -> Impls]
         /\ \A r \in Senders \ {s} : sender'[r] = sender[r]
         /\ sender'[s].subscribers = sender[s].subscribers
         /\ sender'[s].nextSubscriptionToken = sender[s].nextSubscriptionToken
         /\ \E k \in Top(t).left :
              /\ k \in Subscribed(s)
              /\ sender'[s].minLevel = Lower(sender[s].minLevel, LevelOf(s, k))
              /\ Advanced(t, Visited(Top(t), k))
         /\ UNCHANGED <<mutex, log>>
<1>. DEFINE s == Top(t).sender
<1>1. PICK k \in Top(t).left :
        /\ k \in Subscribed(s)
        /\ sender' = [sender EXCEPT ![s].minLevel = Lower(@, LevelOf(s, k))]
        /\ Advance(t, Visited(Top(t), k))
  BY DEF Recompute, Reaches, Visited
<1>2. stack[t] # << >> /\ Top(t) \in Frames /\ s \in Senders
  BY FrameTypes, FrameFields DEF Recompute, At
<1>3. Advanced(t, Visited(Top(t), k))
  BY <1>1, <1>2, PassTypes, Advancing DEF Follows
<1>4. Lower(sender[s].minLevel, LevelOf(s, k)) \in 0 .. LevelMax
  BY <1>1, <1>2, SenderTypes DEF Lower
<1>5. sender \in [Senders -> Impls] /\ sender[s] \in Impls
  BY <1>2 DEF TypeOK
<1>6. ImplBecomes(s, sender[s].subscribers, sender[s].nextSubscriptionToken,
                  Lower(sender[s].minLevel, LevelOf(s, k)))
  BY <1>1, <1>2, <1>5 DEF ImplBecomes, Impls
<1>7. /\ sender' \in [Senders -> Impls]
      /\ \A r \in Senders \ {s} : sender'[r] = sender[r]
      /\ sender'[s].subscribers = sender[s].subscribers
      /\ sender'[s].nextSubscriptionToken = sender[s].nextSubscriptionToken
      /\ sender'[s].minLevel = Lower(sender[s].minLevel, LevelOf(s, k))
  BY <1>2, <1>4, <1>6, SenderTypes, ImplChange
<1>8. At(t, {"recompute"}) /\ UNCHANGED <<mutex, log>>
  BY DEF Recompute
<1>. QED BY <1>1, <1>2, <1>3, <1>7, <1>8

(* A message is published: it gets the next number, and the call begins     *)
(* without the mutex.                                                       *)
LEMMA PublishEffect ==
  ASSUME TypeOK, NEW t \in Threads, NEW s \in Senders, Publish(t, s)
  PROVE  /\ log' = [log EXCEPT !.sent = @ + 1]
         /\ log' \in Logs /\ log'.sent = log.sent + 1
         /\ log'.missed = log.missed /\ log'.received = log.received
         /\ \E level \in Levels, pc \in {"format", "test"} :
              LET f == Call(s, pc, level, log.sent + 1) IN
              Entered(t, f) /\ f \in Frames
         /\ UNCHANGED <<sender, mutex>>
<1>1. /\ log' = [log EXCEPT !.sent = @ + 1] /\ log.sent < MaxMessages
      /\ UNCHANGED <<sender, mutex>> /\ stack[t] = << >>
  BY DEF Publish
<1>2. log \in Logs /\ MaxMessages \in Nat
  BY DiagnosticsAssumption DEF TypeOK
<1>3. log.sent + 1 \in 0 .. MaxMessages
  BY <1>1, <1>2 DEF Logs
<1>. DEFINE next == log.sent + 1
<1>. HIDE DEF next
<1>4. log' = [log EXCEPT !.sent = next] /\ next \in 0 .. MaxMessages
  BY <1>1, <1>2, <1>3 DEF Logs, next
<1>8. /\ log' \in Logs /\ log'.sent = next
      /\ log'.missed = log.missed /\ log'.received = log.received
  BY <1>2, <1>4 DEF Logs
<1>5. PICK level \in Levels, pc \in {"format", "test"} :
        Enter(t, Call(s, pc, level, log.sent + 1))
  BY DEF Publish
<1>6. Call(s, pc, level, log.sent + 1) \in Frames
  BY <1>3, CallTypes
<1>7. Entered(t, Call(s, pc, level, log.sent + 1))
  BY <1>1, <1>5, <1>6, Entering
<1>. QED BY <1>1, <1>6, <1>7, <1>8 DEF next

(* What was due to somebody is missed when a call returns.                  *)
LEMMA ReturnEffect ==
  ASSUME TypeOK, NEW t \in Threads, stack[t] # << >>, NEW f \in Frames,
         Return(t, f)
  PROVE  /\ Left(t)
         /\ log' \in Logs /\ log'.sent = log.sent /\ log'.received = log.received
         /\ \A m \in log'.missed : \/ m \in log.missed
                                   \/ /\ m.blind = f.blind
                                      /\ f.due \cap Subscribed(f.sender) # {}
<1>1. log \in Logs /\ log' = [log EXCEPT !.missed = @ \cup Missed(f)]
  BY DEF Return, TypeOK
<1>2. Missed(f) \subseteq [sender : Senders, token : Tokens, blind : BOOLEAN]
  BY FrameFields DEF Missed
<1>3. \A m \in Missed(f) : m.blind = f.blind /\ f.due \cap Subscribed(f.sender) # {}
  BY DEF Missed
<1>. DEFINE missed == Missed(f)
<1>. HIDE DEF missed
<1>4. /\ log' \in Logs /\ log'.sent = log.sent /\ log'.received = log.received
      /\ log'.missed = log.missed \cup missed
  <2>1. log' = [log EXCEPT !.missed = log.missed \cup missed]
    BY <1>1 DEF missed, Logs
  <2>2. missed \subseteq [sender : Senders, token : Tokens, blind : BOOLEAN]
    BY <1>2 DEF missed
  <2>. QED BY <1>1, <2>1, <2>2 DEF Logs
<1>5. Left(t)
  BY Leaving DEF Return
<1>. QED BY <1>3, <1>4, <1>5 DEF missed

(* The early test: the call returns, or goes on to the next test or to the  *)
(* mutex.                                                                   *)
LEMMA TestEffect ==
  ASSUME TypeOK, NEW t \in Threads, Test(t)
  PROVE  /\ At(t, {"format", "test"}) /\ stack[t] # << >> /\ Top(t) \in Frames
         /\ UNCHANGED <<sender, mutex>>
         /\ \/ /\ Left(t) /\ Top(t).level < sender[Top(t).sender].minLevel
               /\ log' \in Logs /\ log'.sent = log.sent
               /\ log'.received = log.received
               /\ \A m \in log'.missed :
                    \/ m \in log.missed
                    \/ /\ m.blind = (Top(t).blind \/ Recomputing(Top(t).sender))
                       /\ Top(t).due \cap Subscribed(Top(t).sender) # {}
            \/ /\ UNCHANGED log
               /\ \E f \in Frames :
                    /\ Follows(f, Top(t)) /\ f.due = Top(t).due
                    /\ f.pc \in {"test", "lock"}
                    /\ Advanced(t, f)
<1>1. At(t, {"format", "test"}) /\ stack[t] # << >> /\ Top(t) \in Frames
  BY FrameTypes DEF Test, At
<1>. DEFINE blind == Top(t).blind \/ Recomputing(Top(t).sender)
            f == [Top(t) EXCEPT !.blind = blind]
            g == [f EXCEPT !.pc = IF @ = "format" THEN "test" ELSE "lock"]
<1>2. blind \in BOOLEAN
  BY <1>1, FrameFields DEF Recomputing
<1>3. /\ f \in Frames /\ Follows(f, Top(t)) /\ f.due = Top(t).due /\ f.blind = blind
      /\ f.pc = Top(t).pc
  <2>. HIDE DEF blind
  <2>. QED BY <1>1, <1>2 DEF Frames, Follows
<1>4. /\ UNCHANGED <<sender, mutex>>
      /\ \/ f.level < sender[f.sender].minLevel /\ Return(t, f)
         \/ Advance(t, g) /\ UNCHANGED log
  BY DEF Test
<1>. HIDE DEF f
<1>5. g \in Frames /\ Follows(g, Top(t)) /\ g.due = Top(t).due /\ g.pc \in {"test", "lock"}
  BY <1>1, <1>3 DEF Frames, Follows
<1>6. CASE f.level < sender[f.sender].minLevel /\ Return(t, f)
  <2>1. /\ Left(t) /\ log' \in Logs /\ log'.sent = log.sent /\ log'.received = log.received
        /\ \A m \in log'.missed : \/ m \in log.missed
                                  \/ /\ m.blind = f.blind
                                     /\ f.due \cap Subscribed(f.sender) # {}
    BY <1>1, <1>3, <1>6, ReturnEffect
  <2>2. f.level = Top(t).level /\ f.sender = Top(t).sender
    BY <1>3 DEF Follows
  <2>. QED BY <1>1, <1>3, <1>4, <1>6, <2>1, <2>2
<1>7. CASE Advance(t, g) /\ UNCHANGED log
  <2>1. Advanced(t, g)
    BY <1>1, <1>5, <1>7, Advancing
  <2>. QED BY <1>1, <1>4, <1>5, <1>7, <2>1
<1>. QED BY <1>4, <1>6, <1>7

(* The mutex is taken, and everybody subscribed now is to be visited.       *)
LEMMA LockEffect ==
  ASSUME TypeOK, NEW t \in Threads, Lock(t)
  PROVE  LET s == Top(t).sender IN
         /\ At(t, {"lock"}) /\ stack[t] # << >> /\ Top(t) \in Frames
         /\ UNCHANGED <<sender, log>> /\ mutex[s] = NoThread
         /\ mutex' \in [Senders -> Threads \cup {NoThread}]
         /\ mutex'[s] = t /\ \A r \in Senders \ {s} : mutex'[r] = mutex[r]
         /\ \E f \in Frames :
              /\ Follows(f, Top(t)) /\ f.due = Top(t).due
              /\ f.pc = "deliver" /\ f.left = Subscribed(s)
              /\ Advanced(t, f)
<1>. DEFINE s == Top(t).sender
            f == [Top(t) EXCEPT !.pc = "deliver", !.left = Subscribed(s)]
<1>1. /\ At(t, {"lock"}) /\ stack[t] # << >> /\ Top(t) \in Frames
      /\ UNCHANGED <<sender, log>> /\ mutex[s] = NoThread
      /\ mutex' = [mutex EXCEPT ![s] = t] /\ Advance(t, f)
  BY FrameTypes DEF Lock, At, Taken
<1>2. s \in Senders /\ Subscribed(s) \in SUBSET Tokens
  BY <1>1, FrameFields, SenderTypes
<1>3. /\ Follows(f, Top(t)) /\ f \in Frames /\ f.due = Top(t).due
      /\ f.pc = "deliver" /\ f.left = Subscribed(s)
  BY <1>1, <1>2 DEF Follows, Frames
<1>. HIDE DEF f
<1>4. Advanced(t, f)
  BY <1>1, <1>3, Advancing
<1>5. /\ mutex' \in [Senders -> Threads \cup {NoThread}]
      /\ mutex'[s] = t /\ \A r \in Senders \ {s} : mutex'[r] = mutex[r]
  BY <1>1, <1>2 DEF TypeOK
<1>. QED BY <1>1, <1>3, <1>4, <1>5

(* A subscriber is passed over.                                             *)
LEMMA SkipEffect ==
  ASSUME TypeOK, NEW t \in Threads, Skip(t)
  PROVE  LET s == Top(t).sender IN
         /\ At(t, {"deliver"}) /\ stack[t] # << >> /\ Top(t) \in Frames
         /\ UNCHANGED <<sender, mutex, log>>
         /\ \E k \in Top(t).left :
              /\ k \in Subscribed(s) /\ k \notin Wanting(s, Top(t).level)
              /\ Advanced(t, Visited(Top(t), k))
<1>1. PICK k \in Top(t).left :
        /\ Visiting(t, k) /\ ~Wanted(t, k)
        /\ Advance(t, Visited(Top(t), k)) /\ UNCHANGED log
  BY DEF Skip
<1>2. /\ At(t, {"deliver"}) /\ stack[t] # << >> /\ Top(t) \in Frames
      /\ UNCHANGED <<sender, mutex>> /\ k \in Subscribed(Top(t).sender)
  BY <1>1, FrameTypes DEF Visiting, Reaches, At
<1>3. Top(t).level \in Nat /\ LevelOf(Top(t).sender, k) \in Nat
  <2>1. Top(t).sender \in Senders /\ Top(t).level \in Levels
    BY <1>2, FrameFields
  <2>2. LevelOf(Top(t).sender, k) \in Levels /\ Levels \subseteq Nat
    BY <1>2, <2>1, SenderTypes
  <2>. QED BY <2>1, <2>2
<1>4. k \notin Wanting(Top(t).sender, Top(t).level)
  BY <1>1, <1>3 DEF Wanted, Wanting
<1>5. Advanced(t, Visited(Top(t), k))
  BY <1>1, <1>2, PassTypes, Advancing DEF Follows
<1>. QED BY <1>1, <1>2, <1>4, <1>5

(* What Deliver and DeliverChained begin with.                              *)
LEMMA VisitingWanted ==
  ASSUME TypeOK, NEW t \in Threads, NEW k \in Top(t).left,
         Visiting(t, k), Wanted(t, k)
  PROVE  /\ At(t, {"deliver"}) /\ stack[t] # << >> /\ Top(t) \in Frames
         /\ UNCHANGED <<sender, mutex>>
         /\ k \in Subscribed(Top(t).sender) /\ k \in Tokens
BY FrameTypes, FrameFields DEF Visiting, Reaches, At

(* A subscriber of the application's receives the message.                  *)
LEMMA DeliverEffect ==
  ASSUME TypeOK, Calls, NEW t \in Threads, Deliver(t)
  PROVE  LET s == Top(t).sender IN
         /\ At(t, {"deliver"}) /\ stack[t] # << >> /\ Top(t) \in Frames
         /\ UNCHANGED <<sender, mutex>>
         /\ log' \in Logs /\ log'.sent = log.sent /\ log'.missed = log.missed
         /\ \E k \in Top(t).left :
              /\ k \in Subscribed(s) /\ k \in Tokens
              /\ Advanced(t, Served(Top(t), k))
              /\ \A r \in Senders, j \in Tokens : r # s \/ j # k =>
                   log'.received[r][j] = log.received[r][j]
              /\ log'.received[s][k] = Append(log.received[s][k], Top(t).message)
<1>. DEFINE s == Top(t).sender
<1>1. PICK k \in Top(t).left :
        /\ Visiting(t, k) /\ Wanted(t, k)
        /\ Advance(t, Served(Top(t), k))
        /\ log' = [log EXCEPT !.received[s][k] = Append(@, Top(t).message)]
  BY DEF Deliver
<1>2. /\ At(t, {"deliver"}) /\ stack[t] # << >> /\ Top(t) \in Frames
      /\ UNCHANGED <<sender, mutex>>
      /\ k \in Subscribed(s) /\ k \in Tokens
  BY <1>1, VisitingWanted
<1>3. Advanced(t, Served(Top(t), k))
  BY <1>1, <1>2, PassTypes, Advancing DEF Follows
<1>4. s \in Senders /\ Top(t).message \in 1 .. MaxMessages
  <2>1. Top(t).message # 0
    BY <1>2, FrameTypes DEF Calls, At, Top
  <2>. QED BY <1>2, <2>1, FrameFields, DiagnosticsAssumption
<1>5. log \in Logs /\ log.received \in [Senders -> [Tokens -> Seq(1 .. MaxMessages)]]
  BY DEF TypeOK, Logs
<1>. DEFINE new == Append(log.received[s][k], Top(t).message)
            received == [log.received EXCEPT ![s][k] = new]
<1>6. new \in Seq(1 .. MaxMessages)
  BY <1>2, <1>4, <1>5
<1>7. log' = [log EXCEPT !.received = received]
  BY <1>1, <1>5 DEF Logs
<1>. HIDE DEF new
<1>8. /\ received \in [Senders -> [Tokens -> Seq(1 .. MaxMessages)]]
      /\ received[s][k] = new
      /\ \A r \in Senders, j \in Tokens : r # s \/ j # k =>
           received[r][j] = log.received[r][j]
  BY <1>2, <1>4, <1>5, <1>6
<1>. HIDE DEF received
<1>9. /\ log' \in Logs /\ log'.sent = log.sent /\ log'.missed = log.missed
      /\ log'.received = received
  BY <1>5, <1>7, <1>8 DEF Logs
<1>. QED BY <1>1, <1>2, <1>3, <1>8, <1>9 DEF new

(* A chained sender is called, unless it is gone.                           *)
LEMMA ChainEffect ==
  ASSUME TypeOK, Subscribers, Calls, NEW t \in Threads, DeliverChained(t)
  PROVE  LET s == Top(t).sender IN
         /\ At(t, {"deliver"}) /\ stack[t] # << >> /\ Top(t) \in Frames
         /\ UNCHANGED <<sender, mutex, log>>
         /\ \E k \in Top(t).left :
              /\ k \in Subscribed(s) /\ Chains(s, k)
              /\ \/ Advanced(t, Served(Top(t), k))
                 \/ /\ Outer[s] \in Senders
                    /\ \E g \in Frames :
                         /\ g.sender = Outer[s] /\ g.pc = "test"
                         /\ g.message = Top(t).message
                         /\ g.level = Top(t).level
                         /\ g.due = Wanting(Outer[s], g.level)
                         /\ Pushed(t, g, Served(Top(t), k))
<1>. DEFINE s == Top(t).sender
<1>1. PICK k \in Top(t).left :
        LET r == sender[s].subscribers[k].delegate IN
        /\ Visiting(t, k) /\ Wanted(t, k) /\ r \in Senders
        /\ stack' = [stack EXCEPT ![t] =
             (IF Alive(r) THEN <<Call(r, "test", Top(t).level, Top(t).message)>>
              ELSE << >>)
             \o <<Served(Top(t), k)>> \o Tail(@)]
        /\ UNCHANGED log
  BY DEF DeliverChained
<1>. DEFINE r == sender[s].subscribers[k].delegate
            g == Call(r, "test", Top(t).level, Top(t).message)
            f == Served(Top(t), k)
<1>2. /\ At(t, {"deliver"}) /\ stack[t] # << >> /\ Top(t) \in Frames
      /\ UNCHANGED <<sender, mutex>>
      /\ k \in Subscribed(s) /\ s \in Senders /\ f \in Frames
  BY <1>1, VisitingWanted, FrameFields, PassTypes DEF Follows
<1>3. Chains(s, k) /\ r = Outer[s] /\ r \in Senders
  BY <1>1, <1>2 DEF Chains, Subscribers
<1>4. /\ g \in Frames /\ g.sender = r /\ g.pc = "test" /\ g.message = Top(t).message
      /\ g.level = Top(t).level /\ g.due = Wanting(r, Top(t).level)
  BY <1>2, <1>3, FrameFields, CallTypes
<1>. HIDE DEF g, f
<1>5. CASE Alive(r)
  <2>1. stack' = [stack EXCEPT ![t] = <<g>> \o <<f>> \o Tail(@)]
    BY <1>1, <1>5 DEF g, f
  <2>2. Pushed(t, g, f)
    BY <1>2, <1>4, <2>1, Pushing
  <2>. QED BY <1>1, <1>2, <1>3, <1>4, <2>2 DEF f
<1>6. CASE ~Alive(r)
  <2>1. stack' = [stack EXCEPT ![t] = << >> \o <<f>> \o Tail(@)]
    BY <1>1, <1>6 DEF f
  <2>2. stack' = [stack EXCEPT ![t][1] = f]
    <3>1. stack[t] \in Seq(Frames) /\ Len(stack[t]) > 0
      BY <1>2 DEF TypeOK
    <3>2. << >> \o <<f>> \o Tail(stack[t]) = [stack[t] EXCEPT ![1] = f]
      BY <1>2, <3>1
    <3>. QED BY <2>1, <3>2 DEF TypeOK
  <2>3. Advanced(t, f)
    BY <1>2, <2>2, Advancing DEF Advance
  <2>. QED BY <1>1, <1>2, <1>3, <2>3 DEF f
<1>. QED BY <1>5, <1>6

(* A loop is over.                                                          *)
LEMMA UnlockEffect ==
  ASSUME TypeOK, NEW t \in Threads, Unlock(t)
  PROVE  LET s == Top(t).sender IN
         /\ At(t, {"deliver", "recompute"}) /\ stack[t] # << >> /\ Top(t) \in Frames
         /\ Top(t).left = {} /\ UNCHANGED sender
         /\ mutex' \in [Senders -> Threads \cup {NoThread}]
         /\ mutex'[s] = NoThread /\ \A r \in Senders \ {s} : mutex'[r] = mutex[r]
         /\ Left(t)
         /\ log' \in Logs /\ log'.sent = log.sent /\ log'.received = log.received
         /\ \A m \in log'.missed :
              \/ m \in log.missed \/ Top(t).due \cap Subscribed(s) # {}
<1>. DEFINE s == Top(t).sender
<1>1. /\ At(t, {"deliver", "recompute"}) /\ stack[t] # << >> /\ Top(t) \in Frames
      /\ Top(t).left = {} /\ UNCHANGED sender
      /\ mutex' = [mutex EXCEPT ![s] = NoThread] /\ Return(t, Top(t))
  BY FrameTypes DEF Unlock, At, Dropped
<1>2. s \in Senders
  BY <1>1, FrameFields
<1>3. /\ mutex' \in [Senders -> Threads \cup {NoThread}]
      /\ mutex'[s] = NoThread /\ \A r \in Senders \ {s} : mutex'[r] = mutex[r]
  BY <1>1, <1>2 DEF TypeOK
<1>4. /\ Left(t)
      /\ log' \in Logs /\ log'.sent = log.sent /\ log'.received = log.received
      /\ \A m \in log'.missed : \/ m \in log.missed
                                \/ /\ m.blind = Top(t).blind
                                   /\ Top(t).due \cap Subscribed(s) # {}
  BY <1>1, ReturnEffect
<1>. QED BY <1>1, <1>3, <1>4

(* The owner gives a sender up.                                             *)
LEMMA DestroyEffect ==
  ASSUME TypeOK, NEW t \in Threads, NEW s \in Senders, Destroy(t, s)
  PROVE  /\ UNCHANGED <<mutex, stack, log>>
         /\ sender' \in [Senders -> Impls]
         /\ \A r \in Senders :
              /\ sender'[r].subscribers = sender[r].subscribers
              /\ sender'[r].nextSubscriptionToken = sender[r].nextSubscriptionToken
              /\ sender'[r].minLevel = sender[r].minLevel
<1>1. /\ UNCHANGED <<mutex, stack, log>>
      /\ sender' = [sender EXCEPT ![s].owned = FALSE]
  BY DEF Destroy
<1>2. sender \in [Senders -> Impls] /\ sender[s] \in Impls
  BY DEF TypeOK
<1>3. sender'[s] = [sender[s] EXCEPT !.owned = FALSE]
      /\ sender' = [sender EXCEPT ![s] = sender'[s]]
  BY <1>1, <1>2
<1>4. /\ sender'[s] \in Impls
      /\ sender'[s].subscribers = sender[s].subscribers
      /\ sender'[s].nextSubscriptionToken = sender[s].nextSubscriptionToken
      /\ sender'[s].minLevel = sender[s].minLevel
  BY <1>2, <1>3 DEF Impls
<1>. QED BY <1>1, <1>2, <1>3, <1>4

-----------------------------------------------------------------------------
(* Every step in terms of subscriptions and of calls.                       *)

Stays(s) ==
  /\ sender'[s].subscribers = sender[s].subscribers
  /\ sender'[s].nextSubscriptionToken = sender[s].nextSubscriptionToken

Loses(s, k) ==
  /\ k \in Subscribed(s) /\ mutex[s] = NoThread
  /\ \A r \in Senders \ {s} : Stays(r)
  /\ DOMAIN sender'[s].subscribers = Subscribed(s) \ {k}
  /\ \A j \in Subscribed(s) \ {k} : sender'[s].subscribers[j] = sender[s].subscribers[j]
  /\ sender'[s].nextSubscriptionToken = sender[s].nextSubscriptionToken

(* Subscriptions come and go one by one, while the mutex is free.           *)
SubscribersStep ==
  \/ \A s \in Senders : Stays(s)
  \/ \E s \in Senders : \E delegate \in {Listener, Outer[s]} \ {NoSender},
                            level \in Levels : Subscribes(s, delegate, level)
  \/ \E s \in Senders : \E k \in Tokens : Loses(s, k)

(* Calls begin, go on, call the next sender of the chain and return.        *)
Begins(t, f) ==
  /\ Entered(t, f) /\ f.message <= log'.sent /\ f.message \in {0, log.sent + 1}
  /\ f.pc = "recompute" <=> f.message = 0
  /\ f.pc # "deliver"

GoesOn(t, f) ==
  /\ Advanced(t, f) /\ Follows(f, Top(t))
  /\ f.pc = "recompute" <=> Top(t).pc = "recompute"
  /\ Top(t).pc = "deliver" => f.pc = "deliver" /\ f.left \subseteq Top(t).left
  /\ f.pc = "deliver" => Top(t).pc = "deliver" \/ Lock(t)

CallsNext(t, f, g) ==
  /\ Pushed(t, g, f) /\ Follows(f, Top(t))
  /\ f.pc = "deliver" /\ Top(t).pc = "deliver"
  /\ g.sender = Outer[Top(t).sender] /\ Outer[Top(t).sender] \in Senders
  /\ g.pc = "test" /\ g.message = Top(t).message
  /\ \E k \in Subscribed(Top(t).sender) :
       k \in Top(t).left /\ Chains(Top(t).sender, k) /\ f.left = Top(t).left \ {k}

CallsStep ==
  /\ log'.sent >= log.sent
  /\ \/ UNCHANGED stack
     \/ \E t \in Threads, f \in Frames : Begins(t, f)
     \/ \E t \in Threads, f \in Frames : GoesOn(t, f)
     \/ \E t \in Threads, f, g \in Frames : CallsNext(t, f, g)
     \/ \E t \in Threads : Left(t) /\ UNCHANGED sender

(* Types, and every step is of these forms.                                 *)
LEMMA Steps ==
  ASSUME TypeOK, Subscribers, Calls, [Next]_vars
  PROVE  TypeOK' /\ SubscribersStep /\ CallsStep
<1>0. /\ log \in Logs /\ log.sent \in Nat /\ MaxMessages \in Nat
      /\ sender \in [Senders -> Impls] /\ stack \in [Threads -> Seq(Frames)]
      /\ mutex \in [Senders -> Threads \cup {NoThread}]
  BY DiagnosticsAssumption DEF TypeOK, Logs
<1>00. ASSUME NEW t \in Threads, OthersStay(t), log' \in Logs,
              sender' \in [Senders -> Impls],
              mutex' \in [Senders -> Threads \cup {NoThread}]
       PROVE  TypeOK'
  BY <1>00 DEF TypeOK, OthersStay
<1>01. UNCHANGED sender => SubscribersStep
  BY DEF SubscribersStep, Stays
<1>1. CASE UNCHANGED vars
  BY <1>0, <1>1 DEF vars, TypeOK, SubscribersStep, Stays, CallsStep
<1>2. ASSUME NEW t \in Threads, NEW s \in Senders, Subscribe(t, s)
      PROVE  TypeOK' /\ SubscribersStep /\ CallsStep
  <2>1. UNCHANGED <<mutex, stack, log>>
    BY <1>2 DEF Subscribe
  <2>2. PICK delegate \in {Listener, Outer[s]} \ {NoSender}, level \in Levels :
          Subscribes(s, delegate, level)
    BY <1>2, SubscribeEffect
  <2>3. sender' \in [Senders -> Impls]
    BY <2>2 DEF Subscribes
  <2>. QED BY <1>0, <2>1, <2>2, <2>3 DEF TypeOK, SubscribersStep, CallsStep
<1>3. ASSUME NEW t \in Threads, NEW s \in Senders, NEW k \in Tokens,
             Unsubscribe(t, s, k)
      PROVE  TypeOK' /\ SubscribersStep /\ CallsStep
  <2>1. UNCHANGED <<mutex, stack, log>>
    BY <1>3 DEF Unsubscribe
  <2>2. sender' \in [Senders -> Impls] /\ Loses(s, k)
    BY <1>3, UnsubscribeEffect DEF Loses, Stays
  <2>. QED BY <1>0, <2>1, <2>2 DEF TypeOK, SubscribersStep, CallsStep
<1>4. ASSUME NEW t \in Threads, NEW s \in Senders, NEW k \in Tokens,
             UnsubscribeLeast(t, s, k)
      PROVE  TypeOK' /\ SubscribersStep /\ CallsStep
  <2>1. UNCHANGED log
    BY <1>4 DEF UnsubscribeLeast
  <2>2. /\ sender' \in [Senders -> Impls] /\ Loses(s, k)
        /\ mutex' \in [Senders -> Threads \cup {NoThread}]
    BY <1>4, UnsubscribeLeastEffect DEF Loses, Stays
  <2>3. PICK f \in Frames :
          /\ Entered(t, f) /\ f.pc = "recompute" /\ f.message = 0
    BY <1>4, UnsubscribeLeastEffect
  <2>4. OthersStay(t) /\ Begins(t, f)
    BY <1>0, <2>1, <2>3 DEF Begins, Entered
  <2>5. CallsStep
    BY <1>0, <2>1, <2>4 DEF CallsStep
  <2>. QED BY <1>0, <1>00, <2>1, <2>2, <2>4, <2>5 DEF SubscribersStep
<1>5. ASSUME NEW t \in Threads, NEW s \in Senders, Publish(t, s)
      PROVE  TypeOK' /\ SubscribersStep /\ CallsStep
  <2>1. /\ log' \in Logs /\ log'.sent = log.sent + 1 /\ UNCHANGED <<sender, mutex>>
        /\ \E level \in Levels, pc \in {"format", "test"} :
              LET f == Call(s, pc, level, log.sent + 1) IN
              Entered(t, f) /\ f \in Frames
    BY <1>5, PublishEffect
  <2>2. PICK level \in Levels, pc \in {"format", "test"} :
          LET f == Call(s, pc, level, log.sent + 1) IN
          Entered(t, f) /\ f \in Frames
    BY <2>1
  <2>. DEFINE f == Call(s, pc, level, log.sent + 1)
  <2>3. f.pc = pc /\ f.message = log.sent + 1
    BY DEF Call
  <2>. HIDE DEF f
  <2>4. Entered(t, f) /\ f \in Frames /\ f.pc # "recompute" /\ f.message # 0
    BY <1>0, <2>2, <2>3 DEF f
  <2>5. OthersStay(t) /\ Begins(t, f)
    BY <1>0, <2>1, <2>3, <2>4 DEF Begins, Entered
  <2>6. CallsStep
    BY <1>0, <2>1, <2>4, <2>5 DEF CallsStep
  <2>. QED BY <1>0, <1>00, <1>01, <2>1, <2>5, <2>6
<1>6. ASSUME NEW t \in Threads, NEW s \in Senders, Destroy(t, s)
      PROVE  TypeOK' /\ SubscribersStep /\ CallsStep
  <2>1. /\ UNCHANGED <<mutex, stack, log>> /\ sender' \in [Senders -> Impls]
        /\ \A r \in Senders : Stays(r)
    BY <1>6, DestroyEffect DEF Stays
  <2>. QED BY <1>0, <2>1 DEF TypeOK, SubscribersStep, CallsStep
<1>7. ASSUME NEW t \in Threads, Recompute(t)
      PROVE  TypeOK' /\ SubscribersStep /\ CallsStep
  <2>1. /\ At(t, {"recompute"}) /\ stack[t] # << >> /\ Top(t) \in Frames
        /\ sender' \in [Senders -> Impls]
        /\ \A r \in Senders : Stays(r)
        /\ UNCHANGED <<mutex, log>>
    BY <1>7, RecomputeEffect DEF Stays
  <2>2. PICK k \in Top(t).left : Advanced(t, Visited(Top(t), k))
    BY <1>7, RecomputeEffect
  <2>3. /\ Follows(Visited(Top(t), k), Top(t)) /\ Visited(Top(t), k).pc = Top(t).pc
        /\ Visited(Top(t), k).left = Top(t).left \ {k}
    BY <2>1, PassTypes
  <2>4. OthersStay(t) /\ Visited(Top(t), k) \in Frames /\ GoesOn(t, Visited(Top(t), k))
    BY <2>1, <2>2, <2>3 DEF GoesOn, Advanced, At
  <2>5. CallsStep
    BY <1>0, <2>1, <2>4 DEF CallsStep
  <2>. QED BY <1>0, <1>00, <1>01, <2>1, <2>4, <2>5 DEF SubscribersStep
<1>8. ASSUME NEW t \in Threads, Test(t)
      PROVE  TypeOK' /\ SubscribersStep /\ CallsStep
  <2>1. /\ At(t, {"format", "test"}) /\ Top(t) \in Frames /\ UNCHANGED <<sender, mutex>>
        /\ log' \in Logs /\ log'.sent = log.sent
        /\ \/ Left(t)
           \/ \E f \in Frames :
                /\ Follows(f, Top(t)) /\ f.pc \in {"test", "lock"} /\ Advanced(t, f)
    BY <1>0, <1>8, TestEffect
  <2>2. Top(t).pc \notin {"deliver", "recompute"}
    BY <2>1 DEF At
  <2>3. OthersStay(t)
    BY <2>1 DEF Left, Advanced
  <2>4. Left(t) \/ \E f \in Frames : GoesOn(t, f)
    BY <2>1, <2>2 DEF GoesOn
  <2>5. CallsStep
    BY <1>0, <2>1, <2>4 DEF CallsStep
  <2>. QED BY <1>0, <1>00, <1>01, <2>1, <2>3, <2>5
<1>9. ASSUME NEW t \in Threads, Lock(t)
      PROVE  TypeOK' /\ SubscribersStep /\ CallsStep
  <2>1. /\ At(t, {"lock"}) /\ Top(t) \in Frames /\ UNCHANGED <<sender, log>>
        /\ mutex' \in [Senders -> Threads \cup {NoThread}]
    BY <1>9, LockEffect
  <2>2. PICK f \in Frames : Follows(f, Top(t)) /\ f.pc = "deliver" /\ Advanced(t, f)
    BY <1>9, LockEffect
  <2>4. OthersStay(t) /\ f \in Frames /\ GoesOn(t, f)
    BY <1>9, <2>1, <2>2 DEF GoesOn, Advanced, At
  <2>5. CallsStep
    BY <1>0, <2>1, <2>4 DEF CallsStep
  <2>. QED BY <1>0, <1>00, <1>01, <2>1, <2>4, <2>5
<1>10. ASSUME NEW t \in Threads, Skip(t)
      PROVE  TypeOK' /\ SubscribersStep /\ CallsStep
  <2>1. /\ stack[t] # << >> /\ Top(t) \in Frames /\ UNCHANGED <<sender, mutex, log>>
    BY <1>10, SkipEffect
  <2>2. PICK k \in Top(t).left : Advanced(t, Visited(Top(t), k))
    BY <1>10, SkipEffect
  <2>3. /\ Follows(Visited(Top(t), k), Top(t)) /\ Visited(Top(t), k).pc = Top(t).pc
        /\ Visited(Top(t), k).left = Top(t).left \ {k}
    BY <2>1, PassTypes
  <2>4. OthersStay(t) /\ Visited(Top(t), k) \in Frames /\ GoesOn(t, Visited(Top(t), k))
    BY <2>2, <2>3 DEF GoesOn, Advanced, At
  <2>5. CallsStep
    BY <1>0, <2>1, <2>4 DEF CallsStep
  <2>. QED BY <1>0, <1>00, <1>01, <2>1, <2>4, <2>5
<1>11. ASSUME NEW t \in Threads, Deliver(t)
      PROVE  TypeOK' /\ SubscribersStep /\ CallsStep
  <2>1. /\ stack[t] # << >> /\ Top(t) \in Frames /\ UNCHANGED <<sender, mutex>>
        /\ log' \in Logs /\ log'.sent = log.sent
    BY <1>11, DeliverEffect
  <2>2. PICK k \in Top(t).left : Advanced(t, Served(Top(t), k))
    BY <1>11, DeliverEffect
  <2>3. /\ Follows(Served(Top(t), k), Top(t)) /\ Served(Top(t), k).pc = Top(t).pc
        /\ Served(Top(t), k).left = Top(t).left \ {k}
    BY <2>1, PassTypes
  <2>4. OthersStay(t) /\ Served(Top(t), k) \in Frames /\ GoesOn(t, Served(Top(t), k))
    BY <2>2, <2>3 DEF GoesOn, Advanced, At
  <2>5. CallsStep
    BY <1>0, <2>1, <2>4 DEF CallsStep
  <2>. QED BY <1>0, <1>00, <1>01, <2>1, <2>4, <2>5
<1>12. ASSUME NEW t \in Threads, DeliverChained(t)
      PROVE  TypeOK' /\ SubscribersStep /\ CallsStep
  <2>. DEFINE s == Top(t).sender
  <2>1. /\ At(t, {"deliver"}) /\ Top(t) \in Frames /\ UNCHANGED <<sender, mutex, log>>
    BY <1>12, ChainEffect
  <2>2. PICK k \in Top(t).left :
          /\ k \in Subscribed(s) /\ Chains(s, k)
          /\ \/ Advanced(t, Served(Top(t), k))
             \/ /\ Outer[s] \in Senders
                /\ \E g \in Frames :
                     /\ g.sender = Outer[s] /\ g.pc = "test"
                     /\ g.message = Top(t).message
                     /\ Pushed(t, g, Served(Top(t), k))
    BY <1>12, ChainEffect
  <2>3. /\ Follows(Served(Top(t), k), Top(t)) /\ Served(Top(t), k).pc = Top(t).pc
        /\ Served(Top(t), k) \in Frames /\ Served(Top(t), k).left = Top(t).left \ {k}
    BY <2>1, PassTypes DEF Follows
  <2>4. OthersStay(t)
    BY <2>1, <2>2 DEF Pushed, Advanced
  <2>5. Top(t).pc = "deliver"
    BY <2>1 DEF At
  <2>. DEFINE f == Served(Top(t), k)
  <2>6. GoesOn(t, f) \/ \E g \in Frames : CallsNext(t, f, g)
    BY <2>2, <2>3, <2>5 DEF GoesOn, CallsNext
  <2>. HIDE DEF f
  <2>7. f \in Frames
    BY <2>3 DEF f
  <2>8. CallsStep
    BY <1>0, <2>1, <2>6, <2>7 DEF CallsStep
  <2>. QED BY <1>0, <1>00, <1>01, <2>1, <2>4, <2>8
<1>13. ASSUME NEW t \in Threads, Unlock(t)
      PROVE  TypeOK' /\ SubscribersStep /\ CallsStep
  <2>1. /\ UNCHANGED sender /\ Left(t)
        /\ mutex' \in [Senders -> Threads \cup {NoThread}]
        /\ log' \in Logs /\ log'.sent = log.sent
    BY <1>13, UnlockEffect
  <2>2. OthersStay(t)
    BY <2>1 DEF Left
  <2>3. CallsStep
    BY <1>0, <2>1 DEF CallsStep
  <2>. QED BY <1>0, <1>00, <1>01, <2>1, <2>2, <2>3
<1>. QED
  BY <1>1, <1>2, <1>3, <1>4, <1>5, <1>6, <1>7, <1>8, <1>9, <1>10, <1>11, <1>12, <1>13
  DEF Next, Begin, Continue

-----------------------------------------------------------------------------
(* Subscriptions and calls.                                                 *)

(* Only one sender's subscriptions change.                                  *)
LEMMA SubscribersCases ==
  ASSUME SubscribersStep, NEW s \in Senders
  PROVE  \/ Stays(s)
         \/ \E delegate \in {Listener, Outer[s]} \ {NoSender}, level \in Levels :
              Subscribes(s, delegate, level)
         \/ \E k \in Tokens : Loses(s, k)
<1>1. ASSUME NEW r \in Senders \ {s}, NEW delegate, NEW level,
             Subscribes(r, delegate, level)
      PROVE  Stays(s)
  BY <1>1 DEF Subscribes, Stays
<1>2. ASSUME NEW r \in Senders \ {s}, NEW k, Loses(r, k) PROVE Stays(s)
  BY <1>2 DEF Loses
<1>. QED BY <1>1, <1>2 DEF SubscribersStep

(* While a sender's mutex is held its subscriptions stay; a subscription    *)
(* never changes, and a new one has the next token.                         *)
LEMMA TokensGoUp ==
  ASSUME TypeOK, SubscribersStep, TypeOK', NEW s \in Senders
  PROVE  /\ mutex[s] # NoThread => Stays(s)
         /\ sender'[s].nextSubscriptionToken >= sender[s].nextSubscriptionToken
         /\ \A k \in Subscribed(s)' :
              \/ /\ k \in Subscribed(s)
                 /\ sender'[s].subscribers[k] = sender[s].subscribers[k]
              \/ /\ k = sender[s].nextSubscriptionToken /\ mutex[s] = NoThread
                 /\ k < sender'[s].nextSubscriptionToken
<1>0. sender[s].nextSubscriptionToken \in Nat
  BY SenderTypes
<1>1. CASE Stays(s)
  BY <1>0, <1>1 DEF Stays, Subscribed
<1>2. ASSUME NEW delegate, NEW level, Subscribes(s, delegate, level)
      PROVE  /\ mutex[s] = NoThread
             /\ sender'[s].nextSubscriptionToken = sender[s].nextSubscriptionToken + 1
             /\ \A k \in Subscribed(s)' :
                  \/ /\ k \in Subscribed(s)
                     /\ sender'[s].subscribers[k] = sender[s].subscribers[k]
                  \/ k = sender[s].nextSubscriptionToken
  BY <1>2 DEF Subscribes, Subscribed
<1>3. ASSUME NEW j, Loses(s, j)
      PROVE  /\ mutex[s] = NoThread
             /\ sender'[s].nextSubscriptionToken = sender[s].nextSubscriptionToken
             /\ \A k \in Subscribed(s)' :
                  /\ k \in Subscribed(s)
                  /\ sender'[s].subscribers[k] = sender[s].subscribers[k]
  BY <1>3 DEF Loses, Subscribed
<1>4. ASSUME NEW delegate, NEW level, Subscribes(s, delegate, level),
             NEW k \in Subscribed(s)', k = sender[s].nextSubscriptionToken
      PROVE  k < sender'[s].nextSubscriptionToken
  BY <1>0, <1>2, <1>4
<1>. QED BY <1>0, <1>1, <1>2, <1>3, <1>4, SubscribersCases

(* Tokens are given out once, and a second chain is not subscribed.         *)
LEMMA SubscribersStay ==
  ASSUME TypeOK, Subscribers, SubscribersStep, TypeOK'
  PROVE  Subscribers'
<1>1. ASSUME NEW s \in Senders, NEW k \in Subscribed(s)'
      PROVE  /\ k < sender'[s].nextSubscriptionToken
             /\ Chains(s, k)' => sender'[s].subscribers[k].delegate = Outer[s]
  <2>1. sender[s].nextSubscriptionToken \in Nat /\ sender'[s].nextSubscriptionToken \in Nat
        /\ k \in Nat
    <3>1. sender'[s].subscribers \in Maps
      BY DEF TypeOK, Impls, Maps
    <3>2. k \in Tokens
      BY <1>1, <3>1, MapTypes DEF Subscribed
    <3>3. sender'[s].nextSubscriptionToken \in Nat
      BY DEF TypeOK, Impls
    <3>. QED BY <3>2, <3>3, SenderTypes
  <2>2. CASE k \in Subscribed(s) /\ sender'[s].subscribers[k] = sender[s].subscribers[k]
    <3>1. k < sender[s].nextSubscriptionToken
      BY <2>2 DEF Subscribers
    <3>2. sender'[s].nextSubscriptionToken >= sender[s].nextSubscriptionToken
      BY TokensGoUp
    <3>3. Chains(s, k)' => sender'[s].subscribers[k].delegate = Outer[s]
      BY <2>2 DEF Subscribers, Chains
    <3>. QED BY <2>1, <3>1, <3>2, <3>3
  <2>3. CASE k \notin Subscribed(s)
    <3>1. ~Stays(s) /\ \A j : ~Loses(s, j)
      BY <1>1, <2>3 DEF Stays, Loses, Subscribed
    <3>2. PICK delegate \in {Listener, Outer[s]} \ {NoSender}, level \in Levels :
            Subscribes(s, delegate, level)
      BY <3>1, SubscribersCases
    <3>3. sender'[s].subscribers[k] = [delegate |-> delegate, minLevel |-> level]
          /\ k = sender[s].nextSubscriptionToken
          /\ sender'[s].nextSubscriptionToken = k + 1
      BY <1>1, <2>3, <3>2 DEF Subscribes, Subscribed
    <3>. QED BY <2>1, <3>2, <3>3, DiagnosticsAssumption DEF Chains
  <2>4. k = sender[s].nextSubscriptionToken => k \notin Subscribed(s)
    BY <2>1 DEF Subscribers
  <2>. QED BY <2>2, <2>3, <2>4, TokensGoUp
<1>2. ASSUME NEW s \in Senders, NEW j \in Subscribed(s)', NEW k \in Subscribed(s)',
             Chains(s, j)', Chains(s, k)'
      PROVE  j = k
  <2>1. CASE j \in Subscribed(s) /\ k \in Subscribed(s)
    <3>1. /\ sender'[s].subscribers[j] = sender[s].subscribers[j]
          /\ sender'[s].subscribers[k] = sender[s].subscribers[k]
      <4>1. CASE Stays(s)
        BY <1>2, <4>1 DEF Stays, Subscribed
      <4>2. ASSUME NEW i, Loses(s, i)
            PROVE  /\ sender'[s].subscribers[j] = sender[s].subscribers[j]
                   /\ sender'[s].subscribers[k] = sender[s].subscribers[k]
        BY <1>2, <4>2 DEF Loses, Subscribed
      <4>3. ASSUME NEW d, NEW l, Subscribes(s, d, l)
            PROVE  /\ sender'[s].subscribers[j] = sender[s].subscribers[j]
                   /\ sender'[s].subscribers[k] = sender[s].subscribers[k]
        BY <2>1, <4>3 DEF Subscribes
      <4>. QED BY <4>1, <4>2, <4>3, SubscribersCases
    <3>. QED BY <1>2, <2>1, <3>1 DEF Subscribers, Chains
  <2>2. CASE ~(j \in Subscribed(s) /\ k \in Subscribed(s))
    <3>1. ~Stays(s) /\ \A i : ~Loses(s, i)
      BY <1>2, <2>2 DEF Stays, Loses, Subscribed
    <3>2. PICK delegate \in {Listener, Outer[s]} \ {NoSender}, level \in Levels :
            Subscribes(s, delegate, level)
      BY <3>1, SubscribersCases
    <3>. DEFINE token == sender[s].nextSubscriptionToken
    <3>3. /\ sender'[s].subscribers[token] = [delegate |-> delegate, minLevel |-> level]
          /\ Subscribed(s)' = Subscribed(s) \cup {token}
          /\ delegate \in Senders => ~ChainedNow(s)
          /\ \A i \in Subscribed(s) : sender'[s].subscribers[i] = sender[s].subscribers[i]
      BY <3>2 DEF Subscribes, Subscribed
    <3>4. delegate \in Senders
      <4>1. j = token \/ k = token
        BY <1>2, <2>2, <3>3
      <4>2. sender'[s].subscribers[token].delegate \in Senders
        BY <1>2, <4>1 DEF Chains
      <4>. QED BY <3>3, <4>2
    <3>5. ASSUME NEW i \in Subscribed(s) PROVE ~Chains(s, i)'
      <4>1. sender[s].subscribers[i].delegate \notin Senders
        BY <3>3, <3>4, <3>5 DEF ChainedNow
      <4>2. sender'[s].subscribers[i] = sender[s].subscribers[i]
        BY <3>3, <3>5
      <4>. QED BY <4>1, <4>2 DEF Chains
    <3>. QED BY <1>2, <3>3, <3>5
  <2>. QED BY <2>1, <2>2
<1>. QED BY <1>1, <1>2 DEF Subscribers

(* No thread is in two calls to one sender: it would wait for itself.       *)
LEMMA SendersDiffer ==
  ASSUME TypeOK, Calls, NEW t \in Threads,
         NEW i \in DOMAIN stack[t], NEW j \in DOMAIN stack[t],
         stack[t][i].sender = stack[t][j].sender
  PROVE  i = j
<1>1. stack[t][i].sender \in Senders /\ i \in Nat /\ j \in Nat
  BY FrameTypes, FrameFields
<1>2. ~(i < j) /\ ~(j < i)
  BY <1>1, RankGrows DEF Calls
<1>. QED BY <1>1, <1>2

(* Calls follow the chains, for one message at a time.                      *)
LEMMA CallsStay ==
  ASSUME TypeOK, Calls, CallsStep, TypeOK'
  PROVE  Calls'
<1>. DEFINE CallOf(t, i) ==
       /\ stack[t][i].pc = "recompute" => Len(stack[t]) = 1
       /\ stack[t][i].pc = "recompute" <=> stack[t][i].message = 0
       /\ i > 1 => stack[t][i].pc = "deliver"
       /\ stack[t][i].message = Top(t).message
       /\ stack[t][i].message <= log.sent
       /\ \A j \in DOMAIN stack[t] :
            i < j => Rank[stack[t][j].sender] < Rank[stack[t][i].sender]
<1>0. /\ log.sent \in Nat /\ log'.sent \in Nat /\ log'.sent >= log.sent
      /\ \A t \in Threads : stack'[t] \in Seq(Frames)
  BY DiagnosticsAssumption DEF TypeOK, Logs, CallsStep
<1>1. ASSUME NEW t \in Threads, NEW i \in DOMAIN stack'[t], stack'[t] = stack[t]
      PROVE  CallOf(t, i)'
  <2>1. CallOf(t, i)
    BY <1>1 DEF Calls
  <2>2. stack[t][i].message \in Nat
    BY <1>1, FrameTypes, FrameFields, DiagnosticsAssumption
  <2>. QED BY <1>0, <1>1, <2>1, <2>2 DEF Top
<1>2. ASSUME NEW t \in Threads, NEW f \in Frames, Begins(t, f),
             NEW u \in Threads, NEW i \in DOMAIN stack'[u]
      PROVE  CallOf(u, i)'
  <2>1. CASE u = t
    <3>1. stack'[u] = <<f>>
      BY <1>2, <2>1 DEF Begins, Entered
    <3>2. DOMAIN stack'[u] = 1 .. 1 /\ Len(stack'[u]) = 1 /\ stack'[u][1] = f
      BY <3>1
    <3>3. i = 1
      BY <1>2, <3>2
    <3>. QED BY <1>2, <3>2, <3>3 DEF Begins, Top
  <2>. QED BY <1>1, <1>2, <2>1 DEF Begins, Entered, OthersStay
<1>3. ASSUME NEW t \in Threads, NEW f \in Frames, GoesOn(t, f),
             NEW u \in Threads, NEW i \in DOMAIN stack'[u]
      PROVE  CallOf(u, i)'
  <2>1. CASE u = t
    <3>1. /\ DOMAIN stack[t] = 1 .. Len(stack[t])
          /\ DOMAIN stack'[t] = DOMAIN stack[t] /\ Len(stack'[t]) = Len(stack[t])
          /\ 1 \in DOMAIN stack[t] /\ i \in DOMAIN stack[t]
          /\ \A j \in DOMAIN stack[t] : j \in Nat /\ (j = 1 \/ j \in 2 .. Len(stack[t]))
      BY <1>0, <1>3, <2>1, FrameTypes DEF GoesOn, Advanced
    <3>2. \A j \in DOMAIN stack[t] :
            /\ stack'[t][j].sender = stack[t][j].sender
            /\ stack'[t][j].message = stack[t][j].message
            /\ stack'[t][j].pc = "recompute" <=> stack[t][j].pc = "recompute"
            /\ j > 1 => stack'[t][j].pc = stack[t][j].pc
      BY <1>3, <3>1 DEF GoesOn, Advanced, Follows, Top
    <3>3. CallOf(t, i)
      BY <3>1 DEF Calls
    <3>4. stack[t][i].message \in Nat
      BY <3>1, FrameTypes, FrameFields, DiagnosticsAssumption
    <3>. QED BY SMTT(30), <1>0, <2>1, <3>1, <3>2, <3>3, <3>4 DEF Top
  <2>. QED BY <1>1, <1>3, <2>1 DEF GoesOn, Advanced, OthersStay
<1>4. ASSUME NEW t \in Threads, NEW f \in Frames, NEW g \in Frames, CallsNext(t, f, g),
             NEW u \in Threads, NEW i \in DOMAIN stack'[u]
      PROVE  CallOf(u, i)'
  <2>1. CASE u = t
    <3>1. /\ DOMAIN stack[t] = 1 .. Len(stack[t]) /\ Len(stack[t]) \in Nat
          /\ DOMAIN stack'[t] = 1 .. Len(stack[t]) + 1
          /\ 1 \in DOMAIN stack[t]
          /\ \A j \in DOMAIN stack'[t] : j \in Nat /\ (j = 1 \/ j - 1 \in DOMAIN stack[t])
      BY SMTT(30), <1>0, <1>4, <2>1, FrameTypes DEF CallsNext, Pushed
    <3>2. \A j \in DOMAIN stack[t] :
            /\ stack'[t][j + 1].sender = stack[t][j].sender
            /\ stack'[t][j + 1].message = stack[t][j].message
            /\ stack'[t][j + 1].pc = stack[t][j].pc
      BY <1>4, <3>1 DEF CallsNext, Pushed, Follows, Top
    <3>3. \A j \in DOMAIN stack[t] : stack[t][j].pc = "deliver"
      BY <1>4, <3>1 DEF Calls, CallsNext, Top
    <3>4. /\ stack'[t][1] = g /\ g.pc = "test" /\ g.message = Top(t).message
          /\ g.sender = Outer[Top(t).sender] /\ g.sender \in Senders
      BY <1>4, <2>1 DEF CallsNext, Pushed
    <3>5. \A j \in DOMAIN stack[t] :
            /\ stack[t][j].message = Top(t).message /\ stack[t][j].message # 0
            /\ stack[t][j].message <= log.sent /\ stack[t][j].message \in Nat
            /\ Rank[stack[t][j].sender] < Rank[g.sender]
      <4>1. ASSUME NEW j \in DOMAIN stack[t]
            PROVE  Rank[stack[t][j].sender] < Rank[g.sender]
        <5>1. stack[t][j].sender \in Senders /\ Top(t).sender \in Senders
          BY <3>1, <1>4, FrameTypes, FrameFields DEF CallsNext, Pushed
        <5>2. j = 1 \/ Rank[stack[t][j].sender] < Rank[Top(t).sender]
          BY <3>1 DEF Calls, Top
        <5>3. Rank[Top(t).sender] < Rank[g.sender]
          BY <3>4, <5>1, RankGrows
        <5>. QED BY <3>4, <5>1, <5>2, <5>3, RankGrows DEF Top
      <4>2. ASSUME NEW j \in DOMAIN stack[t]
            PROVE  /\ stack[t][j].message = Top(t).message /\ stack[t][j].message # 0
                   /\ stack[t][j].message <= log.sent
        BY <3>3 DEF Calls
      <4>3. ASSUME NEW j \in DOMAIN stack[t] PROVE stack[t][j].message \in Nat
        BY FrameTypes, FrameFields, DiagnosticsAssumption
      <4>. QED BY <4>1, <4>2, <4>3
    <3>6. CASE i = 1
      <4>1. \A j \in DOMAIN stack'[t] :
              1 < j => Rank[stack'[t][j].sender] < Rank[g.sender]
        <5>1. ASSUME NEW j \in DOMAIN stack'[t], 1 < j
              PROVE  Rank[stack'[t][j].sender] < Rank[g.sender]
          <6>1. j - 1 \in DOMAIN stack[t] /\ j = (j - 1) + 1
            BY <3>1, <5>1
          <6>. QED BY <6>1, <3>2, <3>5
        <5>. QED BY <5>1
      <4>2. /\ g.message # 0 /\ g.message <= log'.sent /\ g.pc # "recompute"
        <5>1. /\ Top(t).message # 0 /\ Top(t).message <= log.sent
              /\ Top(t).message \in Nat
          BY <3>1, <3>5 DEF Top
        <5>. QED BY <1>0, <3>4, <5>1
      <4>3. stack'[t][i] = g /\ Top(t)' = g
        BY <3>4, <3>6 DEF Top
      <4>. QED BY <2>1, <3>6, <4>1, <4>2, <4>3
    <3>7. CASE i # 1
      <4>1. i - 1 \in DOMAIN stack[t] /\ i = (i - 1) + 1 /\ i \in Nat
        BY <2>1, <3>1, <3>7
      <4>2. \A j \in DOMAIN stack'[t] :
              i < j => Rank[stack'[t][j].sender] < Rank[stack'[t][i].sender]
        <5>1. ASSUME NEW j \in DOMAIN stack'[t], i < j
              PROVE  Rank[stack'[t][j].sender] < Rank[stack'[t][i].sender]
          <6>1. j - 1 \in DOMAIN stack[t] /\ j = (j - 1) + 1 /\ i - 1 < j - 1
            BY <3>1, <4>1, <5>1
          <6>2. Rank[stack[t][j - 1].sender] < Rank[stack[t][i - 1].sender]
            BY <4>1, <6>1 DEF Calls
          <6>. QED BY <6>1, <6>2, <3>2, <4>1
        <5>. QED BY <5>1
      <4>3. /\ stack'[t][i].message = Top(t).message /\ stack'[t][i].message # 0
            /\ stack'[t][i].message <= log.sent /\ stack'[t][i].message \in Nat
            /\ stack'[t][i].pc = "deliver"
        BY <3>2, <3>3, <3>5, <4>1
      <4>. QED BY <1>0, <2>1, <3>4, <4>2, <4>3 DEF Top
    <3>. QED BY <3>6, <3>7
  <2>. QED BY <1>1, <1>4, <2>1 DEF CallsNext, Pushed, OthersStay
<1>5. ASSUME NEW t \in Threads, Left(t), NEW u \in Threads, NEW i \in DOMAIN stack'[u]
      PROVE  CallOf(u, i)'
  <2>1. CASE u = t
    <3>1. /\ DOMAIN stack[t] = 1 .. Len(stack[t]) /\ Len(stack[t]) \in Nat
          /\ DOMAIN stack'[t] = 1 .. Len(stack[t]) - 1
          /\ i \in Nat /\ i + 1 > 1 /\ i + 1 \in DOMAIN stack[t] /\ 1 \in DOMAIN stack'[t]
      BY <1>0, <1>5, <2>1, FrameTypes DEF Left
    <3>2. \A j \in DOMAIN stack'[t] : j + 1 \in DOMAIN stack[t] /\ j \in Nat
                                      /\ stack'[t][j] = stack[t][j + 1]
      BY <1>5, <3>1 DEF Left
    <3>3. CallOf(t, i + 1) /\ CallOf(t, 2)
      BY <3>1, <3>2 DEF Calls
    <3>4. stack[t][i + 1].message \in Nat
      BY <3>1, FrameTypes, FrameFields, DiagnosticsAssumption
    <3>5. \A j \in DOMAIN stack'[t] :
            i < j => Rank[stack'[t][j].sender] < Rank[stack'[t][i].sender]
      <4>1. ASSUME NEW j \in DOMAIN stack'[t], i < j
            PROVE  Rank[stack'[t][j].sender] < Rank[stack'[t][i].sender]
        <5>1. i + 1 < j + 1 /\ j + 1 \in DOMAIN stack[t]
          BY <3>1, <3>2, <4>1
        <5>2. Rank[stack[t][j + 1].sender] < Rank[stack[t][i + 1].sender]
          BY <3>3, <5>1
        <5>. QED BY <2>1, <3>2, <5>2
      <4>. QED BY <4>1
    <3>6. /\ stack'[t][i] = stack[t][i + 1] /\ Top(t)' = stack[t][2]
      BY <2>1, <3>1, <3>2 DEF Top
    <3>7. /\ stack'[t][i].pc = "deliver" /\ stack'[t][i].message # 0
          /\ stack'[t][i].message = stack[t][2].message
      BY <3>1, <3>3, <3>6
    <3>8. stack'[t][i].message <= log'.sent
      BY <1>0, <3>3, <3>4, <3>6
    <3>. QED BY <2>1, <3>5, <3>6, <3>7, <3>8
  <2>. QED BY <1>1, <1>5, <2>1 DEF Left, OthersStay
<1>6. ASSUME NEW t \in Threads, NEW i \in DOMAIN stack'[t] PROVE CallOf(t, i)'
  <2>. HIDE DEF CallOf
  <2>1. UNCHANGED stack => CallOf(t, i)'
    BY <1>1
  <2>. QED BY <1>2, <1>3, <1>4, <1>5, <2>1 DEF CallsStep
<1>. QED BY <1>6 DEF Calls

-----------------------------------------------------------------------------
(* Mutexes and iterators.                                                   *)

Looping(f) == f.pc \in {"deliver", "recompute"}

Holds(t, f) ==
  Looping(f) => mutex[f.sender] = t /\ f.left \subseteq Subscribed(f.sender)

(* Where a thread's loop over a sender is.                                  *)
IsAt(t, i, s) == i \in DOMAIN stack[t] /\ Looping(stack[t][i]) /\ stack[t][i].sender = s

(* Mutexes, in terms of the calls of each thread.                           *)
LEMMA MutexesMeans ==
  Mutexes <=> /\ \A t \in Threads : \A i \in DOMAIN stack[t] : Holds(t, stack[t][i])
              /\ \A s \in Senders : mutex[s] # NoThread => \E i : IsAt(mutex[s], i, s)
<1>1. IteratorsStayValid <=>
        \A t \in Threads : \A i \in DOMAIN stack[t] : Holds(t, stack[t][i])
  BY DEF IteratorsStayValid, Holds, Looping
<1>2. ASSUME NEW s \in Senders
      PROVE  (\E i \in DOMAIN stack[mutex[s]] :
                InLoop(mutex[s], i) /\ stack[mutex[s]][i].sender = s)
             <=> \E i : IsAt(mutex[s], i, s)
  BY DEF IsAt, InLoop, Looping
<1>. QED BY <1>1, <1>2 DEF Mutexes

(* So it is after a step.                                                   *)
LEMMA MutexesAfter ==
  ASSUME TypeOK',
         \A t \in Threads : \A i \in DOMAIN stack'[t] : Holds(t, stack[t][i])',
         \A s \in Senders, t \in Threads :
           mutex'[s] = t => \E i : IsAt(t, i, s)'
  PROVE  Mutexes'
<1>1. IteratorsStayValid'
  BY DEF IteratorsStayValid, Holds, Looping
<1>2. ASSUME NEW s \in Senders, mutex'[s] # NoThread
      PROVE  \E i \in DOMAIN stack'[mutex'[s]] :
               InLoop(mutex[s], i)' /\ stack'[mutex'[s]][i].sender = s
  <2>1. PICK t \in Threads : mutex'[s] = t
    BY <1>2 DEF TypeOK
  <2>2. PICK i : IsAt(t, i, s)'
    BY <2>1
  <2>. QED BY <2>1, <2>2 DEF IsAt, InLoop, Looping
<1>. QED BY <1>1, <1>2 DEF Mutexes

(* The loops a thread is in are those it was in, or further on.             *)
LoopsStay(t) ==
  /\ \A i \in DOMAIN stack'[t] : Looping(stack'[t][i]) =>
       \E j \in DOMAIN stack[t] :
         /\ Looping(stack[t][j]) /\ stack'[t][i].sender = stack[t][j].sender
         /\ stack'[t][i].left \subseteq stack[t][j].left
  /\ \A j \in DOMAIN stack[t] : Looping(stack[t][j]) =>
       \E i \in DOMAIN stack'[t] :
         Looping(stack'[t][i]) /\ stack'[t][i].sender = stack[t][j].sender

(* A step of a call that does not take or drop the mutex.                   *)
Progress(f, g) ==
  /\ f.sender = g.sender
  /\ Looping(f) <=> Looping(g)
  /\ Looping(f) => f.left \subseteq g.left

(* So it is with every step that takes and drops no mutex.                  *)
LEMMA LoopsStayShapes ==
  ASSUME TypeOK, TypeOK', NEW t \in Threads,
         \/ stack'[t] = stack[t]
         \/ \E f \in Frames : Entered(t, f) /\ ~Looping(f)
         \/ \E f \in Frames : Advanced(t, f) /\ Progress(f, Top(t))
         \/ \E f, g \in Frames :
              Pushed(t, g, f) /\ Progress(f, Top(t)) /\ ~Looping(g)
         \/ Left(t) /\ ~Looping(Top(t))
  PROVE  LoopsStay(t)
<1>0. /\ stack[t] \in Seq(Frames) /\ stack'[t] \in Seq(Frames)
      /\ DOMAIN stack[t] = 1 .. Len(stack[t]) /\ DOMAIN stack'[t] = 1 .. Len(stack'[t])
      /\ Len(stack[t]) \in Nat
  BY DEF TypeOK
<1>1. CASE stack'[t] = stack[t]
  BY <1>1 DEF LoopsStay
<1>2. ASSUME NEW f \in Frames, Entered(t, f), ~Looping(f) PROVE LoopsStay(t)
  <2>1. /\ DOMAIN stack'[t] = {1} /\ stack'[t][1] = f
        /\ DOMAIN stack[t] = {}
    BY <1>2 DEF Entered
  <2>. QED BY <1>2, <2>1 DEF LoopsStay
<1>3. ASSUME NEW f \in Frames, Advanced(t, f), Progress(f, Top(t)) PROVE LoopsStay(t)
  <2>1. /\ DOMAIN stack'[t] = DOMAIN stack[t] /\ 1 \in DOMAIN stack[t]
        /\ \A i \in DOMAIN stack[t] : i # 1 => stack'[t][i] = stack[t][i]
        /\ stack'[t][1] = f
    BY <1>0, <1>3 DEF Advanced
  <2>2. \A i \in DOMAIN stack[t] : Progress(stack'[t][i], stack[t][i])
    BY <1>3, <2>1 DEF Progress, Top
  <2>. QED BY <2>1, <2>2 DEF LoopsStay, Progress
<1>4. ASSUME NEW f \in Frames, NEW g \in Frames, Pushed(t, g, f),
             Progress(f, Top(t)), ~Looping(g)
      PROVE  LoopsStay(t)
  <2>1. /\ DOMAIN stack'[t] = 1 .. Len(stack[t]) + 1
        /\ 1 \in DOMAIN stack[t] /\ stack'[t][1] = g
        /\ \A i \in DOMAIN stack[t] :
             i + 1 \in DOMAIN stack'[t] /\ (i # 1 => stack'[t][i + 1] = stack[t][i])
        /\ \A i \in DOMAIN stack'[t] :
             i # 1 => i - 1 \in DOMAIN stack[t] /\ (i - 1) + 1 = i
        /\ stack'[t][2] = f
    BY SMTT(30), <1>0, <1>4 DEF Pushed
  <2>2. ASSUME NEW i \in DOMAIN stack[t]
        PROVE  Progress(stack'[t][i + 1], stack[t][i])
    <3>1. CASE i = 1
      BY <1>4, <2>1, <3>1 DEF Top
    <3>2. CASE i # 1
      <4>1. stack'[t][i + 1] = stack[t][i]
        BY <2>1, <3>2
      <4>. QED BY <4>1 DEF Progress
    <3>. QED BY <3>1, <3>2
  <2>3. ASSUME NEW i \in DOMAIN stack'[t], Looping(stack'[t][i])
        PROVE  \E j \in DOMAIN stack[t] :
                 /\ Looping(stack[t][j]) /\ stack'[t][i].sender = stack[t][j].sender
                 /\ stack'[t][i].left \subseteq stack[t][j].left
    <3>1. i - 1 \in DOMAIN stack[t] /\ (i - 1) + 1 = i
      BY <1>4, <2>1, <2>3
    <3>2. Progress(stack'[t][(i - 1) + 1], stack[t][i - 1])
      BY <2>2, <3>1
    <3>. QED BY <2>3, <3>1, <3>2 DEF Progress
  <2>. QED BY <2>1, <2>2, <2>3 DEF LoopsStay, Progress
<1>5. ASSUME Left(t), ~Looping(Top(t)) PROVE LoopsStay(t)
  <2>1. /\ DOMAIN stack'[t] = 1 .. Len(stack[t]) - 1
        /\ \A i \in DOMAIN stack'[t] :
             i + 1 \in DOMAIN stack[t] /\ stack'[t][i] = stack[t][i + 1]
        /\ \A i \in DOMAIN stack[t] :
             i # 1 => i - 1 \in DOMAIN stack'[t] /\ stack'[t][i - 1] = stack[t][i]
    <3>1. DOMAIN stack'[t] = 1 .. Len(stack[t]) - 1
      BY <1>0, <1>5 DEF Left
    <3>2. \A i \in DOMAIN stack'[t] :
             i + 1 \in DOMAIN stack[t] /\ stack'[t][i] = stack[t][i + 1]
      BY <1>0, <1>5, <3>1 DEF Left
    <3>3. ASSUME NEW i \in DOMAIN stack[t], i # 1
          PROVE  i - 1 \in DOMAIN stack'[t] /\ stack'[t][i - 1] = stack[t][i]
      <4>1. i - 1 \in DOMAIN stack'[t] /\ (i - 1) + 1 = i
        BY <1>0, <3>1, <3>3
      <4>. QED BY <3>2, <4>1
    <3>. QED BY <3>1, <3>2, <3>3
  <2>. QED BY <1>5, <2>1 DEF LoopsStay, Top
<1>. QED BY <1>1, <1>2, <1>3, <1>4, <1>5

(* The loops that stay hold the mutexes that stay.                          *)
LEMMA StillHeld ==
  ASSUME TypeOK, TypeOK', SubscribersStep, Mutexes,
         NEW t \in Threads, LoopsStay(t),
         \A s \in Senders : mutex[s] = t => mutex'[s] = t
  PROVE  /\ \A i \in DOMAIN stack'[t] : Holds(t, stack[t][i])'
         /\ \A s \in Senders : mutex[s] = t => \E i : IsAt(t, i, s)'
<1>1. ASSUME NEW i \in DOMAIN stack'[t] PROVE Holds(t, stack[t][i])'
  <2>1. CASE Looping(stack'[t][i])
    <3>1. PICK j \in DOMAIN stack[t] :
            /\ Looping(stack[t][j]) /\ stack'[t][i].sender = stack[t][j].sender
            /\ stack'[t][i].left \subseteq stack[t][j].left
      BY <2>1 DEF LoopsStay
    <3>. DEFINE s == stack[t][j].sender
    <3>2. s \in Senders /\ mutex[s] = t /\ stack[t][j].left \subseteq Subscribed(s)
      BY <3>1, FrameTypes, FrameFields, MutexesMeans DEF Holds
    <3>3. Stays(s)
      BY <3>2, TokensGoUp, DiagnosticsAssumption
    <3>. QED BY <3>1, <3>2, <3>3 DEF Holds, Stays, Subscribed
  <2>2. CASE ~Looping(stack'[t][i])
    BY <2>2 DEF Holds, Looping
  <2>. QED BY <2>1, <2>2
<1>2. ASSUME NEW s \in Senders, mutex[s] = t PROVE \E i : IsAt(t, i, s)'
  <2>1. PICK j : IsAt(t, j, s)
    BY <1>2, MutexesMeans, DiagnosticsAssumption
  <2>. QED BY <2>1 DEF IsAt, LoopsStay, Looping
<1>. QED BY <1>1, <1>2

(* No mutex is taken or dropped.                                            *)
LEMMA MutexesKept ==
  ASSUME TypeOK, TypeOK', SubscribersStep, Mutexes, UNCHANGED mutex,
         \A t \in Threads : LoopsStay(t)
  PROVE  Mutexes'
<1>1. \A t \in Threads : \A i \in DOMAIN stack'[t] : Holds(t, stack[t][i])'
  BY StillHeld
<1>2. \A s \in Senders, t \in Threads : mutex'[s] = t => \E i : IsAt(t, i, s)'
  BY StillHeld
<1>. QED BY <1>1, <1>2, MutexesAfter

(* Every step: Lock takes a mutex for the loop it begins, Unlock and the    *)
(* end of an unsubscription drop the one their loop had.                    *)
LEMMA MutexesStay ==
  ASSUME TypeOK, Subscribers, Calls, Mutexes, [Next]_vars
  PROVE  Mutexes'
<1>0. /\ TypeOK' /\ SubscribersStep /\ NoThread \notin Threads
      /\ \A t \in Threads : \A i \in DOMAIN stack[t] : Holds(t, stack[t][i])
      /\ \A s \in Senders, t \in Threads : mutex[s] = t => \E i : IsAt(t, i, s)
  BY Steps, MutexesMeans, DiagnosticsAssumption
<1>00. ASSUME NEW t \in Threads, OthersStay(t), NEW u \in Threads \ {t},
              \A s \in Senders : mutex[s] = u => mutex'[s] = u
       PROVE  /\ \A i \in DOMAIN stack'[u] : Holds(u, stack[u][i])'
              /\ \A s \in Senders : mutex[s] = u => \E i : IsAt(u, i, s)'
  <2>1. LoopsStay(u)
    BY <1>0, <1>00, LoopsStayShapes DEF OthersStay
  <2>. QED BY <1>0, <1>00, <2>1, StillHeld
<1>1. CASE UNCHANGED <<stack, mutex>>
  BY <1>0, <1>1, LoopsStayShapes, MutexesKept
<1>2. ASSUME NEW t \in Threads, NEW f \in Frames, UNCHANGED mutex,
             \/ Entered(t, f) /\ ~Looping(f)
             \/ Advanced(t, f) /\ Progress(f, Top(t))
             \/ \E g \in Frames : Pushed(t, g, f) /\ Progress(f, Top(t)) /\ ~Looping(g)
      PROVE  Mutexes'
  <2>1. ASSUME NEW u \in Threads PROVE LoopsStay(u)
    <3>1. CASE u = t
      BY <1>0, <1>2, <3>1, LoopsStayShapes
    <3>2. CASE u # t
      <4>1. stack'[u] = stack[u]
        BY <1>2, <3>2 DEF Entered, Advanced, Pushed, OthersStay
      <4>. QED BY <1>0, <4>1, LoopsStayShapes
    <3>. QED BY <3>1, <3>2
  <2>. QED BY <1>0, <1>2, <2>1, MutexesKept
<1>3. ASSUME NEW t \in Threads, UNCHANGED mutex, Left(t), ~Looping(Top(t))
      PROVE  Mutexes'
  <2>1. ASSUME NEW u \in Threads PROVE LoopsStay(u)
    <3>1. CASE u = t
      BY <1>0, <1>3, <3>1, LoopsStayShapes
    <3>2. CASE u # t
      <4>1. stack'[u] = stack[u]
        BY <1>3, <3>2 DEF Left, OthersStay
      <4>. QED BY <1>0, <4>1, LoopsStayShapes
    <3>. QED BY <3>1, <3>2
  <2>. QED BY <1>0, <1>3, <2>1, MutexesKept
<1>4. ASSUME NEW t \in Threads, NEW s \in Senders, NEW k \in Tokens,
             UnsubscribeLeast(t, s, k)
      PROVE  Mutexes'
  <2>1. /\ mutex[s] = NoThread /\ mutex'[s] = t
        /\ \A r \in Senders \ {s} : mutex'[r] = mutex[r]
        /\ DOMAIN sender'[s].subscribers = Subscribed(s) \ {k}
    BY <1>4, UnsubscribeLeastEffect
  <2>2. PICK f \in Frames :
          Entered(t, f) /\ f.sender = s /\ f.left = Subscribed(s) \ {k} /\ f.pc = "recompute"
    BY <1>4, UnsubscribeLeastEffect
  <2>3. /\ DOMAIN stack'[t] = {1} /\ stack'[t][1] = f /\ DOMAIN stack[t] = {}
        /\ OthersStay(t)
    BY <2>2 DEF Entered
  <2>4. \A i \in DOMAIN stack'[t] : Holds(t, stack[t][i])'
    BY <2>1, <2>2, <2>3 DEF Holds, Subscribed
  <2>5. \A r \in Senders : mutex'[r] = t => \E i : IsAt(t, i, r)'
    <3>1. IsAt(t, 1, s)'
      BY <2>2, <2>3 DEF IsAt, Looping
    <3>2. \A r \in Senders \ {s} : mutex'[r] # t
      BY <1>0, <2>1, <2>3 DEF IsAt
    <3>. QED BY <3>1, <3>2
  <2>6. \A u \in Threads \ {t}, r \in Senders : mutex'[r] = u <=> mutex[r] = u
    BY <1>0, <2>1
  <2>. QED BY <1>0, <1>00, <2>3, <2>4, <2>5, <2>6, MutexesAfter
<1>5. ASSUME NEW t \in Threads, Lock(t) PROVE Mutexes'
  <2>. DEFINE s == Top(t).sender
  <2>1. /\ Top(t).pc = "lock" /\ s \in Senders /\ UNCHANGED sender
        /\ mutex[s] = NoThread /\ mutex'[s] = t
        /\ \A r \in Senders \ {s} : mutex'[r] = mutex[r]
    BY <1>5, LockEffect, FrameFields DEF At
  <2>2. PICK f \in Frames :
          /\ Advanced(t, f) /\ f.sender = s /\ f.pc = "deliver" /\ f.left = Subscribed(s)
    BY <1>5, LockEffect DEF Follows
  <2>3. /\ 1 \in DOMAIN stack'[t] /\ stack'[t][1] = f
        /\ DOMAIN stack'[t] = DOMAIN stack[t] /\ OthersStay(t)
        /\ \A i \in DOMAIN stack[t] : i # 1 => stack'[t][i] = stack[t][i]
    <3>1. stack[t] \in Seq(Frames) /\ stack'[t] \in Seq(Frames)
      BY <1>0 DEF TypeOK
    <3>. QED BY <2>2, <3>1 DEF Advanced
  <2>4. ASSUME NEW i \in DOMAIN stack'[t] PROVE Holds(t, stack[t][i])'
    <3>1. CASE i = 1
      BY <2>1, <2>2, <2>3, <3>1 DEF Holds, Subscribed
    <3>2. CASE i # 1
      <4>1. Holds(t, stack[t][i]) /\ stack'[t][i] = stack[t][i] /\ stack[t][i] \in Frames
        BY <1>0, <2>3, <3>2, FrameTypes
      <4>2. Looping(stack[t][i]) => mutex'[stack[t][i].sender] = t
        BY <1>0, <2>1, <4>1, FrameFields DEF Holds
      <4>. QED BY <2>1, <4>1, <4>2 DEF Holds, Subscribed, Looping
    <3>. QED BY <3>1, <3>2
  <2>5. ASSUME NEW r \in Senders, mutex'[r] = t PROVE \E i : IsAt(t, i, r)'
    <3>1. CASE r = s
      BY <2>2, <2>3, <3>1 DEF IsAt, Looping
    <3>2. CASE r # s
      <4>1. PICK j : IsAt(t, j, r)
        BY <1>0, <2>1, <2>5, <3>2
      <4>2. j # 1
        BY <2>1, <4>1 DEF IsAt, Looping, Top
      <4>. QED BY <2>3, <4>1, <4>2 DEF IsAt
    <3>. QED BY <3>1, <3>2
  <2>6. \A u \in Threads \ {t}, r \in Senders : mutex'[r] = u <=> mutex[r] = u
    BY <1>0, <2>1
  <2>. QED BY <1>0, <1>00, <2>3, <2>4, <2>5, <2>6, MutexesAfter
<1>6. ASSUME NEW t \in Threads, Unlock(t) PROVE Mutexes'
  <2>. DEFINE s == Top(t).sender
  <2>1. /\ Looping(Top(t)) /\ s \in Senders /\ UNCHANGED sender /\ stack[t] # << >>
        /\ mutex'[s] = NoThread /\ Left(t)
        /\ \A r \in Senders \ {s} : mutex'[r] = mutex[r]
    BY <1>6, UnlockEffect, FrameFields DEF At, Looping
  <2>2. /\ 1 \in DOMAIN stack[t] /\ Top(t) = stack[t][1] /\ mutex[s] = t
    BY <1>0, <2>1, FrameTypes DEF Holds, Top
  <2>3. /\ \A i \in DOMAIN stack'[t] :
             /\ i + 1 \in DOMAIN stack[t] /\ i + 1 # 1
             /\ stack'[t][i] = stack[t][i + 1]
        /\ \A i \in DOMAIN stack[t] :
             i # 1 => i - 1 \in DOMAIN stack'[t] /\ stack'[t][i - 1] = stack[t][i]
        /\ OthersStay(t)
    <3>1. /\ stack[t] \in Seq(Frames) /\ stack'[t] \in Seq(Frames)
          /\ Len(stack'[t]) = Len(stack[t]) - 1 /\ Len(stack[t]) \in Nat
          /\ DOMAIN stack[t] = 1 .. Len(stack[t]) /\ OthersStay(t)
      BY <1>0, <2>1 DEF TypeOK, Left
    <3>2. DOMAIN stack'[t] = 1 .. Len(stack[t]) - 1
      BY <3>1
    <3>3. \A i \in DOMAIN stack'[t] :
             /\ i + 1 \in DOMAIN stack[t] /\ i + 1 # 1
             /\ stack'[t][i] = stack[t][i + 1]
      BY <2>1, <3>1, <3>2 DEF Left
    <3>4. ASSUME NEW i \in DOMAIN stack[t], i # 1
          PROVE  i - 1 \in DOMAIN stack'[t] /\ stack'[t][i - 1] = stack[t][i]
      <4>1. i - 1 \in DOMAIN stack'[t] /\ (i - 1) + 1 = i
        BY <3>1, <3>2, <3>4
      <4>. QED BY <3>3, <4>1
    <3>. QED BY <3>1, <3>3, <3>4
  <2>4. ASSUME NEW i \in DOMAIN stack'[t] PROVE Holds(t, stack[t][i])'
    <3>. DEFINE f == stack[t][i + 1]
    <3>1. Holds(t, f) /\ stack'[t][i] = f /\ f \in Frames /\ i + 1 \in DOMAIN stack[t]
          /\ i + 1 # 1
      BY <1>0, <2>3, FrameTypes
    <3>2. f.sender # s
      BY <2>2, <3>1, SendersDiffer
    <3>3. mutex'[f.sender] = mutex[f.sender]
      BY <2>1, <3>1, <3>2, FrameFields
    <3>. QED BY <2>1, <3>1, <3>3 DEF Holds, Subscribed, Looping
  <2>5. ASSUME NEW r \in Senders, mutex'[r] = t PROVE \E i : IsAt(t, i, r)'
    <3>1. r # s /\ mutex[r] = t
      BY <1>0, <2>1, <2>5
    <3>2. PICK j : IsAt(t, j, r)
      BY <1>0, <3>1
    <3>3. j # 1
      BY <2>2, <3>1, <3>2 DEF IsAt
    <3>4. IsAt(t, j - 1, r)'
      BY <2>3, <3>2, <3>3 DEF IsAt
    <3>. QED BY <3>4
  <2>6. \A u \in Threads \ {t}, r \in Senders : mutex'[r] = u <=> mutex[r] = u
    BY <1>0, <2>1, <2>2
  <2>. QED BY <1>0, <1>00, <2>3, <2>4, <2>5, <2>6, MutexesAfter
<1>7. ASSUME NEW t \in Threads, NEW s \in Senders,
             \/ Subscribe(t, s) \/ Destroy(t, s)
             \/ \E k \in Tokens : Unsubscribe(t, s, k)
      PROVE  Mutexes'
  BY <1>1, <1>7 DEF Subscribe, Unsubscribe, Destroy
<1>8. ASSUME NEW t \in Threads, NEW s \in Senders, Publish(t, s) PROVE Mutexes'
  <2>1. PICK level \in Levels, pc \in {"format", "test"} :
          LET f == Call(s, pc, level, log.sent + 1) IN
          Entered(t, f) /\ f \in Frames
    BY <1>8, PublishEffect
  <2>. DEFINE f == Call(s, pc, level, log.sent + 1)
  <2>2. ~Looping(f)
    BY DEF Call, Looping
  <2>. HIDE DEF f
  <2>3. f \in Frames /\ Entered(t, f) /\ UNCHANGED mutex
    BY <1>8, <2>1, PublishEffect DEF f
  <2>. QED BY <1>2, <2>2, <2>3
<1>9. ASSUME NEW t \in Threads,
             Recompute(t) \/ Skip(t) \/ Deliver(t) \/ DeliverChained(t)
      PROVE  Mutexes'
  <2>1. Top(t) \in Frames /\ UNCHANGED mutex
    BY <1>9, RecomputeEffect, SkipEffect, DeliverEffect, ChainEffect
  <2>2. ASSUME NEW k
        PROVE  /\ Progress(Visited(Top(t), k), Top(t)) /\ Visited(Top(t), k) \in Frames
               /\ Progress(Served(Top(t), k), Top(t)) /\ Served(Top(t), k) \in Frames
    BY <2>1, PassTypes DEF Progress, Follows, Looping
  <2>3. CASE Recompute(t) \/ Skip(t)
    <3>1. PICK k : Advanced(t, Visited(Top(t), k))
      BY <2>3, RecomputeEffect, SkipEffect
    <3>. QED BY <1>2, <2>1, <2>2, <3>1
  <2>4. CASE Deliver(t)
    <3>1. PICK k : Advanced(t, Served(Top(t), k))
      BY <2>4, DeliverEffect
    <3>. QED BY <1>2, <2>1, <2>2, <3>1
  <2>5. CASE DeliverChained(t)
    <3>1. PICK k : \/ Advanced(t, Served(Top(t), k))
                   \/ \E g \in Frames : g.pc = "test" /\ Pushed(t, g, Served(Top(t), k))
      BY <2>5, ChainEffect
    <3>2. \A g \in Frames : g.pc = "test" => ~Looping(g)
      BY DEF Looping
    <3>. QED BY <1>2, <2>1, <2>2, <3>1, <3>2
  <2>. QED BY <1>9, <2>3, <2>4, <2>5
<1>10. ASSUME NEW t \in Threads, Test(t) PROVE Mutexes'
  <2>1. /\ ~Looping(Top(t)) /\ UNCHANGED mutex
        /\ \/ Left(t)
           \/ \E f \in Frames :
                /\ Follows(f, Top(t)) /\ f.pc \in {"test", "lock"} /\ Advanced(t, f)
    BY <1>10, TestEffect DEF At, Looping
  <2>2. \A f \in Frames : Follows(f, Top(t)) /\ f.pc \in {"test", "lock"} =>
                            Progress(f, Top(t))
    BY <2>1 DEF Follows, Progress, Looping
  <2>. QED BY <1>2, <1>3, <2>1, <2>2
<1>. QED
  BY <1>1, <1>4, <1>5, <1>6, <1>7, <1>8, <1>9, <1>10 DEF Next, Begin, Continue, vars

-----------------------------------------------------------------------------
(* The minimum level.                                                       *)

(* A level is least if it is one of the levels and none is below.           *)
LEMMA LeastMeans ==
  ASSUME NEW s, NEW left
  PROVE  Least(s, left) <=>
           /\ \/ sender[s].minLevel = LevelMax
              \/ \E k \in Subscribed(s) \ left : LevelOf(s, k) = sender[s].minLevel
           /\ sender[s].minLevel <= LevelMax
           /\ \A k \in Subscribed(s) \ left : sender[s].minLevel <= LevelOf(s, k)
BY DEF Least, IsLeast

(* The same after a step.                                                   *)
LEMMA LeastAfter ==
  ASSUME NEW s, NEW left
  PROVE  Least(s, left)' <=>
           /\ \/ sender'[s].minLevel = LevelMax
              \/ \E k \in DOMAIN sender'[s].subscribers \ left' :
                   sender'[s].subscribers[k].minLevel = sender'[s].minLevel
           /\ sender'[s].minLevel <= LevelMax
           /\ \A k \in DOMAIN sender'[s].subscribers \ left' :
                sender'[s].minLevel <= sender'[s].subscribers[k].minLevel
BY DEF Least, IsLeast, Subscribed, LevelOf

SameLevels(s) ==
  /\ sender'[s].subscribers = sender[s].subscribers
  /\ sender'[s].minLevel = sender[s].minLevel

(* Nobody begins, goes on with or ends computing a minimum.                 *)
SameRecomputes(t) ==
  /\ At(t, {"recompute"})' <=> At(t, {"recompute"})
  /\ At(t, {"recompute"}) => Top(t)' = Top(t)

(* A thread whose calls stay the same is one of them.                       *)
LEMMA OthersRecompute ==
  ASSUME NEW t \in Threads, stack'[t] = stack[t]
  PROVE  SameRecomputes(t)
BY DEF SameRecomputes, At, Top

(* So is one that takes a step of a call to publish.                        *)
LEMMA SameRecomputesShapes ==
  ASSUME TypeOK, TypeOK', Calls, NEW t \in Threads,
         \/ stack'[t] = stack[t]
         \/ \E f \in Frames : Entered(t, f) /\ f.pc # "recompute"
         \/ \E f \in Frames :
              Advanced(t, f) /\ f.pc # "recompute" /\ Top(t).pc # "recompute"
         \/ \E f, g \in Frames :
              Pushed(t, g, f) /\ g.pc # "recompute" /\ Top(t).pc # "recompute"
         \/ Left(t) /\ Top(t).pc # "recompute"
  PROVE  SameRecomputes(t)
<1>1. CASE stack'[t] = stack[t]
  BY <1>1, OthersRecompute
<1>2. ASSUME NEW f \in Frames, Entered(t, f), f.pc # "recompute" PROVE SameRecomputes(t)
  <2>1. stack'[t][1] = f /\ stack[t] = << >>
    BY <1>2 DEF Entered
  <2>. QED BY <1>2, <2>1 DEF SameRecomputes, At, Top
<1>3. ASSUME NEW f \in Frames,
             Advanced(t, f), f.pc # "recompute", Top(t).pc # "recompute"
      PROVE  SameRecomputes(t)
  BY <1>3 DEF Advanced, SameRecomputes, At, Top
<1>4. ASSUME NEW f \in Frames, NEW g \in Frames,
             Pushed(t, g, f), g.pc # "recompute", Top(t).pc # "recompute"
      PROVE  SameRecomputes(t)
  BY <1>4 DEF Pushed, SameRecomputes, At, Top
<1>5. ASSUME Left(t), Top(t).pc # "recompute" PROVE SameRecomputes(t)
  <2>1. ASSUME stack'[t] # << >> PROVE stack'[t][1].pc # "recompute"
    <3>1. 2 \in DOMAIN stack[t] /\ stack'[t][1] = stack[t][2]
      <4>1. /\ stack[t] \in Seq(Frames) /\ stack'[t] \in Seq(Frames)
            /\ Len(stack'[t]) = Len(stack[t]) - 1
        BY <1>5 DEF TypeOK, Left
      <4>2. Len(stack'[t]) >= 1
        BY <2>1, <4>1
      <4>. QED BY <1>5, <4>1, <4>2 DEF Left
    <3>. QED BY <3>1 DEF Calls
  <2>. QED BY <1>5, <2>1 DEF SameRecomputes, At, Top
<1>. QED BY <1>1, <1>2, <1>3, <1>4, <1>5

(* While nobody has a sender's mutex, nobody computes its minimum.          *)
LEMMA RecomputingHolds ==
  ASSUME TypeOK, Mutexes, NEW t \in Threads, At(t, {"recompute"})
  PROVE  /\ Top(t) \in Frames /\ Top(t).sender \in Senders
         /\ mutex[Top(t).sender] = t /\ mutex[Top(t).sender] # NoThread
         /\ Top(t).left \subseteq Subscribed(Top(t).sender)
<1>1. Top(t) \in Frames /\ Top(t).sender \in Senders /\ Holds(t, Top(t))
  BY FrameTypes, FrameFields, MutexesMeans DEF At, Top
<1>. QED BY <1>1, DiagnosticsAssumption DEF At, Holds, Looping

(* A sender whose levels stay has the minimum it had.                       *)
LEMMA LevelsStay ==
  ASSUME NEW s \in Senders, SameLevels(s), \A t \in Threads : SameRecomputes(t),
         Recomputing(s) \/ Least(s, {})
  PROVE  Recomputing(s)' \/ Least(s, {})'
<1>1. CASE Recomputing(s)
  BY <1>1 DEF Recomputing, SameRecomputes
<1>2. CASE Least(s, {})
  BY <1>2, LeastMeans, LeastAfter DEF SameLevels, Subscribed, LevelOf
<1>. QED BY <1>1, <1>2

(* MinLevels, one sender and one computation at a time.                     *)
LEMMA MinLevelsMeans ==
  MinLevels <=> /\ \A s \in Senders : Recomputing(s) \/ Least(s, {})
                /\ \A t \in Threads :
                     At(t, {"recompute"}) => Least(Top(t).sender, Top(t).left)
<1>1. \A s \in Senders : Subscribed(s) \ {} = Subscribed(s)
  OBVIOUS
<1>. QED BY <1>1 DEF MinLevels, MinLevelIsLeast, Least

(* So it is after a step.                                                   *)
LEMMA MinLevelsAfter ==
  ASSUME \A s \in Senders : Recomputing(s)' \/ Least(s, {})',
         \A t \in Threads :
           At(t, {"recompute"})' => Least(Top(t).sender, Top(t).left)'
  PROVE  MinLevels'
<1>1. \A s \in Senders : Subscribed(s)' \ {} = Subscribed(s)'
  OBVIOUS
<1>. QED BY <1>1 DEF MinLevels, MinLevelIsLeast, Least

(* Steps that change no subscription and no minimum.                        *)
LEMMA MinLevelsKept ==
  ASSUME TypeOK, Mutexes, MinLevels,
         \A s \in Senders : SameLevels(s), \A t \in Threads : SameRecomputes(t)
  PROVE  MinLevels'
<1>1. \A s \in Senders : Recomputing(s)' \/ Least(s, {})'
  BY LevelsStay, MinLevelsMeans
<1>2. ASSUME NEW t \in Threads, At(t, {"recompute"})'
      PROVE  Least(Top(t).sender, Top(t).left)'
  <2>1. /\ At(t, {"recompute"}) /\ Top(t)' = Top(t) /\ Top(t).sender \in Senders
        /\ Least(Top(t).sender, Top(t).left)
    BY <1>2, RecomputingHolds, MinLevelsMeans DEF SameRecomputes
  <2>2. SameLevels(Top(t).sender)
    BY <2>1
  <2>. QED BY <2>1, <2>2 DEF SameLevels, Least, IsLeast, Subscribed, LevelOf
<1>. QED BY <1>1, <1>2, MinLevelsAfter

(* Every step: Subscribe lowers the minimum, an unsubscription that may     *)
(* raise it computes it anew.                                               *)
LEMMA MinLevelsStay ==
  ASSUME TypeOK, Subscribers, Calls, Mutexes, MinLevels, [Next]_vars
  PROVE  MinLevels'
<1>0. /\ TypeOK' /\ NoThread \notin Threads
      /\ \A s \in Senders : Recomputing(s) \/ Least(s, {})
      /\ \A t \in Threads :
           At(t, {"recompute"}) => Least(Top(t).sender, Top(t).left)
  BY Steps, MinLevelsMeans, DiagnosticsAssumption
<1>1. CASE (\A s \in Senders : SameLevels(s)) /\ UNCHANGED stack
  BY <1>1, OthersRecompute, MinLevelsKept
(* One sender changes while its mutex is free.                              *)
<1>2. ASSUME NEW s \in Senders, mutex[s] = NoThread, UNCHANGED stack,
             \A r \in Senders \ {s} : sender'[r] = sender[r],
             Least(s, {}) => Least(s, {})'
      PROVE  MinLevels'
  <2>1. ~Recomputing(s) /\ \A t \in Threads : SameRecomputes(t)
    BY <1>2, OthersRecompute, RecomputingHolds DEF Recomputing
  <2>2. ASSUME NEW r \in Senders PROVE Recomputing(r)' \/ Least(r, {})'
    <3>1. r # s => SameLevels(r)
      BY <1>2 DEF SameLevels
    <3>. QED BY <1>0, <1>2, <2>1, <3>1, LevelsStay
  <2>3. ASSUME NEW t \in Threads, At(t, {"recompute"})'
        PROVE  Least(Top(t).sender, Top(t).left)'
    <3>1. /\ At(t, {"recompute"}) /\ Top(t)' = Top(t) /\ Top(t).sender \in Senders \ {s}
          /\ Least(Top(t).sender, Top(t).left)
      BY <1>0, <1>2, <2>1, <2>3, RecomputingHolds DEF SameRecomputes
    <3>2. sender'[Top(t).sender] = sender[Top(t).sender]
      BY <1>2, <3>1
    <3>. QED BY <3>1, <3>2 DEF Least, IsLeast, Subscribed, LevelOf
  <2>. QED BY <2>2, <2>3, MinLevelsAfter
<1>3. ASSUME NEW t \in Threads, NEW s \in Senders, Subscribe(t, s) PROVE MinLevels'
  <2>1. PICK delegate \in {Listener, Outer[s]} \ {NoSender}, level \in Levels :
          Subscribes(s, delegate, level)
    BY <1>3, SubscribeEffect
  <2>. DEFINE token == sender[s].nextSubscriptionToken
  <2>2. /\ mutex[s] = NoThread /\ UNCHANGED stack
        /\ \A r \in Senders \ {s} : sender'[r] = sender[r]
        /\ DOMAIN sender'[s].subscribers = Subscribed(s) \cup {token}
        /\ \A k \in Subscribed(s) : sender'[s].subscribers[k] = sender[s].subscribers[k]
        /\ sender'[s].subscribers[token].minLevel = level
        /\ sender'[s].minLevel = Lower(sender[s].minLevel, level)
        /\ token \notin Subscribed(s)
    <3>1. UNCHANGED stack
      BY <1>3 DEF Subscribe
    <3>2. sender'[s].subscribers[token] = [delegate |-> delegate, minLevel |-> level]
      BY <2>1 DEF Subscribes
    <3>3. sender'[s].subscribers[token].minLevel = level
      BY <3>2
    <3>. QED BY <2>1, <3>1, <3>3 DEF Subscribes
  <2>. HIDE DEF token
  <2>3. level \in 0 .. LevelMax /\ sender[s].minLevel \in 0 .. LevelMax
        /\ LevelMax \in Nat /\ \A k \in Subscribed(s) : LevelOf(s, k) \in 0 .. LevelMax
    BY SenderTypes, DiagnosticsAssumption
  <2>4. ASSUME Least(s, {}) PROVE Least(s, {})'
    <3>1. /\ \/ sender[s].minLevel = LevelMax
             \/ \E k \in Subscribed(s) : LevelOf(s, k) = sender[s].minLevel
          /\ \A k \in Subscribed(s) : sender[s].minLevel <= LevelOf(s, k)
      BY <2>4, LeastMeans
    <3>2. \A k \in Subscribed(s) : sender'[s].subscribers[k].minLevel = LevelOf(s, k)
      BY <2>2 DEF LevelOf
    <3>3. CASE level < sender[s].minLevel
      <4>1. sender'[s].minLevel = level
        BY <2>2, <3>3 DEF Lower
      <4>. QED BY <2>2, <2>3, <3>1, <3>2, <3>3, <4>1, LeastAfter
    <3>4. CASE ~(level < sender[s].minLevel)
      <4>1. sender'[s].minLevel = sender[s].minLevel
        BY <2>2, <3>4 DEF Lower
      <4>. QED BY <2>2, <2>3, <3>1, <3>2, <3>4, <4>1, LeastAfter
    <3>. QED BY <3>3, <3>4
  <2>. QED BY <1>2, <2>2, <2>4
<1>4. ASSUME NEW t \in Threads, NEW s \in Senders, NEW k \in Tokens,
             Unsubscribe(t, s, k)
      PROVE  MinLevels'
  <2>0. UNCHANGED stack
    BY <1>4 DEF Unsubscribe
  <2>1. /\ mutex[s] = NoThread
        /\ k \in Subscribed(s) /\ LevelOf(s, k) # sender[s].minLevel
        /\ \A r \in Senders \ {s} : sender'[r] = sender[r]
        /\ DOMAIN sender'[s].subscribers = Subscribed(s) \ {k}
        /\ \A j \in Subscribed(s) \ {k} :
              sender'[s].subscribers[j].minLevel = LevelOf(s, j)
        /\ sender'[s].minLevel = sender[s].minLevel
    BY <1>4, UnsubscribeEffect DEF LevelOf
  <2>2. ASSUME Least(s, {}) PROVE Least(s, {})'
    BY <2>1, <2>2, LeastMeans, LeastAfter
  <2>. QED BY <1>2, <2>0, <2>1, <2>2
<1>5. ASSUME NEW t \in Threads, NEW s \in Senders, NEW k \in Tokens,
             UnsubscribeLeast(t, s, k)
      PROVE  MinLevels'
  <2>1. /\ mutex[s] = NoThread /\ stack[t] = << >>
        /\ \A r \in Senders \ {s} : sender'[r] = sender[r]
        /\ DOMAIN sender'[s].subscribers = Subscribed(s) \ {k}
        /\ sender'[s].minLevel = LevelMax /\ LevelMax \in Nat
    BY <1>5, UnsubscribeLeastEffect, DiagnosticsAssumption
  <2>2. PICK f \in Frames :
          Entered(t, f) /\ f.sender = s /\ f.left = Subscribed(s) \ {k} /\ f.pc = "recompute"
    BY <1>5, UnsubscribeLeastEffect
  <2>3. stack'[t] # << >> /\ Top(t)' = f
    BY <2>2 DEF Entered, Top
  <2>4. \A u \in Threads \ {t} : stack'[u] = stack[u]
    BY <2>2 DEF Entered, OthersStay
  <2>5. ASSUME NEW r \in Senders PROVE Recomputing(r)' \/ Least(r, {})'
    <3>1. CASE r = s
      BY <2>2, <2>3, <3>1 DEF Recomputing, At
    <3>2. CASE r # s
      <4>1. CASE Recomputing(r)
        <5>1. PICK u \in Threads : At(u, {"recompute"}) /\ Top(u).sender = r
          BY <4>1 DEF Recomputing
        <5>2. u # t
          BY <2>1, <5>1 DEF At
        <5>. QED BY <2>4, <5>1, <5>2 DEF Recomputing, At, Top
      <4>2. CASE Least(r, {})
        BY <2>1, <3>2, <4>2 DEF Least, IsLeast, Subscribed, LevelOf
      <4>. QED BY <1>0, <4>1, <4>2
    <3>. QED BY <3>1, <3>2
  <2>6. ASSUME NEW u \in Threads, At(u, {"recompute"})'
        PROVE  Least(Top(u).sender, Top(u).left)'
    <3>1. CASE u = t
      <4>2. Top(u)'.sender = s /\ Top(u)'.left = DOMAIN sender'[s].subscribers
        BY <2>1, <2>2, <2>3, <3>1
      <4>. QED BY <2>1, <4>2 DEF Least, IsLeast, Subscribed, LevelOf
    <3>2. CASE u # t
      <4>1. Top(u)' = Top(u) /\ At(u, {"recompute"})
        BY <2>4, <2>6, <3>2 DEF At, Top
      <4>2. sender'[Top(u).sender] = sender[Top(u).sender]
        BY <2>1, <4>1, RecomputingHolds
      <4>. QED BY <1>0, <4>1, <4>2 DEF Least, IsLeast, Subscribed, LevelOf
    <3>. QED BY <3>1, <3>2
  <2>. QED BY <2>5, <2>6, MinLevelsAfter
<1>6. ASSUME NEW t \in Threads, Recompute(t) PROVE MinLevels'
  <2>. DEFINE s == Top(t).sender
  <2>1. /\ At(t, {"recompute"}) /\ Top(t) \in Frames
        /\ \A r \in Senders \ {s} : sender'[r] = sender[r]
        /\ sender'[s].subscribers = sender[s].subscribers
    BY <1>6, RecomputeEffect
  <2>2. PICK k \in Top(t).left :
              /\ k \in Subscribed(s)
              /\ sender'[s].minLevel = Lower(sender[s].minLevel, LevelOf(s, k))
              /\ Advanced(t, Visited(Top(t), k))
    BY <1>6, RecomputeEffect
  <2>3. /\ s \in Senders /\ mutex[s] = t /\ Least(s, Top(t).left)
    BY <1>0, <2>1, RecomputingHolds
  <2>4. /\ stack'[t] # << >> /\ Top(t)' = Visited(Top(t), k)
        /\ \A u \in Threads \ {t} : stack'[u] = stack[u]
    BY <2>2 DEF Advanced, Top, OthersStay
  <2>5. /\ Top(t)'.sender = s /\ Top(t)'.pc = "recompute"
        /\ Top(t)'.left = Top(t).left \ {k}
    BY <2>1, <2>4, PassTypes DEF At, Follows
  <2>6. At(t, {"recompute"})' /\ Top(t)'.sender = Top(t).sender
    BY <2>4, <2>5 DEF At
  <2>7. ASSUME NEW u \in Threads \ {t} PROVE SameRecomputes(u)
    BY <2>4, OthersRecompute
  <2>8. ASSUME NEW r \in Senders PROVE Recomputing(r)' \/ Least(r, {})'
    <3>1. CASE r = Top(t).sender
      BY <2>6, <3>1 DEF Recomputing
    <3>2. CASE r # s /\ Recomputing(r)
      BY <2>1, <2>7, <3>2 DEF Recomputing, SameRecomputes
    <3>3. CASE r # s /\ Least(r, {})
      BY <2>1, <3>3 DEF Least, IsLeast, Subscribed, LevelOf
    <3>. QED BY <1>0, <3>1, <3>2, <3>3
  <2>9. ASSUME NEW u \in Threads, At(u, {"recompute"})'
        PROVE  Least(Top(u).sender, Top(u).left)'
    <3>1. CASE u = t
      <4>1. /\ LevelOf(s, k) \in 0 .. LevelMax /\ sender[s].minLevel \in 0 .. LevelMax
            /\ LevelMax \in Nat /\ \A j \in Subscribed(s) : LevelOf(s, j) \in 0 .. LevelMax
        BY <2>2, <2>3, SenderTypes
      <4>2. /\ \/ sender[s].minLevel = LevelMax
               \/ \E j \in Subscribed(s) \ Top(t).left : LevelOf(s, j) = sender[s].minLevel
            /\ \A j \in Subscribed(s) \ Top(t).left : sender[s].minLevel <= LevelOf(s, j)
        BY <2>3, LeastMeans
      <4>. DEFINE visited == DOMAIN sender'[s].subscribers \ Top(t)'.left
      <4>3. /\ visited = (Subscribed(s) \ Top(t).left) \cup {k}
            /\ \A j \in visited : sender'[s].subscribers[j].minLevel = LevelOf(s, j)
        BY <2>1, <2>2, <2>5 DEF Subscribed, LevelOf
      <4>. HIDE DEF visited
      <4>4. /\ \/ sender'[s].minLevel = LevelMax
               \/ \E j \in visited :
                    sender'[s].subscribers[j].minLevel = sender'[s].minLevel
            /\ sender'[s].minLevel <= LevelMax
            /\ \A j \in visited :
                 sender'[s].minLevel <= sender'[s].subscribers[j].minLevel
        <5>1. CASE LevelOf(s, k) < sender[s].minLevel
          <6>1. sender'[s].minLevel = LevelOf(s, k)
            BY <2>2, <5>1 DEF Lower
          <6>. QED BY <4>1, <4>2, <4>3, <5>1, <6>1
        <5>2. CASE ~(LevelOf(s, k) < sender[s].minLevel)
          <6>1. sender'[s].minLevel = sender[s].minLevel
            BY <2>2, <5>2 DEF Lower
          <6>. QED BY <4>1, <4>2, <4>3, <5>2, <6>1
        <5>. QED BY <5>1, <5>2
      <4>. QED BY <2>5, <3>1, <4>4 DEF Least, IsLeast, Subscribed, LevelOf, visited
    <3>2. CASE u # t
      <4>1. Top(u)' = Top(u) /\ At(u, {"recompute"})
        BY <2>4, <2>9, <3>2 DEF At, Top
      <4>2. Top(u).sender \in Senders \ {s}
        BY <2>3, <3>2, <4>1, RecomputingHolds
      <4>3. sender'[Top(u).sender] = sender[Top(u).sender]
        BY <2>1, <4>2
      <4>. QED BY <1>0, <4>1, <4>3 DEF Least, IsLeast, Subscribed, LevelOf
    <3>. QED BY <3>1, <3>2
  <2>. QED BY <2>8, <2>9, MinLevelsAfter
<1>7. ASSUME NEW t \in Threads, Unlock(t), Top(t).pc = "recompute" PROVE MinLevels'
  <2>. DEFINE s == Top(t).sender
  <2>1. /\ stack[t] # << >> /\ Top(t).left = {} /\ UNCHANGED sender /\ Left(t)
        /\ At(t, {"recompute"})
    BY <1>7, UnlockEffect DEF At
  <2>2. stack'[t] = << >> /\ \A u \in Threads \ {t} : stack'[u] = stack[u]
    <3>1. Len(stack[t]) = 1
      BY <1>7, <2>1, FrameTypes DEF Calls, Top
    <3>2. stack'[t] \in Seq(Frames) /\ Len(stack'[t]) = 0
      BY <1>0, <2>1, <3>1 DEF Left, TypeOK
    <3>. QED BY <2>1, <3>2 DEF Left, OthersStay
  <2>3. s \in Senders /\ Least(s, {})
    BY <1>0, <2>1, RecomputingHolds
  <2>4. ASSUME NEW r \in Senders PROVE Recomputing(r)' \/ Least(r, {})'
    <3>1. CASE Least(r, {})
      BY <2>1, <3>1 DEF Least, IsLeast, Subscribed, LevelOf
    <3>2. CASE ~Least(r, {})
      <4>1. PICK u \in Threads : At(u, {"recompute"}) /\ Top(u).sender = r
        BY <1>0, <3>2 DEF Recomputing
      <4>2. u # t
        BY <2>3, <3>2, <4>1
      <4>. QED BY <2>2, <4>1, <4>2 DEF Recomputing, At, Top
    <3>. QED BY <3>1, <3>2
  <2>5. ASSUME NEW u \in Threads, At(u, {"recompute"})'
        PROVE  Least(Top(u).sender, Top(u).left)'
    <3>1. u # t
      BY <2>2, <2>5 DEF At
    <3>2. Top(u)' = Top(u) /\ At(u, {"recompute"})
      BY <2>2, <2>5, <3>1 DEF At, Top
    <3>3. sender'[Top(u).sender] = sender[Top(u).sender]
      BY <2>1
    <3>. QED BY <1>0, <3>2, <3>3 DEF Least, IsLeast, Subscribed, LevelOf
  <2>. QED BY <2>4, <2>5, MinLevelsAfter
(* A call goes on that computes no minimum.                                 *)
<1>8. ASSUME NEW t \in Threads, UNCHANGED sender, OthersStay(t), SameRecomputes(t)
      PROVE  MinLevels'
  <2>1. \A u \in Threads : SameRecomputes(u)
    BY <1>8, OthersRecompute DEF OthersStay
  <2>2. \A s \in Senders : SameLevels(s)
    BY <1>8 DEF SameLevels
  <2>. QED BY <2>1, <2>2, MinLevelsKept
<1>9. ASSUME NEW t \in Threads, NEW s \in Senders, Publish(t, s) PROVE MinLevels'
  <2>1. PICK level \in Levels, pc \in {"format", "test"} :
          LET f == Call(s, pc, level, log.sent + 1) IN
          Entered(t, f) /\ f \in Frames
    BY <1>9, PublishEffect
  <2>. DEFINE f == Call(s, pc, level, log.sent + 1)
  <2>2. f.pc # "recompute"
    BY DEF Call
  <2>. HIDE DEF f
  <2>3. f \in Frames /\ Entered(t, f) /\ UNCHANGED sender
    BY <1>9, <2>1, PublishEffect DEF f
  <2>. QED BY <1>0, <1>8, <2>2, <2>3, SameRecomputesShapes DEF Entered
<1>10. ASSUME NEW t \in Threads, Test(t) \/ Lock(t) \/ Skip(t) \/ Deliver(t)
       PROVE  MinLevels'
  <2>1. Top(t) \in Frames /\ UNCHANGED sender /\ Top(t).pc # "recompute"
    BY <1>10, TestEffect, LockEffect, SkipEffect, DeliverEffect DEF At
  <2>2. Left(t) \/ \E f \in Frames : Advanced(t, f) /\ f.pc # "recompute"
    <3>1. ASSUME NEW k, Advanced(t, Visited(Top(t), k)) \/ Advanced(t, Served(Top(t), k))
          PROVE  \E f \in Frames : Advanced(t, f) /\ f.pc # "recompute"
      <4>1. /\ Visited(Top(t), k) \in Frames /\ Served(Top(t), k) \in Frames
            /\ Visited(Top(t), k).pc = Top(t).pc /\ Served(Top(t), k).pc = Top(t).pc
        BY <2>1, PassTypes DEF Follows
      <4>. QED BY <2>1, <3>1, <4>1
    <3>2. CASE Test(t)
      BY <3>2, TestEffect
    <3>3. CASE Lock(t)
      BY <3>3, LockEffect
    <3>4. CASE Skip(t)
      BY <3>1, <3>4, SkipEffect
    <3>5. CASE Deliver(t)
      BY <3>1, <3>5, DeliverEffect
    <3>. QED BY <1>10, <3>2, <3>3, <3>4, <3>5
  <2>3. SameRecomputes(t)
    BY <1>0, <2>1, <2>2, SameRecomputesShapes
  <2>. QED BY <1>8, <2>1, <2>2, <2>3 DEF Left, Advanced
<1>11. ASSUME NEW t \in Threads, DeliverChained(t) PROVE MinLevels'
  <2>1. Top(t) \in Frames /\ UNCHANGED sender /\ Top(t).pc = "deliver"
    BY <1>11, ChainEffect DEF At
  <2>2. PICK k : \/ Advanced(t, Served(Top(t), k))
                 \/ \E g \in Frames : g.pc = "test" /\ Pushed(t, g, Served(Top(t), k))
    BY <1>11, ChainEffect
  <2>3. Served(Top(t), k) \in Frames /\ Served(Top(t), k).pc = "deliver"
    BY <2>1, PassTypes DEF Follows
  <2>4. SameRecomputes(t) /\ OthersStay(t)
    <3>1. CASE Advanced(t, Served(Top(t), k))
      BY <1>0, <2>1, <2>3, <3>1, SameRecomputesShapes DEF Advanced
    <3>2. ASSUME NEW g \in Frames, g.pc = "test", Pushed(t, g, Served(Top(t), k))
          PROVE  SameRecomputes(t) /\ OthersStay(t)
      <4>1. OthersStay(t)
        BY <3>2 DEF Pushed
      <4>. QED BY <1>0, <2>1, <2>3, <3>2, <4>1, SameRecomputesShapes
    <3>. QED BY <2>2, <3>1, <3>2
  <2>. QED BY <1>8, <2>1, <2>4
<1>12. ASSUME NEW t \in Threads, Unlock(t), Top(t).pc # "recompute" PROVE MinLevels'
  <2>1. Left(t) /\ UNCHANGED sender
    BY <1>12, UnlockEffect
  <2>2. SameRecomputes(t)
    BY <1>0, <1>12, <2>1, SameRecomputesShapes
  <2>. QED BY <1>8, <2>1, <2>2 DEF Left
<1>13. ASSUME NEW t \in Threads, NEW s \in Senders, Destroy(t, s) PROVE MinLevels'
  BY <1>1, <1>13, DestroyEffect DEF SameLevels
<1>14. CASE UNCHANGED vars
  BY <1>1, <1>14 DEF SameLevels, vars
<1>. QED
  BY <1>3, <1>4, <1>5, <1>6, <1>7, <1>9, <1>10, <1>11, <1>12, <1>13, <1>14
  DEF Next, Begin, Continue


-----------------------------------------------------------------------------
(* What is due to subscribers.                                              *)

(* What Dues says of a call, given the Impl of its sender.                  *)
DueOf(f, impl) ==
  /\ \A k \in f.due : k < impl.nextSubscriptionToken
  /\ \A k \in f.due \cap DOMAIN impl.subscribers : impl.subscribers[k].minLevel <= f.level
  /\ f.pc = "recompute" => f.due = {}
  /\ f.pc = "deliver" => f.due \cap DOMAIN impl.subscribers \subseteq f.left

(* Dues, one call at a time.                                                *)
LEMMA DuesMeans ==
  Dues <=> /\ MissedOnlyWhileRecomputing
           /\ \A t \in Threads : \A i \in DOMAIN stack[t] :
                DueOf(stack[t][i], sender[stack[t][i].sender])
BY DEF Dues, DueOf, Wanting, LevelOf, Subscribed

(* So it is after a step.                                                   *)
LEMMA DuesAfter ==
  ASSUME \A m \in log'.missed : m.blind,
         \A t \in Threads : \A i \in DOMAIN stack'[t] :
           DueOf(stack'[t][i], sender'[stack'[t][i].sender])
  PROVE  Dues'
BY DEF Dues, DueOf, Wanting, LevelOf, Subscribed, MissedOnlyWhileRecomputing

(* Who subscribes after a call began has a token that is not due, whoever   *)
(* unsubscribes is not due any more.                                        *)
LEMMA DueLasts ==
  ASSUME TypeOK, SubscribersStep, TypeOK', NEW f \in Frames,
         DueOf(f, sender[f.sender])
  PROVE  DueOf(f, sender'[f.sender])
<1>. DEFINE s == f.sender
<1>1. s \in Senders /\ f.due \subseteq Nat
  BY FrameFields, DiagnosticsAssumption DEF Tokens
<1>2. /\ sender[s].nextSubscriptionToken \in Nat
      /\ sender'[s].nextSubscriptionToken \in Nat
      /\ sender'[s].nextSubscriptionToken >= sender[s].nextSubscriptionToken
  BY <1>1, SenderTypes, TokensGoUp DEF TypeOK, Impls
<1>3. ASSUME NEW k \in f.due, k \in DOMAIN sender'[s].subscribers
      PROVE  /\ k \in DOMAIN sender[s].subscribers
             /\ sender'[s].subscribers[k] = sender[s].subscribers[k]
  <2>1. k < sender[s].nextSubscriptionToken /\ k \in Nat
    BY <1>1 DEF DueOf
  <2>2. k # sender[s].nextSubscriptionToken
    BY <1>2, <2>1
  <2>. QED BY <1>1, <1>3, <2>2, TokensGoUp DEF Subscribed
<1>4. \A k \in f.due : k < sender'[s].nextSubscriptionToken
  BY <1>1, <1>2 DEF DueOf
<1>. QED BY <1>3, <1>4 DEF DueOf

(* A call that goes on for the same subscribers or fewer.                   *)
LEMMA DueFollows ==
  ASSUME NEW impl, NEW g, NEW f, Follows(f, g), DueOf(g, impl),
         f.due \subseteq g.due,
         f.pc = "recompute" => g.pc = "recompute",
         f.pc = "deliver" => f.due \cap DOMAIN impl.subscribers \subseteq f.left
  PROVE  DueOf(f, impl)
BY DEF Follows, DueOf

(* At the beginning of a call, those it is due to are subscribed.           *)
LEMMA DueAtFirst ==
  ASSUME TypeOK, Subscribers, NEW f \in Frames, f.pc \in {"format", "test"},
         f.due = Wanting(f.sender, f.level)
  PROVE  DueOf(f, sender[f.sender])
<1>1. f.sender \in Senders
  BY FrameFields
<1>. QED BY <1>1 DEF DueOf, Wanting, Subscribed, LevelOf, Subscribers

(* What a step leaves due, by what it does to the calls.                    *)
LEMMA DuesShapes ==
  ASSUME TypeOK, SubscribersStep, TypeOK', Dues, NEW t \in Threads,
         \/ stack'[t] = stack[t]
         \/ \E f \in Frames : Entered(t, f) /\ DueOf(f, sender[f.sender])
         \/ \E f \in Frames : Advanced(t, f) /\ DueOf(f, sender[f.sender])
         \/ \E f, g \in Frames : /\ Pushed(t, g, f)
                                 /\ DueOf(f, sender[f.sender])
                                 /\ DueOf(g, sender[g.sender])
         \/ Left(t),
         NEW i \in DOMAIN stack'[t]
  PROVE  DueOf(stack'[t][i], sender'[stack'[t][i].sender])
<1>. DEFINE f == stack'[t][i]
<1>0. /\ stack[t] \in Seq(Frames) /\ stack'[t] \in Seq(Frames)
      /\ DOMAIN stack[t] = 1 .. Len(stack[t]) /\ DOMAIN stack'[t] = 1 .. Len(stack'[t])
      /\ Len(stack[t]) \in Nat /\ f \in Frames /\ i \in Nat
  BY DEF TypeOK
<1>1. \A j \in DOMAIN stack[t] : DueOf(stack[t][j], sender[stack[t][j].sender])
  BY DuesMeans
<1>2. DueOf(f, sender[f.sender])
  <2>1. CASE stack'[t] = stack[t]
    BY <1>1, <2>1
  <2>2. ASSUME NEW g \in Frames, Entered(t, g), DueOf(g, sender[g.sender])
        PROVE  DueOf(f, sender[f.sender])
    <3>1. stack'[t] = <<g>>
      BY <2>2 DEF Entered
    <3>2. stack'[t][i] = g
      BY <3>1
    <3>. QED BY <2>2, <3>2
  <2>3. ASSUME NEW g \in Frames, Advanced(t, g), DueOf(g, sender[g.sender])
        PROVE  DueOf(f, sender[f.sender])
    <3>1. f = g \/ (i \in DOMAIN stack[t] /\ f = stack[t][i])
      BY <1>0, <2>3 DEF Advanced
    <3>. QED BY <1>1, <2>3, <3>1
  <2>4. ASSUME NEW h \in Frames, NEW g \in Frames, Pushed(t, g, h),
               DueOf(h, sender[h.sender]), DueOf(g, sender[g.sender])
        PROVE  DueOf(f, sender[f.sender])
    <3>1. f = g \/ f = h \/ (i - 1 \in DOMAIN stack[t] /\ f = stack[t][i - 1])
      <4>1. i = 1 \/ i = 2 \/ i - 1 \in 2 .. Len(stack[t])
        BY <1>0, <2>4 DEF Pushed
      <4>2. CASE i - 1 \in 2 .. Len(stack[t])
        <5>1. stack'[t][(i - 1) + 1] = stack[t][i - 1] /\ (i - 1) + 1 = i
          BY <1>0, <2>4, <4>2 DEF Pushed
        <5>. QED BY <1>0, <4>2, <5>1
      <4>. QED BY <2>4, <4>1, <4>2 DEF Pushed
    <3>. QED BY <1>1, <2>4, <3>1
  <2>5. CASE Left(t)
    <3>1. i + 1 \in DOMAIN stack[t] /\ f = stack[t][i + 1]
      BY <1>0, <2>5 DEF Left
    <3>. QED BY <1>1, <3>1
  <2>. HIDE DEF f
  <2>. QED BY <2>1, <2>2, <2>3, <2>4, <2>5
<1>. HIDE DEF f
<1>3. DueOf(f, sender'[f.sender])
  BY <1>0, <1>2, DueLasts
<1>. QED BY <1>3 DEF f

(* Every step: those a message is due to are still to be visited or have    *)
(* been called, and when a call returns with somebody left it was misled by *)
(* a minimum that was being computed.                                       *)
LEMMA DuesStay ==
  ASSUME TypeOK, Subscribers, Calls, Mutexes, MinLevels, Dues, [Next]_vars
  PROVE  Dues'
<1>0. /\ TypeOK' /\ SubscribersStep
      /\ \A m \in log.missed : m.blind
      /\ \A t \in Threads : \A i \in DOMAIN stack[t] :
           DueOf(stack[t][i], sender[stack[t][i].sender])
      /\ \A t \in Threads : stack[t] # << >> => DueOf(Top(t), sender[Top(t).sender])
  BY Steps, DuesMeans, FrameTypes DEF MissedOnlyWhileRecomputing, Top
<1>1. CASE UNCHANGED stack /\ log'.missed = log.missed
  BY <1>0, <1>1, DuesShapes, DuesAfter
<1>2. ASSUME NEW t \in Threads, OthersStay(t), \A m \in log'.missed : m.blind,
             \/ \E f \in Frames : Entered(t, f) /\ DueOf(f, sender[f.sender])
             \/ \E f \in Frames : Advanced(t, f) /\ DueOf(f, sender[f.sender])
             \/ \E f, g \in Frames : /\ Pushed(t, g, f)
                                     /\ DueOf(f, sender[f.sender])
                                     /\ DueOf(g, sender[g.sender])
             \/ Left(t)
      PROVE  Dues'
  <2>1. ASSUME NEW u \in Threads, NEW i \in DOMAIN stack'[u]
        PROVE  DueOf(stack'[u][i], sender'[stack'[u][i].sender])
    <3>1. CASE u = t
      BY <1>0, <1>2, <3>1, DuesShapes
    <3>2. CASE u # t
      BY <1>0, <1>2, <3>2, DuesShapes DEF OthersStay
    <3>. QED BY <3>1, <3>2
  <2>. QED BY <1>2, <2>1, DuesAfter
<1>3. ASSUME NEW t \in Threads, NEW s \in Senders, NEW k \in Tokens,
             UnsubscribeLeast(t, s, k)
      PROVE  Dues'
  <2>1. PICK f \in Frames :
          /\ Entered(t, f)
          /\ f.sender = s /\ f.pc = "recompute" /\ f.message = 0
          /\ f.left = Subscribed(s) \ {k} /\ f.due = {}
    BY <1>3, UnsubscribeLeastEffect
  <2>2. DueOf(f, sender[f.sender]) /\ UNCHANGED log
    BY <1>3, <2>1 DEF DueOf, UnsubscribeLeast
  <2>. QED BY <1>0, <1>2, <2>1, <2>2 DEF Entered
<1>4. ASSUME NEW t \in Threads, NEW s \in Senders, Publish(t, s) PROVE Dues'
  <2>1. PICK level \in Levels, pc \in {"format", "test"} :
          LET f == Call(s, pc, level, log.sent + 1) IN
          Entered(t, f) /\ f \in Frames
    BY <1>4, PublishEffect
  <2>. DEFINE f == Call(s, pc, level, log.sent + 1)
  <2>2. f.pc = pc /\ f.due = Wanting(f.sender, f.level)
    BY DEF Call
  <2>. HIDE DEF f
  <2>3. f \in Frames /\ Entered(t, f) /\ log'.missed = log.missed
    BY <1>4, <2>1, PublishEffect DEF f
  <2>4. DueOf(f, sender[f.sender])
    BY <2>2, <2>3, DueAtFirst
  <2>. QED BY <1>0, <1>2, <2>3, <2>4 DEF Entered
<1>5. ASSUME NEW t \in Threads, Recompute(t) PROVE Dues'
  <2>1. PICK k : Advanced(t, Visited(Top(t), k))
    BY <1>5, RecomputeEffect
  <2>2. /\ Top(t) \in Frames /\ stack[t] # << >> /\ Top(t).pc = "recompute"
        /\ UNCHANGED log
    BY <1>5, RecomputeEffect DEF At
  <2>. DEFINE f == Visited(Top(t), k)
  <2>3. f \in Frames /\ Follows(f, Top(t)) /\ f.pc = "recompute" /\ f.due = Top(t).due
    BY <2>2, PassTypes DEF Follows
  <2>. HIDE DEF f
  <2>4. DueOf(f, sender[Top(t).sender]) /\ f.sender = Top(t).sender
    BY <1>0, <2>2, <2>3, DueFollows DEF Follows
  <2>5. Advanced(t, f)
    BY <2>1 DEF f
  <2>. QED BY <1>0, <1>2, <2>2, <2>3, <2>4, <2>5 DEF Advanced
<1>6. ASSUME NEW t \in Threads, Test(t) PROVE Dues'
  <2>1. /\ Top(t) \in Frames /\ stack[t] # << >> /\ Top(t).pc # "recompute"
        /\ OthersStay(t)
    BY <1>6, TestEffect DEF At, Left, Advanced
  <2>2. CASE \E f \in Frames :
               /\ Follows(f, Top(t)) /\ f.due = Top(t).due
               /\ f.pc \in {"test", "lock"} /\ Advanced(t, f) /\ UNCHANGED log
    <3>1. PICK f \in Frames :
            /\ Follows(f, Top(t)) /\ f.due = Top(t).due
            /\ f.pc \in {"test", "lock"} /\ Advanced(t, f) /\ UNCHANGED log
      BY <2>2
    <3>2. DueOf(f, sender[Top(t).sender]) /\ f.sender = Top(t).sender
      BY <1>0, <2>1, <3>1, DueFollows DEF Follows
    <3>. QED BY <1>0, <1>2, <2>1, <3>1, <3>2
  <2>3. CASE /\ Left(t) /\ Top(t).level < sender[Top(t).sender].minLevel
             /\ \A m \in log'.missed :
                  \/ m \in log.missed
                  \/ /\ m.blind = (Top(t).blind \/ Recomputing(Top(t).sender))
                     /\ Top(t).due \cap Subscribed(Top(t).sender) # {}
    <3>. DEFINE s == Top(t).sender
    <3>1. s \in Senders /\ Top(t).level \in Levels
      BY <2>1, FrameFields
    <3>2. ASSUME ~Recomputing(s) PROVE Top(t).due \cap Subscribed(s) = {}
      <4>1. ASSUME NEW k \in Top(t).due \cap Subscribed(s) PROVE FALSE
        <5>1. sender[s].minLevel <= LevelOf(s, k)
          BY <3>1, <3>2, <4>1, MinLevelsMeans, LeastMeans
        <5>2. LevelOf(s, k) <= Top(t).level
          BY <1>0, <2>1, <4>1 DEF DueOf, LevelOf, Subscribed
        <5>3. /\ LevelOf(s, k) \in Nat /\ sender[s].minLevel \in Nat
              /\ Top(t).level \in Nat
          <6>1. Levels \subseteq Nat /\ LevelMax \in Nat
            BY DiagnosticsAssumption
          <6>2. LevelOf(s, k) \in Levels /\ sender[s].minLevel \in 0 .. LevelMax
            BY <3>1, <4>1, SenderTypes
          <6>3. LevelOf(s, k) \in Nat
            BY <6>1, <6>2
          <6>4. sender[s].minLevel \in Nat
            BY <6>1, <6>2
          <6>5. Top(t).level \in Nat
            BY <3>1, <6>1
          <6>. QED BY <6>3, <6>4, <6>5
        <5>. QED BY <2>3, <5>1, <5>2, <5>3
      <4>. QED BY <4>1
    <3>3. \A m \in log'.missed : m.blind
      BY <1>0, <2>3, <3>2
    <3>. QED BY <1>2, <2>1, <2>3, <3>3
  <2>. QED BY <1>6, <2>2, <2>3, TestEffect
<1>7. ASSUME NEW t \in Threads, Lock(t) PROVE Dues'
  <2>1. Top(t) \in Frames /\ stack[t] # << >> /\ UNCHANGED log
    BY <1>7, LockEffect
  <2>2. PICK f \in Frames :
              /\ Follows(f, Top(t)) /\ f.due = Top(t).due
              /\ f.pc = "deliver" /\ f.left = Subscribed(Top(t).sender)
              /\ Advanced(t, f)
    BY <1>7, LockEffect
  <2>3. f.due \cap DOMAIN sender[Top(t).sender].subscribers \subseteq f.left
    BY <2>2 DEF Subscribed
  <2>4. DueOf(f, sender[Top(t).sender]) /\ f.sender = Top(t).sender
    BY <1>0, <2>1, <2>2, <2>3, DueFollows DEF Follows
  <2>. QED BY <1>0, <1>2, <2>1, <2>2, <2>4 DEF Advanced
<1>8. ASSUME NEW t \in Threads, Skip(t) PROVE Dues'
  <2>. DEFINE s == Top(t).sender
  <2>1. /\ Top(t) \in Frames /\ stack[t] # << >> /\ UNCHANGED log
        /\ Top(t).pc = "deliver"
    BY <1>8, SkipEffect DEF At
  <2>2. PICK k : /\ k \in Subscribed(s) /\ k \notin Wanting(s, Top(t).level)
                 /\ Advanced(t, Visited(Top(t), k))
    BY <1>8, SkipEffect
  <2>3. DueOf(Top(t), sender[s])
    BY <1>0, <2>1
  <2>4. k \notin Top(t).due
    BY <2>2, <2>3 DEF DueOf, Wanting, Subscribed, LevelOf
  <2>. DEFINE f == Visited(Top(t), k)
  <2>5. /\ f \in Frames /\ Follows(f, Top(t)) /\ f.pc = "deliver" /\ f.due = Top(t).due
        /\ f.left = Top(t).left \ {k}
    BY <2>1, PassTypes DEF Follows
  <2>. HIDE DEF f
  <2>6. f.due \cap DOMAIN sender[s].subscribers \subseteq f.left
    BY <2>1, <2>3, <2>4, <2>5 DEF DueOf
  <2>7. DueOf(f, sender[s]) /\ f.sender = s
    BY <2>3, <2>5, <2>6, DueFollows DEF Follows
  <2>8. Advanced(t, f)
    BY <2>2 DEF f
  <2>. QED BY <1>0, <1>2, <2>1, <2>5, <2>7, <2>8 DEF Advanced
(* A subscriber has been called.                                            *)
<1>9. ASSUME NEW t \in Threads, NEW k, Top(t) \in Frames, stack[t] # << >>,
             Top(t).pc = "deliver"
      PROVE  /\ Served(Top(t), k) \in Frames
             /\ DueOf(Served(Top(t), k), sender[Served(Top(t), k).sender])
  <2>. DEFINE f == Served(Top(t), k)
  <2>1. /\ f \in Frames /\ Follows(f, Top(t)) /\ f.pc = "deliver"
        /\ f.due = Top(t).due \ {k} /\ f.left = Top(t).left \ {k}
    BY <1>9, PassTypes DEF Follows
  <2>. HIDE DEF f
  <2>2. DueOf(Top(t), sender[Top(t).sender])
    BY <1>0, <1>9
  <2>3. f.due \cap DOMAIN sender[Top(t).sender].subscribers \subseteq f.left
    BY <1>9, <2>1, <2>2 DEF DueOf
  <2>4. DueOf(f, sender[Top(t).sender]) /\ f.sender = Top(t).sender
    BY <2>1, <2>2, <2>3, DueFollows DEF Follows
  <2>. QED BY <2>1, <2>4 DEF f
<1>10. ASSUME NEW t \in Threads, Deliver(t) PROVE Dues'
  <2>1. /\ Top(t) \in Frames /\ stack[t] # << >> /\ log'.missed = log.missed
        /\ Top(t).pc = "deliver"
    BY <1>10, DeliverEffect DEF At
  <2>2. PICK k : Advanced(t, Served(Top(t), k))
    BY <1>10, DeliverEffect
  <2>. QED BY <1>0, <1>2, <1>9, <2>1, <2>2 DEF Advanced
<1>11. ASSUME NEW t \in Threads, DeliverChained(t) PROVE Dues'
  <2>. DEFINE r == Outer[Top(t).sender]
  <2>1. /\ Top(t) \in Frames /\ stack[t] # << >> /\ UNCHANGED log
        /\ Top(t).pc = "deliver"
    BY <1>11, ChainEffect DEF At
  <2>2. PICK k : \/ Advanced(t, Served(Top(t), k))
                 \/ /\ Outer[Top(t).sender] \in Senders
                    /\ \E g \in Frames :
                         /\ g.sender = Outer[Top(t).sender] /\ g.pc = "test"
                         /\ g.due = Wanting(Outer[Top(t).sender], g.level)
                         /\ Pushed(t, g, Served(Top(t), k))
    BY <1>11, ChainEffect
  <2>3. CASE Advanced(t, Served(Top(t), k))
    BY <1>0, <1>2, <1>9, <2>1, <2>3 DEF Advanced
  <2>4. ASSUME NEW g \in Frames, g.pc = "test", g.due = Wanting(g.sender, g.level),
               Pushed(t, g, Served(Top(t), k))
        PROVE  Dues'
    <3>1. DueOf(g, sender[g.sender])
      BY <2>4, DueAtFirst
    <3>2. OthersStay(t) /\ \A m \in log'.missed : m.blind
      BY <1>0, <2>1, <2>4 DEF Pushed
    <3>. QED BY <1>2, <1>9, <2>1, <2>4, <3>1, <3>2
  <2>. QED BY <2>2, <2>3, <2>4
<1>12. ASSUME NEW t \in Threads, Unlock(t) PROVE Dues'
  <2>. DEFINE s == Top(t).sender
  <2>1. /\ Top(t) \in Frames /\ stack[t] # << >> /\ Top(t).left = {} /\ Left(t)
        /\ Top(t).pc \in {"deliver", "recompute"}
        /\ \A m \in log'.missed : m \in log.missed \/ Top(t).due \cap Subscribed(s) # {}
    BY <1>12, UnlockEffect DEF At
  <2>2. Top(t).due \cap Subscribed(s) = {}
    BY <1>0, <2>1 DEF DueOf, Subscribed
  <2>3. OthersStay(t) /\ \A m \in log'.missed : m.blind
    BY <1>0, <2>1, <2>2 DEF Left
  <2>. QED BY <1>2, <2>1, <2>3
<1>13. ASSUME NEW t \in Threads, NEW s \in Senders,
              \/ Subscribe(t, s) \/ Destroy(t, s)
              \/ \E k \in Tokens : Unsubscribe(t, s, k)
       PROVE  Dues'
  BY <1>1, <1>13 DEF Subscribe, Destroy, Unsubscribe
<1>14. CASE UNCHANGED vars
  BY <1>1, <1>14 DEF vars
<1>. QED
  BY <1>3, <1>4, <1>5, <1>6, <1>7, <1>8, <1>10, <1>11, <1>12, <1>13, <1>14
  DEF Next, Begin, Continue

-----------------------------------------------------------------------------
(* What has been received.                                                  *)

(* Thread t is delivering message n to the subscribers of s.                *)
Delivering(t, s, n) ==
  \E i \in DOMAIN stack[t] :
    stack[t][i].pc = "deliver" /\ stack[t][i].sender = s /\ stack[t][i].message = n

(* A message that came before or after another one has been received.       *)
LEMMA BeforeOccurs ==
  ASSUME NEW s, NEW m, NEW n, SomeBefore(s, m, n)
  PROVE  Occurs(s, m) /\ Occurs(s, n)
BY DEF SomeBefore, Before, Occurs

(* A message in delivery is one that was published, and its thread has the  *)
(* mutex.                                                                   *)
LEMMA DeliveringMeans ==
  ASSUME TypeOK, Calls, Mutexes, NEW t \in Threads, NEW s, NEW n, Delivering(t, s, n)
  PROVE  /\ stack[t] # << >> /\ s \in Senders /\ mutex[s] = t
         /\ n = Top(t).message /\ n \in 1 .. log.sent
<1>1. PICK i \in DOMAIN stack[t] :
        stack[t][i].pc = "deliver" /\ stack[t][i].sender = s /\ stack[t][i].message = n
  BY DEF Delivering
<1>2. stack[t][i] \in Frames /\ stack[t] # << >>
  BY <1>1, FrameTypes
<1>3. s \in Senders /\ n \in Nat
  BY <1>1, <1>2, FrameFields, DiagnosticsAssumption
<1>4. mutex[s] = t
  BY <1>1, MutexesMeans DEF Holds, Looping
<1>5. n = Top(t).message /\ n # 0 /\ n <= log.sent
  BY <1>1 DEF Calls
<1>6. log.sent \in Nat
  BY DiagnosticsAssumption DEF TypeOK, Logs
<1>. QED BY <1>2, <1>3, <1>4, <1>5, <1>6

(* The outer calls of a thread are deliveries, further back along the       *)
(* chains.                                                                  *)
LEMMA OuterCalls ==
  ASSUME TypeOK, Calls, NEW t \in Threads, NEW s, In(t, 2, s)
  PROVE  /\ stack[t] # << >> /\ s \in Senders
         /\ Delivering(t, s, Top(t).message)
         /\ Rank[s] < Rank[Top(t).sender]
<1>1. PICK i \in DOMAIN stack[t] : i >= 2 /\ stack[t][i].sender = s
  BY DEF In
<1>2. i \in Nat /\ i > 1 /\ 1 \in DOMAIN stack[t]
      /\ stack[t][i] \in Frames /\ stack[t] # << >>
  BY <1>1, FrameTypes
<1>3. stack[t][i].pc = "deliver" /\ stack[t][i].message = Top(t).message
      /\ Rank[stack[t][i].sender] < Rank[stack[t][1].sender]
  BY <1>1, <1>2 DEF Calls
<1>. QED BY <1>1, <1>2, <1>3, FrameFields DEF Delivering, Top

(* Deliver is a step of a delivery.                                         *)
LEMMA DeliverIs ==
  ASSUME TypeOK, Calls, NEW t \in Threads, Deliver(t)
  PROVE  Delivering(t, Top(t).sender, Top(t).message)
<1>1. At(t, {"deliver"}) /\ 1 \in DOMAIN stack[t]
  BY DeliverEffect, FrameTypes
<1>. QED BY <1>1 DEF At, Top, Delivering

(* Only Deliver changes what has been received.                             *)
LEMMA Receipts ==
  ASSUME TypeOK, Calls, [Next]_vars
  PROVE  log'.received = log.received \/ \E t \in Threads : Deliver(t)
<1>1. CASE UNCHANGED log
  BY <1>1
<1>2. ASSUME NEW t \in Threads, NEW s \in Senders, Begin(t)
      PROVE  log'.received = log.received
  BY <1>2, PublishEffect
  DEF Begin, Subscribe, Unsubscribe, UnsubscribeLeast, Destroy
<1>3. ASSUME NEW t \in Threads, Begin(t) PROVE log'.received = log.received
  BY <1>2, <1>3 DEF Begin
<1>4. ASSUME NEW t \in Threads, Continue(t)
      PROVE  log'.received = log.received \/ Deliver(t)
  BY <1>4, RecomputeEffect, TestEffect, LockEffect, SkipEffect, UnlockEffect
  DEF Continue, DeliverChained
<1>. QED BY <1>1, <1>3, <1>4 DEF Next, vars

(* What has been received after a step.                                     *)
LEMMA OccursStep ==
  ASSUME TypeOK, Calls, [Next]_vars, NEW s \in Senders, NEW m, Occurs(s, m)'
  PROVE  \/ Occurs(s, m)
         \/ \E t \in Threads :
              Deliver(t) /\ s = Top(t).sender /\ m = Top(t).message
<1>1. PICK k \in Tokens : \E i \in DOMAIN log'.received[s][k] : log'.received[s][k][i] = m
  BY DEF Occurs
<1>2. CASE log'.received[s][k] = log.received[s][k]
  BY <1>1, <1>2 DEF Occurs
<1>3. ASSUME NEW t \in Threads, Deliver(t), s = Top(t).sender,
             log'.received[s][k] = Append(log.received[s][k], Top(t).message)
      PROVE  Occurs(s, m) \/ m = Top(t).message
  <2>1. log.received[s][k] \in Seq(1 .. MaxMessages)
    BY DEF TypeOK, Logs
  <2>. DEFINE q == log.received[s][k]
              p == log'.received[s][k]
  <2>2. PICK i \in DOMAIN p : p[i] = m
    BY <1>1
  <2>3. p = Append(q, Top(t).message) /\ q \in Seq(1 .. MaxMessages)
    BY <1>3, <2>1
  <2>. HIDE DEF q, p
  <2>4. (i \in DOMAIN q /\ p[i] = q[i]) \/ p[i] = Top(t).message
    BY <2>2, <2>3
  <2>. QED BY <2>2, <2>4 DEF Occurs, q
<1>4. ASSUME NEW t \in Threads, Deliver(t)
      PROVE  \/ log'.received[s][k] = log.received[s][k]
             \/ /\ s = Top(t).sender
                /\ log'.received[s][k] = Append(log.received[s][k], Top(t).message)
  BY <1>4, DeliverEffect
<1>. QED BY <1>2, <1>3, <1>4, Receipts

(* What comes after what, after a step: the message that Deliver hands out  *)
(* comes after all that its subscriber has.                                 *)
LEMMA BeforeStep ==
  ASSUME TypeOK, Calls, [Next]_vars, NEW s \in Senders, NEW m, NEW n,
         SomeBefore(s, m, n)'
  PROVE  \/ SomeBefore(s, m, n)
         \/ \E t \in Threads :
              /\ Deliver(t) /\ s = Top(t).sender /\ n = Top(t).message
              /\ Occurs(s, m)
<1>1. PICK k \in Tokens : Before(log'.received[s][k], m, n)
  BY DEF SomeBefore, Before
<1>2. CASE log'.received[s][k] = log.received[s][k]
  BY <1>1, <1>2 DEF SomeBefore
<1>3. ASSUME NEW t \in Threads, Deliver(t), s = Top(t).sender,
             log'.received[s][k] = Append(log.received[s][k], Top(t).message)
      PROVE  SomeBefore(s, m, n) \/ (n = Top(t).message /\ Occurs(s, m))
  <2>1. log.received[s][k] \in Seq(1 .. MaxMessages)
    BY DEF TypeOK, Logs
  <2>. DEFINE q == log.received[s][k]
              p == log'.received[s][k]
  <2>2. PICK i \in DOMAIN p, j \in DOMAIN p : i < j /\ p[i] = m /\ p[j] = n
    BY <1>1 DEF Before
  <2>3. p = Append(q, Top(t).message) /\ q \in Seq(1 .. MaxMessages)
    BY <1>3, <2>1
  <2>. HIDE DEF q, p
  <2>4. i \in DOMAIN q /\ p[i] = q[i]
    BY <2>2, <2>3
  <2>5. (j \in DOMAIN q /\ p[j] = q[j]) \/ p[j] = Top(t).message
    BY <2>2, <2>3
  <2>6. CASE j \in DOMAIN q /\ p[j] = q[j]
    <3>1. Before(q, m, n)
      BY <2>2, <2>4, <2>6 DEF Before
    <3>. QED BY <3>1 DEF SomeBefore, q
  <2>. QED BY <2>2, <2>4, <2>5, <2>6 DEF Occurs, q
<1>4. ASSUME NEW t \in Threads, Deliver(t)
      PROVE  \/ log'.received[s][k] = log.received[s][k]
             \/ /\ s = Top(t).sender
                /\ log'.received[s][k] = Append(log.received[s][k], Top(t).message)
  BY <1>4, DeliverEffect
<1>. QED BY <1>2, <1>3, <1>4, Receipts

(* A delivery begins when the mutex is taken.                               *)
LEMMA DeliveringStep ==
  ASSUME TypeOK, TypeOK', Calls, CallsStep, NEW t \in Threads, NEW s, NEW n,
         Delivering(t, s, n)'
  PROVE  \/ Delivering(t, s, n)
         \/ Lock(t) /\ s = Top(t).sender /\ n = Top(t).message
<1>0. /\ stack[t] \in Seq(Frames) /\ stack'[t] \in Seq(Frames)
      /\ DOMAIN stack[t] = 1 .. Len(stack[t]) /\ DOMAIN stack'[t] = 1 .. Len(stack'[t])
      /\ Len(stack[t]) \in Nat
  BY DEF TypeOK
<1>. DEFINE Is(f) == f.pc = "deliver" /\ f.sender = s /\ f.message = n
<1>1. PICK i \in DOMAIN stack'[t] : Is(stack'[t][i])
  BY DEF Delivering
<1>2. ASSUME NEW j \in DOMAIN stack[t], Is(stack[t][j]) PROVE Delivering(t, s, n)
  BY <1>2 DEF Delivering
<1>. HIDE DEF Is
<1>3. CASE stack'[t] = stack[t]
  BY <1>1, <1>2, <1>3
<1>4. ASSUME NEW f \in Frames, Begins(t, f) PROVE FALSE
  <2>1. stack'[t] = <<f>> /\ f.pc # "deliver"
    BY <1>4 DEF Begins, Entered
  <2>2. stack'[t][i] = f
    BY <1>1, <2>1
  <2>. QED BY <1>1, <2>1, <2>2 DEF Is
<1>5. ASSUME NEW f \in Frames, GoesOn(t, f)
      PROVE  \/ Delivering(t, s, n)
             \/ Lock(t) /\ s = Top(t).sender /\ n = Top(t).message
  <2>1. /\ 1 \in DOMAIN stack[t]
        /\ \/ i = 1 /\ stack'[t][i] = f
           \/ i \in DOMAIN stack[t] /\ stack'[t][i] = stack[t][i]
    BY <1>0, <1>1, <1>5 DEF GoesOn, Advanced
  <2>2. CASE i = 1 /\ stack'[t][i] = f
    <3>1. f.pc = "deliver" /\ Top(t).sender = s /\ Top(t).message = n
      BY <1>1, <1>5, <2>2 DEF Is, GoesOn, Follows
    <3>2. Top(t).pc = "deliver" \/ Lock(t)
      BY <1>5, <3>1 DEF GoesOn
    <3>3. Top(t).pc = "deliver" => Is(stack[t][1])
      BY <3>1 DEF Is, Top
    <3>. QED BY <1>2, <2>1, <3>1, <3>2, <3>3
  <2>. QED BY <1>1, <1>2, <2>1, <2>2
<1>6. ASSUME NEW f \in Frames, NEW g \in Frames, CallsNext(t, f, g)
      PROVE  Delivering(t, s, n)
  <2>1. 1 \in DOMAIN stack[t]
    BY <1>0, <1>6 DEF CallsNext, Pushed
  <2>2. CASE i = 1
    BY <1>1, <1>6, <2>2 DEF CallsNext, Pushed, Is
  <2>3. CASE i = 2
    <3>1. Is(stack[t][1])
      BY <1>1, <1>6, <2>3 DEF CallsNext, Pushed, Is, Follows, Top
    <3>. QED BY <1>2, <2>1, <3>1
  <2>4. CASE i # 1 /\ i # 2
    <3>1. i - 1 \in 2 .. Len(stack[t]) /\ (i - 1) + 1 = i
      BY <1>0, <1>1, <1>6, <2>4 DEF CallsNext, Pushed
    <3>2. stack'[t][(i - 1) + 1] = stack[t][i - 1]
      BY <1>6, <3>1 DEF CallsNext, Pushed
    <3>3. i - 1 \in DOMAIN stack[t] /\ Is(stack[t][i - 1])
      BY <1>0, <1>1, <3>1, <3>2
    <3>. QED BY <1>2, <3>3
  <2>. QED BY <2>2, <2>3, <2>4
<1>7. CASE Left(t)
  <2>1. i + 1 \in DOMAIN stack[t] /\ stack'[t][i] = stack[t][i + 1]
    BY <1>0, <1>1, <1>7 DEF Left
  <2>. QED BY <1>1, <1>2, <2>1
<1>8. ASSUME NEW u \in Threads, OthersStay(u) PROVE u = t \/ stack'[t] = stack[t]
  BY <1>8 DEF OthersStay
<1>9. /\ \A u \in Threads, f \in Frames : Begins(u, f) => OthersStay(u)
      /\ \A u \in Threads, f \in Frames : GoesOn(u, f) => OthersStay(u)
      /\ \A u \in Threads, f, g \in Frames : CallsNext(u, f, g) => OthersStay(u)
      /\ \A u \in Threads : Left(u) => OthersStay(u)
  BY DEF Begins, GoesOn, CallsNext, Left, Entered, Advanced, Pushed
<1>. QED BY <1>3, <1>4, <1>5, <1>6, <1>7, <1>8, <1>9 DEF CallsStep

(* Every step: a call that begins has a message no other thread has.        *)
LEMMA PublishedStay ==
  ASSUME TypeOK, Subscribers, Calls, Mutexes, Published, [Next]_vars
  PROVE  Published'
<1>0. /\ TypeOK' /\ CallsStep /\ log.sent \in Nat /\ log'.sent \in Nat
      /\ log'.sent >= log.sent
  BY Steps, DiagnosticsAssumption DEF TypeOK, Logs, CallsStep
<1>1. ASSUME NEW s \in Senders, NEW n \in Nat, Occurs(s, n)' PROVE n \in 1 .. log'.sent
  <2>1. CASE Occurs(s, n)
    BY <1>0, <2>1 DEF Published
  <2>2. ASSUME NEW t \in Threads, Deliver(t), n = Top(t).message
        PROVE  n \in 1 .. log'.sent
    BY <1>0, <2>2, DeliverIs, DeliveringMeans
  <2>. QED BY <1>1, <2>1, <2>2, OccursStep
(* A thread has the message it had, none, or a new one.                     *)
<1>2. ASSUME NEW t \in Threads, stack'[t] # << >>
      PROVE  \/ stack[t] # << >> /\ Top(t)'.message = Top(t).message
             \/ Top(t)'.message = 0
             \/ /\ Top(t)'.message = log.sent + 1
                /\ \A u \in Threads \ {t} : stack'[u] = stack[u]
  <2>1. CASE stack'[t] = stack[t]
    BY <1>2, <2>1 DEF Top
  <2>2. ASSUME NEW f \in Frames, Begins(t, f)
        PROVE  \/ Top(t)'.message = 0
               \/ /\ Top(t)'.message = log.sent + 1
                  /\ \A u \in Threads \ {t} : stack'[u] = stack[u]
    BY <2>2 DEF Begins, Entered, OthersStay, Top
  <2>3. ASSUME NEW f \in Frames, GoesOn(t, f)
        PROVE  stack[t] # << >> /\ Top(t)'.message = Top(t).message
    BY <2>3 DEF GoesOn, Advanced, Follows, Top
  <2>4. ASSUME NEW f \in Frames, NEW g \in Frames, CallsNext(t, f, g)
        PROVE  stack[t] # << >> /\ Top(t)'.message = Top(t).message
    BY <2>4 DEF CallsNext, Pushed, Top
  <2>5. CASE Left(t)
    <3>1. /\ stack[t] # << >> /\ 2 \in DOMAIN stack[t] /\ stack'[t][1] = stack[t][2]
      <4>1. /\ stack[t] \in Seq(Frames) /\ stack'[t] \in Seq(Frames)
            /\ Len(stack'[t]) = Len(stack[t]) - 1
        BY <1>0, <2>5 DEF TypeOK, Left
      <4>2. Len(stack'[t]) >= 1
        BY <1>2, <4>1
      <4>. QED BY <2>5, <4>1, <4>2 DEF Left
    <3>. QED BY <3>1 DEF Calls, Top
  <2>6. \A u \in Threads : OthersStay(u) => u = t \/ stack'[t] = stack[t]
    BY DEF OthersStay
  <2>7. /\ \A u \in Threads, f \in Frames : Begins(u, f) => OthersStay(u)
        /\ \A u \in Threads, f \in Frames : GoesOn(u, f) => OthersStay(u)
        /\ \A u \in Threads, f, g \in Frames : CallsNext(u, f, g) => OthersStay(u)
        /\ \A u \in Threads : Left(u) => OthersStay(u)
    BY DEF Begins, GoesOn, CallsNext, Left, Entered, Advanced, Pushed
  <2>. QED BY <1>0, <2>1, <2>2, <2>3, <2>4, <2>5, <2>6, <2>7 DEF CallsStep
<1>3. ASSUME NEW t \in Threads, NEW u \in Threads, t # u,
             stack'[t] # << >>, stack'[u] # << >>
      PROVE  Top(t)'.message # Top(u)'.message \/ Top(t)'.message = 0
  <2>1. ASSUME NEW r \in Threads, stack[r] # << >>
        PROVE  Top(r).message <= log.sent /\ Top(r).message \in Nat
    BY <2>1, FrameTypes, FrameFields, DiagnosticsAssumption DEF Calls, Top
  <2>2. ASSUME NEW p \in Threads, NEW q \in Threads, p # q,
               stack'[p] # << >>, stack'[q] # << >>,
               Top(p)'.message = log.sent + 1,
               \A r \in Threads \ {p} : stack'[r] = stack[r]
        PROVE  Top(p)'.message # Top(q)'.message
    <3>1. stack[q] # << >> /\ Top(q)' = Top(q)
      BY <2>2 DEF Top
    <3>. QED BY <1>0, <2>1, <2>2, <3>1
  <2>3. CASE /\ stack[t] # << >> /\ Top(t)'.message = Top(t).message
             /\ stack[u] # << >> /\ Top(u)'.message = Top(u).message
    BY <1>3, <2>3 DEF Published
  <2>. QED BY <1>2, <1>3, <2>2, <2>3
<1>. QED BY <1>1, <1>3 DEF Published

-----------------------------------------------------------------------------
(* Where a message has been.                                                *)

(* What Visits says of where the message of thread t has been received.     *)
Been(t, s) ==
  \/ In(t, 2, s)
  \/ In(t, 1, s) /\ Top(t).pc = "deliver"
  \/ Top(t).pc = "deliver" /\ ~ToCall(t) /\ Rank[s] > Rank[Top(t).sender]

(* Nothing but its own thread moves a message on.                           *)
LEMMA OwnMessage ==
  ASSUME TypeOK, Calls, Mutexes, Published, [Next]_vars,
         NEW t \in Threads, stack[t] # << >>, NEW s \in Senders,
         NEW n, n = Top(t).message, Occurs(s, n)'
  PROVE  Occurs(s, n) \/ (Deliver(t) /\ s = Top(t).sender)
<1>1. ASSUME NEW u \in Threads, Deliver(u), n = Top(u).message PROVE u = t
  <2>1. Delivering(u, Top(u).sender, Top(u).message)
    BY <1>1, DeliverIs
  <2>2. stack[u] # << >> /\ Top(u).message \in 1 .. log.sent
    BY <2>1, DeliveringMeans
  <2>3. Top(u).message # 0
    BY <2>2
  <2>. QED BY <1>1, <2>2, <2>3 DEF Published
<1>. QED BY <1>1, OccursStep

(* What is left of the loop of an outer call is no chain: there is one.     *)
LEMMA OuterLoops ==
  ASSUME TypeOK, TypeOK', Subscribers, Calls, Mutexes, Visits,
         SubscribersStep, CallsStep,
         NEW t \in Threads, NEW i \in DOMAIN stack'[t], i > 1,
         NEW k \in stack'[t][i].left
  PROVE  ~Chains(stack[t][i].sender, k)'
<1>0. /\ stack[t] \in Seq(Frames) /\ stack'[t] \in Seq(Frames)
      /\ DOMAIN stack[t] = 1 .. Len(stack[t]) /\ DOMAIN stack'[t] = 1 .. Len(stack'[t])
      /\ Len(stack[t]) \in Nat /\ i \in Nat
  BY DEF TypeOK
(* The subscriptions of a sender whose mutex the thread has stay.           *)
<1>1. ASSUME NEW j \in DOMAIN stack[t], stack[t][j].pc = "deliver",
             k \in stack[t][j].left, ~Chains(stack[t][j].sender, k),
             stack'[t][i].sender = stack[t][j].sender
      PROVE  ~Chains(stack[t][i].sender, k)'
  <2>1. stack[t][j].sender \in Senders /\ mutex[stack[t][j].sender] = t
    BY <1>1, FrameTypes, FrameFields, MutexesMeans DEF Holds, Looping
  <2>2. Stays(stack[t][j].sender)
    BY <2>1, TokensGoUp, DiagnosticsAssumption
  <2>. QED BY <1>1, <2>2 DEF Stays, Chains
<1>2. ASSUME NEW j \in DOMAIN stack[t], j > 1, stack'[t][i] = stack[t][j]
      PROVE  ~Chains(stack[t][i].sender, k)'
  BY <1>1, <1>2 DEF Visits, Calls
<1>3. CASE stack'[t] = stack[t]
  BY <1>2, <1>3
<1>4. ASSUME NEW f \in Frames, Begins(t, f) PROVE FALSE
  <2>1. stack'[t] = <<f>>
    BY <1>4 DEF Begins, Entered
  <2>. QED BY <1>0, <2>1
<1>5. ASSUME NEW f \in Frames, GoesOn(t, f) PROVE ~Chains(stack[t][i].sender, k)'
  <2>1. i \in DOMAIN stack[t] /\ stack'[t][i] = stack[t][i]
    BY <1>0, <1>5 DEF GoesOn, Advanced
  <2>. QED BY <1>2, <2>1
<1>6. ASSUME NEW f \in Frames, NEW g \in Frames, CallsNext(t, f, g)
      PROVE  ~Chains(stack[t][i].sender, k)'
  <2>1. /\ 1 \in DOMAIN stack[t] /\ Top(t) \in Frames /\ Top(t).sender \in Senders
        /\ Top(t).pc = "deliver"
    BY <1>0, <1>6, FrameTypes, FrameFields DEF CallsNext, Pushed
  <2>2. CASE i = 2
    <3>1. PICK j \in Subscribed(Top(t).sender) :
            Chains(Top(t).sender, j) /\ f.left = Top(t).left \ {j}
      BY <1>6 DEF CallsNext
    <3>2. stack'[t][i] = f /\ f.sender = Top(t).sender
      BY <1>6, <2>2 DEF CallsNext, Pushed, Follows
    <3>3. k \in Top(t).left /\ k # j
      BY <3>1, <3>2
    <3>4. Holds(t, Top(t))
      BY <2>1, MutexesMeans DEF Top
    <3>5. k \in Subscribed(Top(t).sender)
      BY <2>1, <3>3, <3>4 DEF Holds, Looping
    <3>6. ~Chains(Top(t).sender, k)
      BY <2>1, <3>1, <3>3, <3>5 DEF Subscribers
    <3>. QED BY <1>1, <2>1, <3>2, <3>3, <3>6 DEF Top
  <2>3. CASE i # 2
    <3>1. i - 1 \in 2 .. Len(stack[t]) /\ (i - 1) + 1 = i
      BY <1>0, <1>6, <2>3 DEF CallsNext, Pushed
    <3>2. stack'[t][(i - 1) + 1] = stack[t][i - 1]
      BY <1>6, <3>1 DEF CallsNext, Pushed
    <3>3. i - 1 \in DOMAIN stack[t] /\ i - 1 > 1 /\ stack'[t][i] = stack[t][i - 1]
      BY <1>0, <3>1, <3>2
    <3>. QED BY <1>2, <3>3
  <2>. QED BY <2>2, <2>3
<1>7. CASE Left(t)
  <2>1. i + 1 \in DOMAIN stack[t] /\ stack'[t][i] = stack[t][i + 1] /\ i + 1 > 1
    BY <1>0, <1>7 DEF Left
  <2>. QED BY <1>2, <2>1
<1>8. ASSUME NEW u \in Threads, OthersStay(u) PROVE u = t \/ stack'[t] = stack[t]
  BY <1>8 DEF OthersStay
<1>9. /\ \A u \in Threads, f \in Frames : Begins(u, f) => OthersStay(u)
      /\ \A u \in Threads, f \in Frames : GoesOn(u, f) => OthersStay(u)
      /\ \A u \in Threads, f, g \in Frames : CallsNext(u, f, g) => OthersStay(u)
      /\ \A u \in Threads : Left(u) => OthersStay(u)
  BY DEF Begins, GoesOn, CallsNext, Left, Entered, Advanced, Pushed
<1>. QED BY <1>3, <1>4, <1>5, <1>6, <1>7, <1>8, <1>9 DEF CallsStep

(* A thread that keeps delivering to a sender keeps what it has to call.    *)
LEMMA ToCallStays ==
  ASSUME TypeOK, TypeOK', Mutexes, SubscribersStep,
         NEW t \in Threads, stack[t] # << >>, Top(t).pc = "deliver", ~ToCall(t),
         stack'[t] # << >>, Top(t)'.sender = Top(t).sender,
         Top(t)'.left \subseteq Top(t).left
  PROVE  ~ToCall(t)'
<1>1. Top(t).sender \in Senders /\ 1 \in DOMAIN stack[t]
  BY FrameTypes, FrameFields
<1>2. Holds(t, Top(t))
  BY <1>1, MutexesMeans DEF Top
<1>3. mutex[Top(t).sender] = t
  BY <1>2 DEF Holds, Looping
<1>4. Stays(Top(t).sender)
  BY <1>1, <1>3, TokensGoUp, DiagnosticsAssumption
<1>5. ASSUME NEW k \in Top(t)'.left PROVE ~Chains(Top(t).sender, k)'
  <2>1. ~Chains(Top(t).sender, k)
    BY <1>5 DEF ToCall
  <2>. QED BY <1>4, <2>1 DEF Stays, Chains
<1>. QED BY <1>5 DEF ToCall

(* Every step: a message has only been received by the senders its thread   *)
(* is in, or by those further along the chains it has come back from.       *)
LEMMA VisitsStay ==
  ASSUME TypeOK, Subscribers, Calls, Mutexes, Published, Visits, [Next]_vars
  PROVE  Visits'
<1>0. TypeOK' /\ SubscribersStep /\ CallsStep
  BY Steps
<1>00. ASSUME NEW t \in Threads
       PROVE  /\ stack[t] \in Seq(Frames) /\ stack'[t] \in Seq(Frames)
              /\ DOMAIN stack[t] = 1 .. Len(stack[t])
              /\ DOMAIN stack'[t] = 1 .. Len(stack'[t]) /\ Len(stack[t]) \in Nat
  BY <1>0 DEF TypeOK
<1>1. ASSUME NEW t \in Threads, NEW i \in DOMAIN stack'[t], i > 1,
             NEW k \in stack'[t][i].left
      PROVE  ~Chains(stack[t][i].sender, k)'
  BY <1>0, <1>1, OuterLoops
<1>2. ASSUME NEW t \in Threads, stack'[t] # << >>, NEW s \in Senders,
             NEW n, n = Top(t)'.message, Occurs(s, n)'
      PROVE  Been(t, s)'
  (* It had been received before, or is now.                                *)
  <2>1. ASSUME stack[t] # << >>, Top(t).message = n
        PROVE  Been(t, s) \/ (Deliver(t) /\ s = Top(t).sender)
    <3>1. Occurs(s, n) \/ (Deliver(t) /\ s = Top(t).sender)
      BY <1>2, <2>1, OwnMessage
    <3>2. Occurs(s, Top(t).message) => Been(t, s)
      BY <2>1 DEF Visits, Been
    <3>. QED BY <2>1, <3>1, <3>2
  <2>2. CASE stack'[t] = stack[t]
    <3>1. ~Deliver(t)
      <4>1. ASSUME NEW k \in Top(t).left, Advanced(t, Served(Top(t), k)), Top(t) \in Frames
            PROVE  k \notin Top(t)'.left
        BY <4>1, PassTypes DEF Advanced, Top
      <4>. QED BY <2>2, <4>1, DeliverEffect DEF Top
    <3>2. Been(t, s)
      BY <1>2, <2>1, <2>2, <3>1 DEF Top
    <3>3. Top(t)' = Top(t) /\ stack[t] # << >>
      BY <1>2, <2>2 DEF Top
    <3>4. Top(t).pc = "deliver" /\ ~ToCall(t) => ~ToCall(t)'
      BY <1>0, <1>2, <3>3, ToCallStays
    <3>. QED BY <2>2, <3>2, <3>3, <3>4 DEF Been, In
  <2>3. ASSUME NEW f \in Frames, Begins(t, f) PROVE FALSE
    <3>1. n \in {0, log.sent + 1} /\ log.sent \in Nat /\ stack[t] = << >>
      BY <1>2, <2>3, DiagnosticsAssumption
      DEF Begins, Entered, Top, TypeOK, Logs
    <3>2. ~Occurs(s, n)
      BY <3>1 DEF Published
    <3>3. ASSUME NEW u \in Threads, Deliver(u), n = Top(u).message PROVE FALSE
      BY <3>1, <3>3, DeliverIs, DeliveringMeans
    <3>. QED BY <1>2, <3>2, <3>3, OccursStep
  <2>4. ASSUME NEW f \in Frames, GoesOn(t, f) PROVE Been(t, s)'
    <3>1. /\ stack[t] # << >> /\ Top(t).message = n /\ Top(t)' = f
          /\ f.sender = Top(t).sender
      BY <1>2, <2>4 DEF GoesOn, Advanced, Follows, Top
    <3>2. /\ DOMAIN stack'[t] = DOMAIN stack[t]
          /\ \A i \in DOMAIN stack[t] : stack'[t][i].sender = stack[t][i].sender
      BY <1>00, <2>4, <3>1 DEF GoesOn, Advanced, Top
    <3>3. (In(t, 1, s) => In(t, 1, s)') /\ (In(t, 2, s) => In(t, 2, s)')
      BY <3>2 DEF In
    <3>4. CASE Deliver(t) /\ s = Top(t).sender
      <4>1. Top(t).pc = "deliver" /\ 1 \in DOMAIN stack[t]
        BY <3>4, FrameTypes, DeliverEffect DEF At
      <4>2. In(t, 1, s) /\ f.pc = "deliver"
        BY <2>4, <3>4, <4>1 DEF In, Top, GoesOn
      <4>. QED BY <3>1, <3>3, <4>2 DEF Been
    <3>5. CASE Been(t, s)
      <4>1. Top(t).pc = "deliver" => f.pc = "deliver" /\ f.left \subseteq Top(t).left
        BY <2>4 DEF GoesOn
      <4>2. Top(t).pc = "deliver" /\ ~ToCall(t) => ~ToCall(t)'
        BY <1>0, <1>2, <3>1, <4>1, ToCallStays
      <4>. QED BY <3>1, <3>3, <3>5, <4>1, <4>2 DEF Been
    <3>. QED BY <2>1, <3>1, <3>4, <3>5
  <2>5. ASSUME NEW f \in Frames, NEW g \in Frames, CallsNext(t, f, g) PROVE Been(t, s)'
    <3>1. /\ stack[t] # << >> /\ Top(t).message = n /\ Top(t)' = g /\ g.pc = "test"
          /\ f.sender = Top(t).sender /\ Top(t).pc = "deliver" /\ ToCall(t)
      BY <1>2, <2>5 DEF CallsNext, Pushed, Follows, Top, ToCall
    <3>2. \A i \in DOMAIN stack[t] :
            /\ i + 1 \in DOMAIN stack'[t] /\ i >= 1 /\ i + 1 >= 2
            /\ stack'[t][i + 1].sender = stack[t][i].sender
      <4>1. ASSUME NEW i \in DOMAIN stack[t]
            PROVE  /\ i + 1 \in DOMAIN stack'[t] /\ i >= 1 /\ i + 1 >= 2
                   /\ i = 1 \/ i \in 2 .. Len(stack[t])
        BY <1>00, <2>5, <4>1 DEF CallsNext, Pushed
      <4>2. stack'[t][1 + 1] = f
        BY <2>5 DEF CallsNext, Pushed
      <4>3. \A i \in 2 .. Len(stack[t]) : stack'[t][i + 1] = stack[t][i]
        BY <2>5 DEF CallsNext, Pushed
      <4>. QED BY <3>1, <4>1, <4>2, <4>3 DEF Top
    <3>3. In(t, 1, s) => In(t, 2, s)'
      BY <3>2 DEF In
    <3>4. In(t, 2, s) => In(t, 1, s)
      BY <1>00 DEF In
    <3>5. Deliver(t) /\ s = Top(t).sender => In(t, 1, s)
      BY <1>00, <3>1, FrameTypes DEF In, Top
    <3>. QED BY <2>1, <3>1, <3>3, <3>4, <3>5 DEF Been
  <2>6. ASSUME Left(t), UNCHANGED sender PROVE Been(t, s)'
    <3>1. /\ stack[t] # << >> /\ 2 \in DOMAIN stack[t] /\ stack'[t][1] = stack[t][2]
          /\ 1 \in DOMAIN stack[t]
      <4>1. Len(stack'[t]) = Len(stack[t]) - 1
        BY <2>6 DEF Left
      <4>2. Len(stack'[t]) >= 1
        BY <1>00, <1>2
      <4>. QED BY <1>00, <2>6, <4>1, <4>2 DEF Left
    <3>2. /\ Top(t)' = stack[t][2] /\ Top(t)'.pc = "deliver" /\ Top(t).message = n
          /\ Rank[Top(t)'.sender] < Rank[Top(t).sender]
          /\ Top(t)'.sender \in Senders /\ Top(t).sender \in Senders
      BY <1>2, <3>1, FrameTypes, FrameFields DEF Calls, Top
    <3>3. ~ToCall(t)'
      <4>1. ASSUME NEW k \in Top(t)'.left PROVE ~Chains(Top(t).sender, k)'
        <5>1. ~Chains(stack[t][2].sender, k)
          BY <3>1, <3>2, <4>1 DEF Visits
        <5>. QED BY <2>6, <3>2, <5>1 DEF Chains
      <4>. QED BY <4>1 DEF ToCall
    <3>4. In(t, 2, s) => In(t, 1, s)'
      <4>1. \A i \in DOMAIN stack[t] : i >= 2 =>
              /\ i - 1 \in DOMAIN stack'[t] /\ i - 1 >= 1
              /\ stack'[t][i - 1] = stack[t][i]
        <5>1. ASSUME NEW i \in DOMAIN stack[t], i >= 2
              PROVE  /\ i - 1 \in DOMAIN stack'[t] /\ i - 1 >= 1
                     /\ stack'[t][i - 1] = stack[t][i]
          <6>1. i - 1 \in 1 .. Len(stack[t]) - 1 /\ (i - 1) + 1 = i
            BY <1>00, <5>1
          <6>2. stack'[t][i - 1] = stack[t][(i - 1) + 1]
            BY <2>6, <6>1 DEF Left
          <6>. QED BY <1>00, <2>6, <6>1, <6>2 DEF Left
        <5>. QED BY <5>1
      <4>. QED BY <4>1 DEF In
    <3>5. In(t, 1, s) => In(t, 2, s) \/ s = Top(t).sender
      BY <1>00 DEF In, Top
    <3>6. Deliver(t) => FALSE
      <4>1. ASSUME NEW k, Advanced(t, Served(Top(t), k)) PROVE FALSE
        BY <1>00, <2>6, <4>1 DEF Advanced, Left
      <4>. QED BY <4>1, DeliverEffect
    <3>7. Been(t, s)
      BY <2>1, <3>1, <3>2, <3>6
    <3>8. /\ Rank[s] \in Nat /\ Rank[Top(t)'.sender] \in Nat
          /\ Rank[Top(t).sender] \in Nat
      BY <3>2, RankGrows
    <3>. QED BY <3>2, <3>3, <3>4, <3>5, <3>7, <3>8 DEF Been
  <2>7. ASSUME NEW u \in Threads, OthersStay(u) PROVE u = t \/ stack'[t] = stack[t]
    BY <2>7 DEF OthersStay
  <2>8. /\ \A u \in Threads, f \in Frames : Begins(u, f) => OthersStay(u)
        /\ \A u \in Threads, f \in Frames : GoesOn(u, f) => OthersStay(u)
        /\ \A u \in Threads, f, g \in Frames : CallsNext(u, f, g) => OthersStay(u)
        /\ \A u \in Threads : Left(u) => OthersStay(u)
    BY DEF Begins, GoesOn, CallsNext, Left, Entered, Advanced, Pushed
  <2>. QED
    BY <1>0, <2>2, <2>3, <2>4, <2>5, <2>6, <2>7, <2>8 DEF CallsStep
<1>. QED BY <1>1, <1>2 DEF Visits, Been

-----------------------------------------------------------------------------
(* The order messages are received in.                                      *)

(* No two orders differ, and what comes after a message in delivery has not *)
(* been received.  What has not been published has no order.                *)
LEMMA OrderMeans ==
  ASSUME Order, Published, NEW m \in Nat, NEW n \in Nat, m # n, NEW s \in Senders
  PROVE  /\ \A r \in {s, Outer[s]} \cap Senders :
              ~(SomeBefore(s, m, n) /\ SomeBefore(r, n, m))
         /\ \A t \in Threads : Delivering(t, s, n) =>
              /\ ~SomeBefore(s, n, m)
              /\ Outer[s] \in Senders /\ Occurs(s, m) => ~SomeBefore(Outer[s], n, m)
<1>1. ASSUME NEW r \in {s, Outer[s]} \cap Senders,
             SomeBefore(s, m, n), SomeBefore(r, n, m)
      PROVE  FALSE
  <2>1. m \in 1 .. log.sent /\ n \in 1 .. log.sent
    BY <1>1, BeforeOccurs DEF Published
  <2>. QED BY <1>1, <2>1 DEF Order, SameOrder, SomeBefore
<1>2. ASSUME NEW t \in Threads, Delivering(t, s, n),
             \/ SomeBefore(s, n, m)
             \/ Outer[s] \in Senders /\ Occurs(s, m) /\ SomeBefore(Outer[s], n, m)
      PROVE  FALSE
  <2>1. m \in 1 .. log.sent
    BY <1>2, BeforeOccurs DEF Published
  <2>2. PICK i \in DOMAIN stack[t] : /\ stack[t][i].pc = "deliver"
                                     /\ stack[t][i].sender = s
                                     /\ stack[t][i].message = n
    BY <1>2 DEF Delivering
  <2>. QED BY <1>2, <2>1, <2>2 DEF Order
<1>. QED BY <1>1, <1>2

(* So it is after a step.                                                   *)
LEMMA OrderAfter ==
  ASSUME TypeOK',
         \A s \in Senders : \A r \in {s, Outer[s]} \cap Senders : \A m, n \in Nat :
           m # n => ~(SomeBefore(s, m, n)' /\ SomeBefore(r, n, m)'),
         \A t \in Threads, s \in Senders, m, n \in Nat :
           m # n /\ Delivering(t, s, n)' =>
             /\ ~SomeBefore(s, n, m)'
             /\ Outer[s] \in Senders /\ Occurs(s, m)' => ~SomeBefore(Outer[s], n, m)'
  PROVE  Order'
<1>0. 1 .. log'.sent \subseteq Nat
  BY DiagnosticsAssumption DEF TypeOK, Logs
<1>1. SameOrder'
  <2>1. ASSUME NEW s \in Senders, NEW r \in {s, Outer[s]} \cap Senders,
               NEW j \in Tokens, NEW k \in Tokens,
               NEW m \in 1 .. log'.sent, NEW n \in 1 .. log'.sent, m # n,
               Before(log'.received[s][j], m, n), Before(log'.received[r][k], n, m)
        PROVE  FALSE
    <3>1. SomeBefore(s, m, n)' /\ SomeBefore(r, n, m)'
      BY <2>1 DEF SomeBefore, Before
    <3>. QED BY <1>0, <2>1, <3>1
  <2>. QED BY <2>1 DEF SameOrder, Before
<1>2. ASSUME NEW t \in Threads, NEW i \in DOMAIN stack'[t],
             stack'[t][i].pc = "deliver",
             NEW s, s = stack'[t][i].sender, NEW n, n = stack'[t][i].message,
             NEW m \in 1 .. log'.sent, m # n
      PROVE  /\ ~SomeBefore(s, n, m)'
             /\ Outer[s] \in Senders /\ Occurs(s, m)' => ~SomeBefore(Outer[s], n, m)'
  <2>1. stack'[t][i] \in Frames
    BY DEF TypeOK
  <2>2. s \in Senders /\ n \in Nat /\ m \in Nat
    BY <1>0, <1>2, <2>1, FrameFields, DiagnosticsAssumption
  <2>3. Delivering(t, s, n)'
    BY <1>2 DEF Delivering
  <2>. QED BY <1>2, <2>2, <2>3
<1>. QED BY <1>1, <1>2 DEF Order

(* A message that is in delivery at the innermost sender of a thread and    *)
(* has been received by the sender chained to it is in delivery there too.  *)
LEMMA InnerHasIt ==
  ASSUME TypeOK, Calls, Visits, NEW t \in Threads, Deliver(t) \/ Lock(t),
         NEW s \in Senders, NEW n, n = Top(t).message, Occurs(s, n),
         \/ Outer[s] = Top(t).sender
         \/ Lock(t) /\ (s = Top(t).sender \/ s = Outer[Top(t).sender])
  PROVE  Delivering(t, s, n) /\ Rank[s] < Rank[Top(t).sender]
<1>1. stack[t] # << >> /\ Top(t) \in Frames /\ Top(t).sender \in Senders
  BY DeliverEffect, LockEffect, FrameFields
<1>2. Been(t, s)
  BY <1>1 DEF Visits, Been
<1>3. /\ Rank[s] \in Nat /\ Rank[Top(t).sender] \in Nat
      /\ Outer[s] = Top(t).sender => Rank[s] < Rank[Top(t).sender]
  BY <1>1, RankGrows
<1>4. In(t, 1, s) => In(t, 2, s) \/ s = Top(t).sender
  BY FrameTypes DEF In, Top
<1>5. Lock(t) => Top(t).pc = "lock"
  BY LockEffect DEF At
<1>6. In(t, 2, s)
  BY <1>2, <1>3, <1>4, <1>5 DEF Been
<1>. QED BY <1>6, OuterCalls

(* A sender is delivering one message at a time.                            *)
LEMMA OneDelivery ==
  ASSUME TypeOK, Calls, Mutexes, NEW s,
         NEW t \in Threads, NEW m, Delivering(t, s, m),
         NEW u \in Threads, NEW n, Delivering(u, s, n)
  PROVE  m = n
BY DeliveringMeans

(* Every step: what a thread delivers next comes last both where it is and  *)
(* further along the chain, for the mutexes of the senders it came through  *)
(* keep other messages from overtaking it.                                  *)
LEMMA OrderStay ==
  ASSUME TypeOK, Subscribers, Calls, Mutexes, Published, Visits, Order, [Next]_vars
  PROVE  Order'
<1>0. TypeOK' /\ CallsStep
  BY Steps
<1>1. ASSUME NEW t \in Threads, Deliver(t)
      PROVE  /\ Top(t).sender \in Senders /\ Top(t).message \in Nat
             /\ Delivering(t, Top(t).sender, Top(t).message)
  BY <1>1, DeliverIs, DeliveringMeans
<1>2. ASSUME NEW s \in Senders, NEW r \in {s, Outer[s]} \cap Senders,
             NEW m \in Nat, NEW n \in Nat, m # n,
             SomeBefore(s, m, n)', SomeBefore(r, n, m)'
      PROVE  FALSE
  <2>1. \/ SomeBefore(s, m, n)
        \/ \E t \in Threads : /\ Deliver(t) /\ s = Top(t).sender
                              /\ n = Top(t).message /\ Occurs(s, m)
    BY <1>2, BeforeStep
  <2>2. \/ SomeBefore(r, n, m)
        \/ \E t \in Threads : /\ Deliver(t) /\ r = Top(t).sender
                              /\ m = Top(t).message /\ Occurs(r, n)
    BY <1>2, BeforeStep
  <2>3. ~(SomeBefore(s, m, n) /\ SomeBefore(r, n, m))
    BY <1>2, OrderMeans
  <2>4. ASSUME NEW t \in Threads, Deliver(t), s = Top(t).sender, n = Top(t).message,
               Occurs(s, m)
        PROVE  FALSE
    <3>1. Delivering(t, s, n)
      BY <1>1, <2>4
    <3>2. ~SomeBefore(r, n, m)
      BY <1>2, <2>4, <3>1, OrderMeans
    <3>3. PICK u \in Threads : /\ Deliver(u) /\ r = Top(u).sender
                               /\ m = Top(u).message /\ Occurs(r, n)
      BY <2>2, <3>2
    <3>4. u # t
      BY <1>2, <2>4, <3>3
    <3>5. OthersStay(t) /\ OthersStay(u)
      BY <2>4, <3>3, DeliverEffect DEF Advanced
    <3>6. stack'[u] = stack[u]
      BY <3>4, <3>5 DEF OthersStay
    <3>7. PICK k \in Top(u).left : Advanced(u, Served(Top(u), k))
      BY <3>3, DeliverEffect
    <3>8. Served(Top(u), k).left = Top(u).left \ {k}
      BY <3>3, DeliverEffect, PassTypes
    <3>. QED BY <3>6, <3>7, <3>8 DEF Advanced, Top
  <2>5. ASSUME NEW t \in Threads, Deliver(t), r = Top(t).sender, m = Top(t).message,
               SomeBefore(s, m, n)
        PROVE  FALSE
    <3>1. Delivering(t, r, m)
      BY <1>1, <2>5
    <3>2. CASE r = s
      BY <1>2, <2>5, <3>1, <3>2, OrderMeans
    <3>3. CASE r = Outer[s]
      <4>1. Occurs(s, m)
        BY <2>5, BeforeOccurs
      <4>2. Delivering(t, s, m)
        BY <2>5, <3>3, <4>1, InnerHasIt
      <4>. QED BY <1>2, <2>5, <4>2, OrderMeans
    <3>. QED BY <1>2, <3>2, <3>3
  <2>. QED BY <2>1, <2>2, <2>3, <2>4, <2>5
<1>3. ASSUME NEW t \in Threads, NEW s \in Senders, NEW m \in Nat, NEW n \in Nat,
             m # n, Delivering(t, s, n)'
      PROVE  /\ ~SomeBefore(s, n, m)'
             /\ Outer[s] \in Senders /\ Occurs(s, m)' => ~SomeBefore(Outer[s], n, m)'
  (* While it delivers n no other message is delivered where n comes from.  *)
  <2>1. ASSUME NEW u \in Threads, Deliver(u), Top(u).message = m,
               Delivering(t, s, n), Delivering(u, s, m)
        PROVE  FALSE
    BY <1>3, <2>1, OneDelivery
  <2>2. CASE Delivering(t, s, n)
    <3>1. /\ ~SomeBefore(s, n, m)
          /\ Outer[s] \in Senders /\ Occurs(s, m) => ~SomeBefore(Outer[s], n, m)
      BY <1>3, <2>2, OrderMeans
    <3>2. ~SomeBefore(s, n, m)'
      BY <1>1, <2>1, <2>2, <3>1, BeforeStep
    <3>3. ASSUME Outer[s] \in Senders, Occurs(s, m)', SomeBefore(Outer[s], n, m)'
          PROVE  FALSE
      <4>1. Occurs(s, m)
        BY <1>1, <2>1, <2>2, <3>3, OccursStep
      <4>2. PICK u \in Threads : /\ Deliver(u) /\ Outer[s] = Top(u).sender
                                 /\ m = Top(u).message
        BY <3>1, <3>3, <4>1, BeforeStep
      <4>3. Delivering(u, s, m)
        BY <4>1, <4>2, InnerHasIt
      <4>. QED BY <2>1, <2>2, <4>2, <4>3
    <3>. QED BY <3>2, <3>3
  <2>3. CASE Lock(t) /\ s = Top(t).sender /\ n = Top(t).message
    <3>1. UNCHANGED log
      BY <2>3, LockEffect
    <3>2. ~Occurs(s, n)
      <4>1. ~(Rank[s] < Rank[s])
        BY RankGrows
      <4>. QED BY <2>3, <4>1, InnerHasIt
    <3>3. Outer[s] \in Senders => ~Occurs(Outer[s], n)
      <4>1. Outer[s] \in Senders => ~(Rank[Outer[s]] < Rank[s])
        BY RankGrows
      <4>. QED BY <2>3, <4>1, InnerHasIt
    <3>4. ~SomeBefore(s, n, m) /\ (Outer[s] \in Senders => ~SomeBefore(Outer[s], n, m))
      BY <3>2, <3>3, BeforeOccurs
    <3>. QED BY <3>1, <3>4 DEF SomeBefore
  <2>. QED BY <1>0, <1>3, <2>2, <2>3, DeliveringStep
<1>. QED BY <1>0, <1>2, <1>3, OrderAfter

-----------------------------------------------------------------------------
(* The inductive invariant.                                                 *)

(* It holds at first: nobody is subscribed and nobody calls.                *)
LEMMA InitInvariant == Init => IInv
<1>. SUFFICES ASSUME Init PROVE IInv
  OBVIOUS
<1>0. /\ sender = [s \in Senders |-> [subscribers |-> << >>,
                                      nextSubscriptionToken |-> 1,
                                      minLevel |-> LevelMax, owned |-> TRUE]]
      /\ mutex = [s \in Senders |-> NoThread]
      /\ stack = [t \in Threads |-> << >>]
      /\ log = [sent |-> 0, missed |-> {},
                received |-> [s \in Senders |-> [k \in Tokens |-> << >>]]]
      /\ LevelMax \in Nat /\ MaxMessages \in Nat
  BY DiagnosticsAssumption DEF Init
<1>1. TypeOK
  <2>1. << >> \in Maps
    <3>1. << >> \in [{} -> Subscriptions] /\ {} \in SUBSET Tokens
      OBVIOUS
    <3>. QED BY <3>1, MapTypes
  <2>2. sender \in [Senders -> Impls]
    <3>. DEFINE none == << >>
                impl == [subscribers |-> none, nextSubscriptionToken |-> 1,
                         minLevel |-> LevelMax, owned |-> TRUE]
    <3>1. none \in Maps /\ LevelMax \in 0 .. LevelMax
      BY <1>0, <2>1
    <3>. HIDE DEF none
    <3>2. impl \in Impls
      BY <3>1 DEF Impls, Maps
    <3>3. sender = [s \in Senders |-> impl]
      BY <1>0 DEF none
    <3>. HIDE DEF impl
    <3>. QED BY <3>2, <3>3
  <2>3. log \in Logs
    BY <1>0 DEF Logs
  <2>4. mutex \in [Senders -> Threads \cup {NoThread}]
    BY <1>0
  <2>5. stack \in [Threads -> Seq(Frames)]
    BY <1>0
  <2>. QED BY <2>2, <2>3, <2>4, <2>5 DEF TypeOK
<1>2. /\ \A t \in Threads : stack[t] = << >> /\ DOMAIN stack[t] = {}
      /\ \A s \in Senders : /\ Subscribed(s) = {} /\ mutex[s] = NoThread
                            /\ sender[s].minLevel = LevelMax
      /\ log.missed = {} /\ log.sent = 0
      /\ \A s \in Senders, k \in Tokens : log.received[s][k] = << >>
  BY <1>0 DEF Subscribed
<1>3. Subscribers /\ Calls /\ Mutexes /\ Dues
  BY <1>2 DEF Subscribers, Calls, Mutexes, IteratorsStayValid, Dues,
  MissedOnlyWhileRecomputing
<1>4. MinLevels
  <2>1. ASSUME NEW s \in Senders PROVE Least(s, {})
    BY <1>0, <1>2, LeastMeans
  <2>. QED BY <1>2, <2>1, MinLevelsMeans DEF At
<1>5. \A s \in Senders : \A n : ~Occurs(s, n)
  BY <1>2 DEF Occurs
<1>6. Published /\ Visits
  BY <1>2, <1>5 DEF Published, Visits
<1>7. Order
  <2>1. \A m : m \notin 1 .. log.sent
    BY <1>2
  <2>. QED BY <1>2, <2>1 DEF Order, SameOrder
<1>. QED BY <1>1, <1>3, <1>4, <1>6, <1>7 DEF IInv

(* Every step keeps it.                                                     *)
LEMMA StepInvariant == IInv /\ [Next]_vars => IInv'
<1>. SUFFICES ASSUME IInv, [Next]_vars PROVE IInv'
  OBVIOUS
<1>1. /\ TypeOK /\ Subscribers /\ Calls /\ Mutexes
      /\ MinLevels /\ Dues /\ Published /\ Visits /\ Order
  BY DEF IInv
<1>2. TypeOK' /\ SubscribersStep /\ CallsStep
  BY <1>1, Steps
<1>3. Subscribers' /\ Calls'
  BY <1>1, <1>2, SubscribersStay, CallsStay
<1>4. Mutexes' /\ MinLevels' /\ Dues'
  BY <1>1, MutexesStay, MinLevelsStay, DuesStay
<1>5. Published' /\ Visits' /\ Order'
  BY <1>1, PublishedStay, VisitsStay, OrderStay
<1>. QED BY <1>2, <1>3, <1>4, <1>5 DEF IInv

(* It holds in every state.                                                 *)
LEMMA Invariance == Spec => []IInv
BY InitInvariant, StepInvariant, PTL DEF Spec

-----------------------------------------------------------------------------
(* Senders, mutexes, calls and what was received are well typed.            *)
THEOREM TypeCorrect == Spec => []TypeOK
<1>1. IInv => TypeOK
  BY DEF IInv
<1>. QED BY <1>1, Invariance, PTL

(* GetMinLevel gives the least level of the subscriptions, except while an  *)
(* unsubscribe delegate computes it anew.                                   *)
THEOREM MinimumIsRight == Spec => []MinLevelIsLeast
<1>1. IInv => MinLevelIsLeast
  BY DEF IInv, MinLevels
<1>. QED BY <1>1, Invariance, PTL

(* Whoever is subscribed while a message is published is called, unless the *)
(* call read minLevel while it was being computed.                          *)
THEOREM NobodyIsMissed == Spec => []MissedOnlyWhileRecomputing
<1>1. IInv => MissedOnlyWhileRecomputing
  BY DEF IInv, Dues
<1>. QED BY <1>1, Invariance, PTL

(* A loop over the subscribers has the mutex, and what it has yet to visit  *)
(* is not erased.                                                           *)
THEOREM IteratorsAreValid == Spec => []IteratorsStayValid
<1>1. IInv => IteratorsStayValid
  BY DEF IInv, Mutexes
<1>. QED BY <1>1, Invariance, PTL

(* Subscribers of a sender and of the one it is chained to receive messages *)
(* in one order.                                                            *)
THEOREM MessagesKeepOrder == Spec => []SameOrder
<1>1. IInv => SameOrder
  BY DEF IInv, Order
<1>. QED BY <1>1, Invariance, PTL

(* A set of numbers up to a bound has a greatest one.                       *)
LEMMA Greatest ==
  ASSUME NEW n \in Nat, NEW S \in SUBSET (0 .. n), S # {}
  PROVE  \E x \in S : \A y \in S : y <= x
<1>. DEFINE T == {n - x : x \in S}
<1>1. T \subseteq Nat /\ T # {}
  <2>1. PICK x \in S : TRUE
    OBVIOUS
  <2>2. n - x \in T
    BY <2>1
  <2>. QED BY <2>2
<1>2. PICK d \in T : \A e \in T : ~(<<e, d>> \in OpToRel(<, Nat))
  BY <1>1, NatLessThanWellFounded, WFMin
<1>3. \A e \in T : ~(e < d)
  BY <1>1, <1>2 DEF OpToRel
<1>4. PICK x \in S : d = n - x
  OBVIOUS
<1>5. ASSUME NEW y \in S PROVE y <= x
  <2>1. ~(n - y < d)
    BY <1>3
  <2>. QED BY <1>4, <2>1
<1>. QED BY <1>5

(* Among the threads in a call, one whose innermost sender is furthest      *)
(* along the chains can go on: who has the mutex it waits for is further.   *)
THEOREM NobodyWaitsInACircle == Spec => []NoCircularWait
<1>1. ASSUME IInv PROVE NoCircularWait
  <2>0. TypeOK /\ Calls /\ Mutexes
    BY <1>1 DEF IInv
  <2>1. ASSUME NEW u \in Threads, stack[u] # << >> PROVE
          \E t \in Threads :
            /\ stack[t] # << >>
            /\ At(t, {"lock"}) => mutex[Top(t).sender] = NoThread
    <3>. DEFINE Waiting == {t \in Threads : stack[t] # << >>}
                R == {Rank[Top(t).sender] : t \in Waiting}
                n == Cardinality(Senders)
    <3>1. \A t \in Waiting : Top(t).sender \in Senders /\ Top(t) \in Frames
      BY <2>0, FrameTypes, FrameFields
    <3>2. R \in SUBSET (0 .. n) /\ n \in Nat /\ R # {}
      BY <2>1, <3>1, RankGrows
    <3>. HIDE DEF n
    <3>3. PICK x \in R : \A y \in R : y <= x
      BY <3>2, Greatest
    <3>4. PICK t \in Waiting : x = Rank[Top(t).sender]
      BY <3>3
    <3>. DEFINE s == Top(t).sender
    <3>5. ASSUME At(t, {"lock"}), mutex[s] # NoThread
          PROVE  \E w \in Waiting : ~At(w, {"lock"})
      <4>1. PICK w \in Threads : w = mutex[s]
        BY <2>0, <3>1, <3>5 DEF TypeOK
      <4>2. PICK i : IsAt(w, i, s)
        BY <2>0, <3>1, <3>5, <4>1, MutexesMeans
      <4>3. i \in DOMAIN stack[w] /\ Looping(stack[w][i]) /\ stack[w][i].sender = s
        BY <4>2 DEF IsAt
      <4>4. w \in Waiting /\ 1 \in DOMAIN stack[w] /\ i \in Nat /\ i >= 1
        BY <2>0, <4>3, FrameTypes
      <4>5. CASE i = 1
        BY <4>3, <4>4, <4>5 DEF At, Top, Looping
      <4>6. CASE i # 1
        <5>1. Rank[s] < Rank[Top(w).sender]
          BY <2>0, <4>3, <4>4, <4>6 DEF Calls, Top
        <5>2. Rank[Top(w).sender] <= Rank[s]
          BY <3>3, <3>4, <4>4
        <5>3. Rank[s] \in Nat /\ Rank[Top(w).sender] \in Nat
          BY <3>1, <4>4, RankGrows
        <5>. QED BY <5>1, <5>2, <5>3
      <4>. QED BY <4>5, <4>6
    <3>. QED BY <3>4, <3>5
  <2>. QED BY <2>1 DEF NoCircularWait
<1>. QED BY <1>1, Invariance, PTL
=============================================================================
