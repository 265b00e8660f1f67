-------------------------- MODULE DiagnosticsSender --------------------------
(***************************************************************************)
(* DiagnosticsSender (src/DiagnosticsSender.cpp): publishers and the       *)
(* functions subscribed to them, called with the sender's mutex held.  A   *)
(* sender can be subscribed to another one (Chain), so that one message    *)
(* takes the mutexes of several senders, one inside the other.             *)
(*                                                                         *)
(* minLevel is read without the mutex: by GetMinLevel, and by the test     *)
(* with which a message nobody wants is dropped before it is formatted or  *)
(* published.  An action is one stretch of code between two points where   *)
(* another thread can get in: a read of minLevel outside the mutex, taking *)
(* and dropping the mutex, a call of a subscriber, and, because minLevel   *)
(* can be read meanwhile, each pass of the loop that computes it anew.     *)
(*                                                                         *)
(* What a message says, its contexts included, is left out: a message is   *)
(* its number in the order published.                                      *)
(***************************************************************************)
EXTENDS Integers, Sequences, FiniteSets

CONSTANTS
  Senders,          \* DiagnosticsSender objects
  Threads,          \* threads that use them
  NoThread,         \* what a mutex holds while it is free
  Listener,         \* a subscriber of the application's
  NoSender,         \* what Outer gives for a sender that is not chained
  Outer,            \* the sender whose Chain() may be subscribed to each one
  Levels,           \* levels of messages and subscriptions
  LevelMax,         \* numeric_limits<size_t>::max()
  MaxSubscriptions, \* bound: subscriptions made to each sender
  MaxMessages       \* bound: messages published

(* Chains never lead back to where they started: the mutex is not           *)
(* recursive, so a message that came back to its sender would wait for the *)
(* thread it is on.                                                         *)
ASSUME DiagnosticsAssumption ==
  /\ NoThread \notin Threads
  /\ Listener \notin Senders /\ NoSender \notin Senders
  /\ Outer \in [Senders -> Senders \cup {NoSender}]
  /\ IsFiniteSet(Senders)
  /\ \E rank \in [Senders -> 0 .. Cardinality(Senders)] :
       \A s \in Senders : Outer[s] \in Senders => rank[s] < rank[Outer[s]]
  /\ LevelMax \in Nat /\ Levels \subseteq 0 .. LevelMax
  /\ MaxSubscriptions \in [Senders -> Nat] /\ MaxMessages \in Nat

VARIABLES
  sender,  \* each sender's Impl, and whether its owner still has it
  mutex,   \* the thread that holds each sender's mutex
  stack,   \* the calls each thread is in, the innermost one first
  log      \* history: messages published, received and missed

vars == <<sender, mutex, stack, log>>

Tokens == UNION {1 .. MaxSubscriptions[s] : s \in Senders}

Subscriptions == [delegate : Senders \cup {Listener}, minLevel : Levels]

(* A call in progress.  `left` is what its loop over the subscribers has    *)
(* not visited, `due` who was subscribed when the call began and wanted the *)
(* message but has not been called, and `blind` whether the call read       *)
(* minLevel while it was being computed.                                    *)
Frames ==
  [sender : Senders, pc : {"format", "test", "lock", "deliver", "recompute"},
   level : Levels, message : 0 .. MaxMessages,
   left : SUBSET Tokens, due : SUBSET Tokens, blind : BOOLEAN]

Init ==
  /\ sender = [s \in Senders |-> [subscribers |-> << >>,
                                  nextSubscriptionToken |-> 1,
                                  minLevel |-> LevelMax, owned |-> TRUE]]
  /\ mutex = [s \in Senders |-> NoThread]
  /\ stack = [t \in Threads |-> << >>]
  /\ log = [sent |-> 0, missed |-> {},
            received |-> [s \in Senders |-> [k \in Tokens |-> << >>]]]

-----------------------------------------------------------------------------
(* Operators on the parts of the state.                                    *)

Subscribed(s)  == DOMAIN sender[s].subscribers
LevelOf(s, k)  == sender[s].subscribers[k].minLevel
Wanting(s, l)  == {k \in Subscribed(s) : LevelOf(s, k) <= l}

ChainedNow(s) ==
  \E k \in Subscribed(s) : sender[s].subscribers[k].delegate \in Senders

Top(t) == stack[t][1]
At(t, pcs) == stack[t] # << >> /\ Top(t).pc \in pcs

(* A loop over the subscribers visits them in the order of their tokens.    *)
(* What the code would do on reaching an erased one is undefined;           *)
(* IteratorsStayValid says that this does not happen.                       *)
Reaches(t, k) ==
  /\ k \in Top(t).left /\ \A j \in Top(t).left : k <= j
  /\ k \in Subscribed(Top(t).sender)

Enter(t, frame) == stack' = [stack EXCEPT ![t] = <<frame>> \o @]
Advance(t, frame) == stack' = [stack EXCEPT ![t][1] = frame]
Leave(t) == stack' = [stack EXCEPT ![t] = Tail(@)]

(* The owner has one reference to Impl, and every call made through a       *)
(* weak_ptr has one while it lasts.                                         *)
Alive(s) ==
  \/ sender[s].owned
  \/ \E t \in Threads : \E i \in DOMAIN stack[t] : stack[t][i].sender = s

Recomputing(s) == \E t \in Threads : At(t, {"recompute"}) /\ Top(t).sender = s

(* A call to a sender on behalf of message n, at its beginning.             *)
Call(s, pc, l, n) ==
  [sender |-> s, pc |-> pc, level |-> l, message |-> n,
   left |-> {}, due |-> Wanting(s, l), blind |-> FALSE]

(* What is left undone when a call to publish returns.                      *)
Missed(f) ==
  {[sender |-> f.sender, token |-> k, blind |-> f.blind] :
     k \in f.due \cap Subscribed(f.sender)}

-----------------------------------------------------------------------------
(* Subscriptions.                                                           *)

(* Faulty variant: minLevel is not lowered.                                 *)
NotLowered(level, other) == level

Lower(level, other) == IF other < level THEN other ELSE level

(* SubscribeToDiagnostics, all of it under the mutex.  The delegate is the  *)
(* application's, or what Chain() of the outer sender returned, which the   *)
(* application subscribes once.                                             *)
Subscribe(t, s) ==
  LET token == sender[s].nextSubscriptionToken IN
  /\ stack[t] = << >> /\ sender[s].owned
  /\ mutex[s] = NoThread
  /\ token <= MaxSubscriptions[s]
  /\ \E delegate \in {Listener, Outer[s]} \ {NoSender}, level \in Levels :
       /\ delegate \in Senders => ~ChainedNow(s)
       /\ sender' = [sender EXCEPT
            ![s].subscribers = [k \in DOMAIN @ \cup {token} |->
                                  IF k = token
                                  THEN [delegate |-> delegate, minLevel |-> level]
                                  ELSE @[k]],
            ![s].nextSubscriptionToken = token + 1,
            ![s].minLevel = Lower(@, level)]
  /\ UNCHANGED <<mutex, stack, log>>

(* Faulty variant: the unsubscribe delegate does not wait for the mutex.    *)
AlwaysFree(s) == TRUE

Free(s) == mutex[s] = NoThread

(* Faulty variant: minLevel stays when the last subscriber at it leaves.    *)
NeverLeast(s, k) == FALSE

WasLeast(s, k) == LevelOf(s, k) = sender[s].minLevel

Without(subscribers, k) == [j \in DOMAIN subscribers \ {k} |-> subscribers[j]]

(* The unsubscribe delegate, on a subscription that minLevel does not       *)
(* depend on.  It does nothing when the subscription or Impl is gone.       *)
Unsubscribe(t, s, k) ==
  /\ stack[t] = << >> /\ Alive(s)
  /\ Free(s)
  /\ k \in Subscribed(s) /\ ~WasLeast(s, k)
  /\ sender' = [sender EXCEPT ![s].subscribers = Without(@, k)]
  /\ UNCHANGED <<mutex, stack, log>>

(* On one that it does depend on: minLevel goes to its maximum, and then    *)
(* down again with every subscriber visited.                                *)
UnsubscribeLeast(t, s, k) ==
  /\ stack[t] = << >> /\ Alive(s)
  /\ Free(s)
  /\ k \in Subscribed(s) /\ WasLeast(s, k)
  /\ sender' = [sender EXCEPT ![s].subscribers = Without(@, k),
                              ![s].minLevel = LevelMax]
  /\ mutex' = [mutex EXCEPT ![s] = t]
  /\ Enter(t, [Call(s, "recompute", LevelOf(s, k), 0) EXCEPT
                 !.left = Subscribed(s) \ {k}, !.due = {}])
  /\ UNCHANGED log

Recompute(t) ==
  /\ At(t, {"recompute"})
  /\ \E k \in Top(t).left :
       /\ Reaches(t, k)
       /\ sender' = [sender EXCEPT
            ![Top(t).sender].minLevel = Lower(@, LevelOf(Top(t).sender, k))]
       /\ Advance(t, [Top(t) EXCEPT !.left = @ \ {k}])
  /\ UNCHANGED <<mutex, log>>

-----------------------------------------------------------------------------
(* Publishing.                                                              *)

(* SendDiagnosticInformationString begins with the test of minLevel,        *)
(* SendDiagnosticInformationFormatted makes the same test before it formats *)
(* the message and calls the former.                                        *)
Publish(t, s) ==
  /\ stack[t] = << >> /\ sender[s].owned
  /\ log.sent < MaxMessages
  /\ \E level \in Levels, pc \in {"format", "test"} :
       Enter(t, Call(s, pc, level, log.sent + 1))
  /\ log' = [log EXCEPT !.sent = @ + 1]
  /\ UNCHANGED <<sender, mutex>>

Return(t, f) ==
  /\ Leave(t)
  /\ log' = [log EXCEPT !.missed = @ \cup Missed(f)]

(* The mutex is not held: minLevel may be changing.                         *)
Test(t) ==
  /\ At(t, {"format", "test"})
  /\ LET f == [Top(t) EXCEPT !.blind = @ \/ Recomputing(Top(t).sender)] IN
     IF f.level < sender[f.sender].minLevel
     THEN Return(t, f)
     ELSE /\ Advance(t, [f EXCEPT !.pc = IF @ = "format" THEN "test" ELSE "lock"])
          /\ UNCHANGED log
  /\ UNCHANGED <<sender, mutex>>

(* Faulty variant: the subscribers are visited without holding the mutex.   *)
NotTaken(s, t) == mutex

Taken(s, t) == [mutex EXCEPT ![s] = t]

Lock(t) ==
  /\ At(t, {"lock"})
  /\ LET s == Top(t).sender IN
     /\ mutex[s] = NoThread
     /\ mutex' = Taken(s, t)
     /\ Advance(t, [Top(t) EXCEPT !.pc = "deliver", !.left = Subscribed(s)])
  /\ UNCHANGED <<sender, log>>

(* One pass of the loop over the subscribers.                               *)
Visiting(t, k) ==
  /\ At(t, {"deliver"})
  /\ Reaches(t, k)
  /\ UNCHANGED <<sender, mutex>>

Visited(f, k) == [f EXCEPT !.left = @ \ {k}]
Served(f, k)  == [f EXCEPT !.left = @ \ {k}, !.due = @ \ {k}]

Wanted(t, k) == Top(t).level >= LevelOf(Top(t).sender, k)

Skip(t) ==
  \E k \in Top(t).left :
    /\ Visiting(t, k) /\ ~Wanted(t, k)
    /\ Advance(t, Visited(Top(t), k))
    /\ UNCHANGED log

Deliver(t) ==
  \E k \in Top(t).left :
    LET f == Top(t) IN
    /\ Visiting(t, k) /\ Wanted(t, k)
    /\ sender[f.sender].subscribers[k].delegate = Listener
    /\ Advance(t, Served(f, k))
    /\ log' = [log EXCEPT !.received[f.sender][k] = Append(@, f.message)]

(* What Chain() returned: the outer sender publishes the message, unless it *)
(* is gone.                                                                 *)
DeliverChained(t) ==
  \E k \in Top(t).left :
    LET f == Top(t)
        r == sender[f.sender].subscribers[k].delegate IN
    /\ Visiting(t, k) /\ Wanted(t, k)
    /\ r \in Senders
    /\ stack' = [stack EXCEPT ![t] =
         (IF Alive(r) THEN <<Call(r, "test", f.level, f.message)>> ELSE << >>)
         \o <<Served(f, k)>> \o Tail(@)]
    /\ UNCHANGED log

(* Faulty variant: the mutex is kept.                                       *)
NotDropped(s) == mutex

Dropped(s) == [mutex EXCEPT ![s] = NoThread]

(* End of the loop: the mutex is released and the call returns.             *)
Unlock(t) ==
  /\ At(t, {"deliver", "recompute"})
  /\ Top(t).left = {}
  /\ mutex' = Dropped(Top(t).sender)
  /\ Return(t, Top(t))
  /\ UNCHANGED sender

(* The owner destroys the sender.  It must not be inside one of its methods *)
(* then; calls through Chain and unsubscribe delegates may be.              *)
Destroy(t, s) ==
  /\ stack[t] = << >> /\ sender[s].owned
  /\ \A u \in Threads :
       stack[u] # << >> =>
         LET outermost == stack[u][Len(stack[u])] IN
         outermost.sender = s => outermost.pc = "recompute"
  /\ sender' = [sender EXCEPT ![s].owned = FALSE]
  /\ UNCHANGED <<mutex, stack, log>>

-----------------------------------------------------------------------------
Begin(t) ==
  \E s \in Senders :
    \/ Subscribe(t, s)
    \/ \E k \in Tokens : Unsubscribe(t, s, k) \/ UnsubscribeLeast(t, s, k)
    \/ Publish(t, s)
    \/ Destroy(t, s)

Continue(t) ==
  /\ stack[t] # << >>
  /\ \/ Recompute(t) \/ Test(t) \/ Lock(t)
     \/ Skip(t) \/ Deliver(t) \/ DeliverChained(t)
     \/ Unlock(t)

Next == \E t \in Threads : Begin(t) \/ Continue(t)

Spec == Init /\ [][Next]_vars

-----------------------------------------------------------------------------
(* Properties.                                                              *)

IsLeast(level, levels) == level \in levels /\ \A l \in levels : level <= l

(* minLevel is the least level of all the current subscriptions, as         *)
(* GetMinLevel promises, except while an unsubscribe delegate computes it   *)
(* anew: Subscribe, the delegates of several threads and the early test of  *)
(* publishers never leave it too high or too low.                           *)
MinLevelIsLeast ==
  \A s \in Senders :
    Recomputing(s) \/
      IsLeast(sender[s].minLevel,
              {LevelMax} \cup {LevelOf(s, k) : k \in Subscribed(s)})

(* Who is subscribed from before a call to publish, through a chain or not, *)
(* until it returns, at a level the message reaches, is called, whatever    *)
(* others subscribe, unsubscribe and publish meanwhile; unless the call     *)
(* read minLevel while it was being computed.                               *)
MissedOnlyWhileRecomputing == \A m \in log.missed : m.blind

(* What the header says: the delegate is called "to deliver any diagnostic  *)
(* messages published while the subscription lasts".                        *)
DeliveredWhileSubscribed == log.missed = {}

(* A loop over the subscribers keeps the mutex until it ends, also while it *)
(* calls other senders, and nobody erases what it has yet to visit: once an *)
(* unsubscribe delegate has returned its subscriber is not called again,    *)
(* neither directly nor through a chain.                                    *)
IteratorsStayValid ==
  \A t \in Threads : \A i \in DOMAIN stack[t] :
    LET f == stack[t][i] IN
    f.pc \in {"deliver", "recompute"} =>
      mutex[f.sender] = t /\ f.left \subseteq Subscribed(f.sender)

Before(q, m, n) == \E i, j \in DOMAIN q : i < j /\ q[i] = m /\ q[j] = n

(* Two subscribers of one sender, or one of a sender and one of the sender  *)
(* it is chained to, are given the messages both receive in the same order, *)
(* although several threads publish.                                        *)
SameOrder ==
  \A s \in Senders : \A r \in {s, Outer[s]} \cap Senders :
    \A j, k \in Tokens : \A m, n \in 1 .. log.sent :
      m # n => ~ /\ Before(log.received[s][j], m, n)
                 /\ Before(log.received[r][k], n, m)

(* While calls are in progress one of them can go on: no threads wait for   *)
(* one another's mutexes, because these are taken along the chains, which   *)
(* do not lead back, and no call returns with one.  Every call is a bounded *)
(* number of steps, so it returns if the threads that wait are let in.      *)
NoCircularWait ==
  (\E t \in Threads : stack[t] # << >>) =>
    \E t \in Threads :
      /\ stack[t] # << >>
      /\ At(t, {"lock"}) => mutex[Top(t).sender] = NoThread
=============================================================================
