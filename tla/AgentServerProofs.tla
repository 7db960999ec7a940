------------------------- MODULE AgentServerProofs -------------------------
(***************************************************************************)
(* The switch of the agent server, however many calls and servers there    *)
(* are, whichever methods are called and whether steps fail or not: the    *)
(* endpoint file is never a stale claim, and where methods are called in   *)
(* turn the service holds what listens and the kill switch is final.       *)
(***************************************************************************)
EXTENDS AgentServer, TLAPS

NoneListens == \A s \in Server : stage[s] # "listening"
Off(v) == ~v.held /\ ~v.enabled

\* What comes after a step of a method, and how many are left: true of every program and
\* so of the rest of one.
InOrder(s, n, o) ==
    LET left == Len(s) - n
        next(h) == left > 0 /\ s[n + 1] = h
    IN  /\ s[n] = "get" => next("set")
        /\ s[n] = "set" => (left = 0 \/ next("publish") \/ next("take")) /\ o # "quit"
        /\ s[n] = "publish" => next("start") /\ o = "enable"
        /\ s[n] \in {"start", "unpublish"} => left = 0 /\ o = "enable"
        /\ s[n] = "capture" => next("close")
        /\ s[n] = "take" => next("close")
        /\ s[n] = "close" => /\ next("remove")
                             /\ left = 1 \/ (left > 1 /\ s[n + 2] = "get")
                             /\ o = "disconnect" => left \in {1, 6}
        /\ s[n] = "remove" => left = 0 \/ next("get")
        /\ o = "disconnect" => (left = 3 <=> s[n] = "set")
Orderly(s, o) == \A n \in 1..Len(s) : InOrder(s, n, o)

CallShape ==
    /\ op \in [Caller -> AllOps \cup {"none", "returned"}] /\ local \in [Caller -> Locals]
    /\ todo \in [Caller -> Seq(StepNames)]
    /\ \A c \in Caller : Len(todo[c]) <= 8
    /\ \A c \in Caller : Running(c) => op[c] \in AllOps /\ Orderly(todo[c], op[c])
    /\ final \in BOOLEAN /\ overlapped \in BOOLEAN /\ quitting \in BOOLEAN

ServerShape ==
    /\ settings \in Settings /\ pointer \in Server \cup {NoServer}
    /\ stage \in [Server -> {"unmade", "made", "listening", "closing", "closed"}]
    /\ mutex \in [Server -> Caller \cup {NoCaller}] /\ endpoint \in Server \cup {NoServer}

\* A server is started by the call that made it and by no other, and who removes the
\* endpoint file holds the mutex of a server that is closing.
Owned ==
    /\ \A c \in Caller : At(c, "start") =>
          local[c].mine \in Server /\ stage[local[c].mine] \in {"made", "closed"}
    /\ \A c, d \in Caller :
          At(c, "start") /\ At(d, "start") /\ c # d => local[c].mine # local[d].mine
    /\ \A c \in Caller : At(c, "remove") => local[c].mine \in Server /\ mutex[local[c].mine] = c
    /\ \A s \in Server : mutex[s] # NoCaller => At(mutex[s], "remove") /\ local[mutex[s]].mine = s
    /\ \A s \in Server : stage[s] = "closing" => mutex[s] # NoCaller
    /\ ClaimIsTrue

\* While calls come in turn: what listens is in the file, and the service holds it or
\* the call under way is about to close it.
InTurn ==
    /\ \A c, d \in Caller : Running(c) /\ Running(d) => c = d
    /\ \A s \in Server : stage[s] = "listening" =>
          /\ endpoint = s
          /\ pointer = s \/ \E c \in Caller : At(c, "close") /\ local[c].mine = s
    /\ \A c \in Caller :
          /\ At(c, "start") => pointer = local[c].mine
          /\ At(c, "start") \/ At(c, "unpublish") \/ At(c, "remove") => NoneListens
          /\ At(c, "close") => pointer \in {NoServer, local[c].mine}

\* While calls come in turn: after the kill switch nothing is granted and nothing
\* listens, and what a call under way has read says so too.
Finality ==
    /\ final =>
        /\ Off(settings) /\ NoneListens
        /\ \A c \in Caller :
              Running(c) => ~Grants(op[c]) /\ (At(c, "set") => Off(local[c].copy))
    /\ \A c \in Caller :
          Running(c) /\ op[c] = "disconnect" /\ ~local[c].failed /\ Len(todo[c]) <= 3
             => Off(settings)

IInv == CallShape /\ ServerShape /\ Owned /\ (~overlapped => InTurn /\ Finality)

-----------------------------------------------------------------------------
(* The steps a call has left.                                              *)

\* Every program is orderly, and begins with no step that needs what another got.
LEMMA Programs ==
    ASSUME NEW o \in AllOps
    PROVE  /\ Program(o) \in Seq(StepNames) /\ Len(Program(o)) <= 8
           /\ Program(o) # <<>> /\ Orderly(Program(o), o)
           /\ Head(Program(o)) \in {"get", "capture", "take"}
           /\ o = "disconnect" => ~(Len(Program(o)) <= 3)
  <1>1. CASE o = "enable"
    <2>1. Program(o) = <<"get", "set", "publish", "start">>
      BY <1>1 DEF Program
    <2>2. ASSUME NEW s, Len(s) = 4, s[1] = "get", s[2] = "set", s[3] = "publish", s[4] = "start"
          PROVE  Orderly(s, o)
      BY <1>1, <2>2 DEF Orderly, InOrder
    <2>3. /\ Program(o) \in Seq(StepNames) /\ Len(Program(o)) = 4 /\ Program(o) # <<>>
          /\ Len(Program(o)) <= 8
          /\ Head(Program(o)) = "get"
      BY <2>1 DEF StepNames
    <2>4. /\ Program(o)[1] = "get" /\ Program(o)[2] = "set" /\ Program(o)[3] = "publish"
          /\ Program(o)[4] = "start"
      BY <2>1
    <2>5. Orderly(Program(o), o)
      BY <2>2, <2>3, <2>4
    <2> QED
      BY <1>1, <2>3, <2>5
  <1>2. CASE o = "disable"
    <2>1. Program(o) = <<"get", "set", "take", "close", "remove">>
      BY <1>2 DEF Program
    <2>2. ASSUME NEW s, Len(s) = 5, s[1] = "get", s[2] = "set", s[3] = "take", s[4] = "close",
                 s[5] = "remove"
          PROVE  Orderly(s, o)
      BY <1>2, <2>2 DEF Orderly, InOrder
    <2>3. /\ Program(o) \in Seq(StepNames) /\ Len(Program(o)) = 5 /\ Program(o) # <<>>
          /\ Len(Program(o)) <= 8
          /\ Head(Program(o)) = "get"
      BY <2>1 DEF StepNames
    <2>4. /\ Program(o)[1] = "get" /\ Program(o)[2] = "set" /\ Program(o)[3] = "take"
          /\ Program(o)[4] = "close" /\ Program(o)[5] = "remove"
      BY <2>1
    <2>5. Orderly(Program(o), o)
      BY <2>2, <2>3, <2>4
    <2> QED
      BY <1>2, <2>3, <2>5
  <1>3. CASE o = "disconnect"
    <2>1. Program(o) = <<"capture", "close", "remove", "get", "set", "take", "close", "remove">>
      BY <1>3 DEF Program
    <2>2. ASSUME NEW s, Len(s) = 8, s[1] = "capture", s[2] = "close", s[3] = "remove", s[4] = "get",
                 s[5] = "set", s[6] = "take", s[7] = "close", s[8] = "remove"
          PROVE  Orderly(s, o)
      BY <1>3, <2>2 DEF Orderly, InOrder
    <2>3. /\ Program(o) \in Seq(StepNames) /\ Len(Program(o)) = 8 /\ Program(o) # <<>>
          /\ Len(Program(o)) <= 8 /\ ~(Len(Program(o)) <= 3)
          /\ Head(Program(o)) = "capture"
      BY <2>1 DEF StepNames
    <2>4. /\ Program(o)[1] = "capture" /\ Program(o)[2] = "close" /\ Program(o)[3] = "remove"
          /\ Program(o)[4] = "get" /\ Program(o)[5] = "set" /\ Program(o)[6] = "take"
          /\ Program(o)[7] = "close" /\ Program(o)[8] = "remove"
      BY <2>1
    <2>5. Orderly(Program(o), o)
      BY <2>2, <2>3, <2>4
    <2> QED
      BY <1>3, <2>3, <2>5
  <1>4. CASE o \in {"capability", "confirm"}
    <2>1. Program(o) = <<"get", "set">>
      BY <1>4 DEF Program
    <2>2. ASSUME NEW s, Len(s) = 2, s[1] = "get", s[2] = "set"
          PROVE  Orderly(s, o)
      BY <1>4, <2>2 DEF Orderly, InOrder
    <2>3. /\ Program(o) \in Seq(StepNames) /\ Len(Program(o)) = 2 /\ Program(o) # <<>>
          /\ Len(Program(o)) <= 8
          /\ Head(Program(o)) = "get"
      BY <2>1 DEF StepNames
    <2>4. /\ Program(o)[1] = "get" /\ Program(o)[2] = "set"
      BY <2>1
    <2>5. Orderly(Program(o), o)
      BY <2>2, <2>3, <2>4
    <2> QED
      BY <1>4, <2>3, <2>5
  <1>5. CASE o = "quit"
    <2>1. Program(o) = <<"take", "close", "remove">>
      BY <1>5 DEF Program
    <2>2. ASSUME NEW s, Len(s) = 3, s[1] = "take", s[2] = "close", s[3] = "remove"
          PROVE  Orderly(s, o)
      BY <1>5, <2>2 DEF Orderly, InOrder
    <2>3. /\ Program(o) \in Seq(StepNames) /\ Len(Program(o)) = 3 /\ Program(o) # <<>>
          /\ Len(Program(o)) <= 8
          /\ Head(Program(o)) = "take"
      BY <2>1 DEF StepNames
    <2>4. /\ Program(o)[1] = "take" /\ Program(o)[2] = "close" /\ Program(o)[3] = "remove"
      BY <2>1
    <2>5. Orderly(Program(o), o)
      BY <2>2, <2>3, <2>4
    <2> QED
      BY <1>5, <2>3, <2>5
  <1> QED
    BY <1>1, <1>2, <1>3, <1>4, <1>5 DEF AllOps

LEMMA Rest ==
    ASSUME NEW s \in Seq(StepNames), s # <<>>, NEW o, Orderly(s, o)
    PROVE  /\ Tail(s) \in Seq(StepNames) /\ Len(Tail(s)) = Len(s) - 1 /\ Orderly(Tail(s), o)
           /\ Len(s) \in Nat \ {0} /\ s[1] = Head(s) /\ (Tail(s) = <<>> <=> Len(s) = 1)
           /\ \A n \in 1..(Len(s) - 1) : Tail(s)[n] = s[n + 1]
           /\ Tail(s) # <<>> => Head(Tail(s)) = s[2]
  <1>1. /\ Tail(s) \in Seq(StepNames) /\ Len(s) \in Nat \ {0} /\ s[1] = Head(s)
        /\ Len(Tail(s)) = Len(s) - 1
        /\ \A n \in 1..(Len(s) - 1) : Tail(s)[n] = s[n + 1]
    OBVIOUS
  <1>2. Tail(s) = <<>> <=> Len(s) = 1
    BY <1>1
  <1>3. Tail(s) # <<>> => Head(Tail(s)) = s[2]
    BY <1>1, <1>2
  <1>4. ASSUME NEW n \in 1..Len(Tail(s))
        PROVE  /\ n + 1 \in 1..Len(s) /\ Tail(s)[n] = s[n + 1]
               /\ Len(Tail(s)) - n = Len(s) - (n + 1)
               /\ Len(s) - (n + 1) > 0 => Tail(s)[n + 1] = s[n + 2]
               /\ Len(s) - (n + 1) > 1 => Tail(s)[n + 2] = s[n + 3]
    BY <1>1
  <1>5. Orderly(Tail(s), o)
    <2> SUFFICES ASSUME NEW n \in 1..Len(Tail(s)) PROVE InOrder(Tail(s), n, o)
      BY DEF Orderly
    <2>1. PICK m : m = n + 1
      OBVIOUS
    <2>2. /\ InOrder(s, m, o) /\ Tail(s)[n] = s[m] /\ Len(Tail(s)) - n = Len(s) - m
          /\ Len(s) - m > 0 => Tail(s)[n + 1] = s[m + 1]
          /\ Len(s) - m > 1 => Tail(s)[n + 2] = s[m + 2]
          /\ Len(s) - m \in Int
      BY <1>1, <1>4, <2>1 DEF Orderly
    <2> QED
      BY <2>2 DEF InOrder
  <1> QED
    BY <1>1, <1>2, <1>3, <1>5

\* Where a call is, and where it goes next.
LEMMA Heads ==
    ASSUME CallShape, NEW c \in Caller, Running(c), NEW t, t = Tail(todo[c])
    PROVE  /\ t \in Seq(StepNames) /\ Len(t) <= 8 /\ (t # <<>> => Orderly(t, op[c]))
           /\ At(c, "get") => t # <<>> /\ Head(t) = "set"
           /\ At(c, "set") => /\ t = <<>> \/ Head(t) \in {"publish", "take"}
                              /\ op[c] # "quit" /\ (op[c] = "disconnect" => t # <<>>)
           /\ At(c, "publish") => t # <<>> /\ Head(t) = "start" /\ op[c] = "enable"
           /\ At(c, "start") \/ At(c, "unpublish") => t = <<>> /\ op[c] = "enable"
           /\ At(c, "capture") \/ At(c, "take") => t # <<>> /\ Head(t) = "close"
           /\ At(c, "close") =>
                /\ t # <<>> /\ Head(t) = "remove"
                /\ Tail(t) \in Seq(StepNames) /\ Len(Tail(t)) <= 8
                /\ Tail(t) # <<>> => Orderly(Tail(t), op[c]) /\ Head(Tail(t)) = "get"
                /\ op[c] = "disconnect" /\ Len(Tail(t)) <= 3 => Len(todo[c]) <= 3
           /\ At(c, "remove") => t = <<>> \/ Head(t) = "get"
           /\ op[c] = "disconnect" /\ t = <<>> => Len(todo[c]) <= 3
           /\ op[c] = "disconnect" /\ Len(t) <= 3 => Len(todo[c]) <= 3 \/ At(c, "set")
  <1> PICK s, o : s = todo[c] /\ o = op[c]
    OBVIOUS
  <1>1. s \in Seq(StepNames) /\ s # <<>> /\ Orderly(s, o) /\ Len(s) <= 8
    BY DEF CallShape, Running
  <1>2. /\ t \in Seq(StepNames) /\ Len(t) = Len(s) - 1 /\ Orderly(t, o)
        /\ Len(s) \in Nat \ {0} /\ s[1] = Head(s) /\ (t = <<>> <=> Len(s) = 1)
        /\ \A n \in 1..(Len(s) - 1) : t[n] = s[n + 1]
        /\ t # <<>> => Head(t) = s[2]
    BY <1>1, Rest
  <1>3. InOrder(s, 1, o)
    BY <1>1, <1>2 DEF Orderly
  <1>4. \A x : At(c, x) <=> s[1] = x
    BY <1>1, <1>2 DEF At, Running
  <1>5. /\ Len(s) - 1 > 0 <=> t # <<>>
        /\ Len(s) - 1 = 0 <=> t = <<>>
        /\ t # <<>> => Head(t) = s[1 + 1]
        /\ Len(s) - 1 > 1 => t[2] = s[1 + 2]
    BY <1>2
  <1>6. s[1] = "close" =>
           /\ t # <<>> /\ Head(t) = "remove"
           /\ Tail(t) \in Seq(StepNames) /\ Len(Tail(t)) = Len(s) - 2
           /\ Tail(t) # <<>> => Orderly(Tail(t), o) /\ Head(Tail(t)) = "get"
           /\ o = "disconnect" => Len(s) \in {2, 7}
    <2> SUFFICES ASSUME s[1] = "close"
                 PROVE  /\ t # <<>> /\ Head(t) = "remove"
                        /\ Tail(t) \in Seq(StepNames) /\ Len(Tail(t)) = Len(s) - 2
                        /\ Tail(t) # <<>> => Orderly(Tail(t), o) /\ Head(Tail(t)) = "get"
                        /\ o = "disconnect" => Len(s) \in {2, 7}
      OBVIOUS
    <2>1. /\ s[1 + 1] = "remove" /\ Len(s) - 1 > 0
          /\ Len(s) - 1 = 1 \/ (Len(s) - 1 > 1 /\ s[1 + 2] = "get")
          /\ o = "disconnect" => Len(s) - 1 \in {1, 6}
      BY <1>3 DEF InOrder
    <2>2. t # <<>> /\ Head(t) = "remove"
      BY <1>5, <2>1
    <2>3. /\ Tail(t) \in Seq(StepNames) /\ Len(Tail(t)) = Len(t) - 1 /\ Orderly(Tail(t), o)
          /\ Tail(t) = <<>> <=> Len(t) = 1
          /\ Tail(t) # <<>> => Head(Tail(t)) = t[2]
      BY <1>2, <2>2, Rest
    <2>4. Tail(t) # <<>> => t[2] = "get"
      BY <1>2, <1>5, <2>1, <2>3
    <2>5. Len(Tail(t)) = Len(s) - 2
      BY <1>2, <2>3
    <2>6. o = "disconnect" => Len(s) \in {2, 7}
      BY <1>2, <2>1
    <2> QED
      BY <2>2, <2>3, <2>4, <2>5, <2>6
  <1>7. /\ s[1] = "get" => t # <<>> /\ Head(t) = "set"
        /\ s[1] = "set" => (t = <<>> \/ Head(t) \in {"publish", "take"}) /\ o # "quit"
        /\ s[1] = "publish" => t # <<>> /\ Head(t) = "start" /\ o = "enable"
        /\ s[1] \in {"start", "unpublish"} => t = <<>> /\ o = "enable"
        /\ s[1] \in {"capture", "take"} => t # <<>> /\ Head(t) = "close"
        /\ s[1] = "remove" => t = <<>> \/ Head(t) = "get"
        /\ o = "disconnect" => (Len(s) = 4 <=> s[1] = "set")
    <2>1. /\ s[1] = "get" => t # <<>> /\ Head(t) = "set"
          /\ s[1] = "set" => (t = <<>> \/ Head(t) \in {"publish", "take"}) /\ o # "quit"
          /\ s[1] = "publish" => t # <<>> /\ Head(t) = "start" /\ o = "enable"
      BY <1>3, <1>5 DEF InOrder
    <2>2. /\ s[1] \in {"start", "unpublish"} => t = <<>> /\ o = "enable"
          /\ s[1] \in {"capture", "take"} => t # <<>> /\ Head(t) = "close"
          /\ s[1] = "remove" => t = <<>> \/ Head(t) = "get"
      BY <1>3, <1>5 DEF InOrder
    <2>3. o = "disconnect" => (Len(s) - 1 = 3 <=> s[1] = "set")
      BY <1>3 DEF InOrder
    <2> QED
      BY <1>2, <2>1, <2>2, <2>3
  <1>8. /\ Len(s) \in Nat \ {0} /\ Len(s) <= 8 /\ Len(t) = Len(s) - 1
        /\ t = <<>> => Len(s) = 1
        /\ At(c, "close") => s[1] = "close"
    BY <1>1, <1>2, <1>4
  \* What follows of the lengths, whatever they are of.
  <1>9. ASSUME NEW k \in Nat \ {0}, NEW j, k <= 8, j = k - 1
        PROVE  /\ j <= 8 /\ (j <= 3 => k <= 3 \/ k = 4)
               /\ k = 1 => k <= 3 /\ k # 4
               /\ \A l : l = k - 2 => l <= 8 /\ (k \in {2, 7} /\ l <= 3 => k <= 3)
    BY <1>9
  <1>10. /\ Len(t) <= 8 /\ (Len(t) <= 3 => Len(s) <= 3 \/ Len(s) = 4)
         /\ Len(s) = 1 => Len(s) <= 3 /\ Len(s) # 4
         /\ \A l : l = Len(s) - 2 => l <= 8 /\ (Len(s) \in {2, 7} /\ l <= 3 => Len(s) <= 3)
    BY <1>8, <1>9, Zenon
  <1>11. /\ At(c, "close") => /\ Len(Tail(t)) <= 8
                              /\ o = "disconnect" /\ Len(Tail(t)) <= 3 => Len(s) <= 3
         /\ o = "disconnect" => (Len(s) = 4 <=> At(c, "set"))
         /\ t = <<>> => Len(s) <= 3 /\ Len(s) # 4
    BY <1>4, <1>6, <1>7, <1>8, <1>10, Zenon
  <1>12. /\ At(c, "get") => t # <<>> /\ Head(t) = "set"
         /\ At(c, "set") => (t = <<>> \/ Head(t) \in {"publish", "take"}) /\ o # "quit"
         /\ At(c, "publish") => t # <<>> /\ Head(t) = "start" /\ o = "enable"
         /\ At(c, "start") \/ At(c, "unpublish") => t = <<>> /\ o = "enable"
         /\ At(c, "capture") \/ At(c, "take") => t # <<>> /\ Head(t) = "close"
         /\ At(c, "remove") => t = <<>> \/ Head(t) = "get"
    BY <1>4, <1>7
  <1> QED
    BY <1>2, <1>6, <1>8, <1>10, <1>11, <1>12, Zenon

\* A step of a call is its own: what is left to do, what it has read, and whether the
\* kill switch has now returned.
LEMMA Goes ==
    ASSUME CallShape, NEW c \in Caller, Running(c), NEW s \in Seq(StepNames), Len(s) <= 8,
           s # <<>> => Orderly(s, op[c]), NEW v \in Locals, GoOn(c, s, v)
    PROVE  /\ CallShape' /\ todo'[c] = s
           /\ s # <<>> => op'[c] = op[c] /\ local'[c] = v
           /\ \A d \in Caller : d # c =>
                 todo'[d] = todo[d] /\ op'[d] = op[d] /\ local'[d] = local[d]
           /\ overlapped' = overlapped
           /\ final' => final \/ (s = <<>> /\ op[c] = "disconnect" /\ ~v.failed)
  <1>1. /\ todo' = [todo EXCEPT ![c] = s]
        /\ local' = [local EXCEPT ![c] = IF s = <<>> THEN NoLocals ELSE v]
        /\ op' = [op EXCEPT ![c] = IF s = <<>> THEN "returned" ELSE op[c]]
        /\ overlapped' = overlapped /\ quitting' = quitting
    BY DEF GoOn
  <1>2. final' \in BOOLEAN /\ (final' => final \/ (s = <<>> /\ op[c] = "disconnect" /\ ~v.failed))
    BY DEF GoOn, CallShape
  <1>3. NoLocals \in Locals
    BY DEF NoLocals, Locals, Settings
  <1>4. /\ todo'[c] = s
        /\ local'[c] = (IF s = <<>> THEN NoLocals ELSE v)
        /\ op'[c] = (IF s = <<>> THEN "returned" ELSE op[c])
        /\ \A d \in Caller : d # c =>
              todo'[d] = todo[d] /\ op'[d] = op[d] /\ local'[d] = local[d]
    BY <1>1 DEF CallShape
  <1>5. /\ op' \in [Caller -> AllOps \cup {"none", "returned"}] /\ local' \in [Caller -> Locals]
        /\ todo' \in [Caller -> Seq(StepNames)]
    BY <1>1, <1>3 DEF CallShape
  <1>6. \A d \in Caller : Len(todo'[d]) <= 8 /\ (Running(d)' => op'[d] \in AllOps /\ Orderly(todo'[d], op'[d]))
    BY <1>4 DEF CallShape, Running
  <1>7. CallShape'
    BY <1>1, <1>2, <1>5, <1>6 DEF CallShape, Orderly, InOrder
  <1> QED
    BY <1>1, <1>2, <1>4, <1>7

-----------------------------------------------------------------------------
(* The steps, one by one.                                                  *)

\* What a step of a call leaves alone in the others.
Others(c) ==
    \A d \in Caller : d # c => todo'[d] = todo[d] /\ op'[d] = op[d] /\ local'[d] = local[d]

\* A call that neither starts nor removes, before or after, touches no server.
LEMMA CalmlyOwned ==
    ASSUME CallShape, ServerShape, Owned, NEW c \in Caller, Others(c),
           UNCHANGED <<stage, mutex, endpoint>>,
           ~At(c, "start"), ~At(c, "remove"), ~At(c, "start")', ~At(c, "remove")'
    PROVE  Owned'
  <1>1. \A d \in Caller : \A x : d # c =>
           (At(d, x)' <=> At(d, x)) /\ local'[d] = local[d]
    BY DEF Others, At, Running
  <1>2. \A d \in Caller : /\ At(d, "start")' => At(d, "start") /\ d # c /\ local'[d] = local[d]
                          /\ At(d, "remove")' => At(d, "remove") /\ d # c /\ local'[d] = local[d]
                          /\ At(d, "remove") => At(d, "remove")' /\ d # c /\ local'[d] = local[d]
    BY <1>1
  <1>3. \A s \in Server : mutex[s] # NoCaller => mutex[s] \in Caller
    BY DEF ServerShape
  <1> QED
    BY <1>2, <1>3 DEF Owned, ClaimIsTrue

\* Where calls come in turn the one under way is alone.
LEMMA Alone ==
    ASSUME InTurn, NEW c \in Caller, Running(c), Others(c)
    PROVE  \A d \in Caller : (Running(d) => d = c) /\ (Running(d)' => d = c)
                             /\ \A x : (At(d, x) => d = c) /\ (At(d, x)' => d = c)
  BY DEF InTurn, Others, Running, At

\* Such a step goes on with these steps and these locals.  What it does to the settings
\* and the pointer is what is asked of it here.
LEMMA CalmlyKept ==
    ASSUME IInv, NEW c \in Caller, Running(c), NEW s \in Seq(StepNames), Len(s) <= 8,
           s # <<>> => Orderly(s, op[c]), NEW v \in Locals, GoOn(c, s, v),
           UNCHANGED <<stage, mutex, endpoint>>, settings' \in Settings,
           pointer' \in Server \cup {NoServer},
           ~At(c, "start"), ~At(c, "remove"),
           s # <<>> => Head(s) \notin {"start", "remove", "unpublish"},
           ~overlapped =>
              /\ \A l \in Server : stage[l] = "listening" =>
                    pointer' = l \/ (s # <<>> /\ Head(s) = "close" /\ v.mine = l)
              /\ s # <<>> /\ Head(s) = "close" => pointer' \in {NoServer, v.mine}
              /\ final \/ (s = <<>> /\ op[c] = "disconnect" /\ ~v.failed) =>
                    /\ Off(settings') /\ NoneListens
                    /\ s # <<>> /\ Head(s) = "set" => Off(v.copy)
              /\ s # <<>> /\ op[c] = "disconnect" /\ ~v.failed /\ Len(s) <= 3 => Off(settings')
    PROVE  IInv'
  <1>1. /\ CallShape' /\ todo'[c] = s /\ Others(c) /\ overlapped' = overlapped
        /\ s # <<>> => op'[c] = op[c] /\ local'[c] = v
        /\ final' => final \/ (s = <<>> /\ op[c] = "disconnect" /\ ~v.failed)
    BY Goes DEF IInv, Others
  <1>2. /\ \A x : At(c, x)' <=> s # <<>> /\ Head(s) = x
        /\ Running(c)' <=> s # <<>>
    BY <1>1 DEF At, Running
  <1>3. ServerShape' /\ Owned'
    BY <1>1, <1>2, CalmlyOwned DEF IInv, ServerShape
  <1>4. ASSUME ~overlapped PROVE InTurn' /\ Finality'
    <2>1. InTurn /\ Finality
      BY <1>4 DEF IInv
    <2>2. \A d \in Caller : (Running(d) => d = c) /\ (Running(d)' => d = c)
                             /\ \A x : (At(d, x) => d = c) /\ (At(d, x)' => d = c)
      BY <1>1, <2>1, Alone
    <2>3. InTurn'
      <3>1. \A l \in Server : stage'[l] = "listening" =>
               endpoint' = l /\ (pointer' = l \/ (At(c, "close")' /\ local'[c].mine = l))
        BY <1>1, <1>2, <1>4, <2>1 DEF InTurn
      <3>2. ~At(c, "start")' /\ ~At(c, "unpublish")' /\ ~At(c, "remove")'
            /\ (At(c, "close")' => pointer' \in {NoServer, local'[c].mine})
        BY <1>1, <1>2, <1>4
      <3> QED
        BY <2>2, <3>1, <3>2 DEF InTurn
    <2>4. Finality'
      <3>1. final' => /\ Off(settings') /\ NoneListens'
                      /\ Running(c)' => ~Grants(op'[c]) /\ (At(c, "set")' => Off(local'[c].copy))
        BY <1>1, <1>2, <1>4, <2>1 DEF Finality, NoneListens
      <3>2. Running(c)' /\ op'[c] = "disconnect" /\ ~local'[c].failed /\ Len(todo'[c]) <= 3
               => Off(settings')
        BY <1>1, <1>2, <1>4
      <3> QED
        BY <2>2, <3>1, <3>2 DEF Finality
    <2> QED
      BY <2>3, <2>4
  <1> QED
    BY <1>1, <1>3, <1>4 DEF IInv

LEMMA GetKeeps ==
    ASSUME IInv, NEW c \in Caller, Get(c)
    PROVE  IInv'
  <1> DEFINE v == [local[c] EXCEPT !.copy = settings]
  <1> PICK t : t = Tail(todo[c])
    OBVIOUS
  <1>1. /\ At(c, "get") /\ Running(c) /\ GoOn(c, t, v)
        /\ UNCHANGED <<settings, pointer, stage, mutex, endpoint>>
    BY DEF Get, Continue, At
  <1>2. v \in Locals /\ v.copy = settings /\ v.failed = local[c].failed
    BY DEF IInv, CallShape, ServerShape, Locals
  <1> HIDE DEF v
  <1>3. /\ t \in Seq(StepNames) /\ Len(t) <= 8 /\ (t # <<>> => Orderly(t, op[c]))
        /\ t # <<>> /\ Head(t) = "set" /\ \A x : At(c, x) => x = "get"
        /\ op[c] = "disconnect" /\ Len(t) <= 3 => Len(todo[c]) <= 3
    BY <1>1, Heads DEF IInv, At
  <1>4. ~overlapped =>
           /\ \A l \in Server : stage[l] = "listening" => pointer' = l
           /\ final => Off(settings') /\ NoneListens /\ Off(v.copy)
           /\ op[c] = "disconnect" /\ ~v.failed /\ Len(t) <= 3 => Off(settings')
    <2> SUFFICES ASSUME ~overlapped, InTurn, Finality
                 PROVE  /\ \A l \in Server : stage[l] = "listening" => pointer' = l
                        /\ final => Off(settings') /\ NoneListens /\ Off(v.copy)
                        /\ op[c] = "disconnect" /\ ~v.failed /\ Len(t) <= 3 => Off(settings')
      BY DEF IInv
    <2>1. \A l \in Server : stage[l] = "listening" => pointer' = l
      BY <1>1, <1>3 DEF InTurn, At
    <2> QED
      BY <1>1, <1>2, <1>3, <2>1 DEF Finality
  <1> QED
    BY <1>1, <1>2, <1>3, <1>4, CalmlyKept DEF IInv, ServerShape

\* The empty rest of a call that returns.
LEMMA Returning ==
    /\ <<>> \in Seq(StepNames) /\ Len(<<>>) <= 8
  OBVIOUS

LEMMA SetKeeps ==
    ASSUME IInv, NEW c \in Caller, Set(c)
    PROVE  IInv'
  <1> PICK t : t = Tail(todo[c])
    OBVIOUS
  <1>1. /\ At(c, "set") /\ Running(c) /\ UNCHANGED <<pointer, stage, mutex, endpoint>>
        /\ \A x : At(c, x) => x = "set"
    BY DEF Set, At
  <1>2. /\ t \in Seq(StepNames) /\ Len(t) <= 8 /\ (t # <<>> => Orderly(t, op[c]))
        /\ t # <<>> => Head(t) \in {"publish", "take"}
        /\ op[c] # "quit" /\ (op[c] = "disconnect" => t # <<>>)
    BY <1>1, Heads DEF IInv
  <1>3. /\ local[c] \in Locals /\ local[c].copy \in Settings
        /\ op[c] \in AllOps /\ settings \in Settings /\ pointer \in Server \cup {NoServer}
    BY <1>1 DEF IInv, CallShape, ServerShape, Locals
  <1>4. ~overlapped =>
           /\ \A l \in Server : stage[l] = "listening" => pointer' = l
           /\ final => Off(settings) /\ NoneListens /\ ~Grants(op[c]) /\ Off(local[c].copy)
    <2> SUFFICES ASSUME ~overlapped, InTurn, Finality
                 PROVE  /\ \A l \in Server : stage[l] = "listening" => pointer' = l
                        /\ final => /\ Off(settings) /\ NoneListens
                                    /\ ~Grants(op[c]) /\ Off(local[c].copy)
      BY DEF IInv
    <2>1. \A l \in Server : stage[l] = "listening" => pointer' = l
      BY <1>1 DEF InTurn, At
    <2> QED
      BY <1>1, <2>1 DEF Finality
  <1>5. CASE settings' = Changed(op[c], local[c].copy) /\ GoOn(c, t, local[c])
    <2>1. settings' \in Settings
      BY <1>2, <1>3, <1>5 DEF Changed, Settings, AllOps
    <2>2. op[c] = "disconnect" => Off(settings')
      BY <1>3, <1>5 DEF Changed, Settings, Off
    <2>3. ~Grants(op[c]) /\ Off(local[c].copy) => Off(settings')
      BY <1>2, <1>3, <1>5 DEF Changed, Settings, Off, Grants, AllOps
    <2> QED
      BY <1>1, <1>2, <1>3, <1>4, <1>5, <2>1, <2>2, <2>3, CalmlyKept
  <1>6. CASE Fail(c, IF op[c] = "disconnect" THEN t ELSE <<>>) /\ settings' = settings
    <2> DEFINE v == [local[c] EXCEPT !.failed = TRUE]
    <2>1. v \in Locals /\ v.failed
      BY <1>3 DEF Locals
    <2>2. GoOn(c, IF op[c] = "disconnect" THEN t ELSE <<>>, v)
      BY <1>6 DEF Fail
    <2> HIDE DEF v
    <2>3. CASE op[c] = "disconnect"
      BY <1>1, <1>2, <1>3, <1>4, <1>6, <2>1, <2>2, <2>3, CalmlyKept
    <2>4. CASE op[c] # "disconnect"
      BY <1>1, <1>3, <1>4, <1>6, <2>1, <2>2, <2>4, CalmlyKept, Returning
    <2> QED
      BY <2>3, <2>4
  <1> QED
    BY <1>5, <1>6 DEF Set, Continue

\* The service looks at the pointer, or takes it.
LEMMA CaptureKeeps ==
    ASSUME IInv, NEW c \in Caller, Capture(c) \/ Take(c)
    PROVE  IInv'
  <1> DEFINE v == [local[c] EXCEPT !.mine = pointer]
  <1> PICK t : t = Tail(todo[c])
    OBVIOUS
  <1>1. /\ At(c, "capture") \/ At(c, "take")
        /\ Running(c) /\ GoOn(c, t, v)
        /\ UNCHANGED <<settings, stage, mutex, endpoint>>
        /\ pointer' \in {pointer, NoServer}
    BY DEF Capture, Take, Continue, At
  <1>2. v \in Locals /\ v.mine = pointer /\ v.failed = local[c].failed
    BY DEF IInv, CallShape, ServerShape, Locals
  <1> HIDE DEF v
  <1>3. /\ t \in Seq(StepNames) /\ Len(t) <= 8 /\ (t # <<>> => Orderly(t, op[c]))
        /\ t # <<>> /\ Head(t) = "close"
        /\ \A x : At(c, x) => x \in {"capture", "take"}
        /\ op[c] = "disconnect" /\ Len(t) <= 3 => Len(todo[c]) <= 3
    BY <1>1, Heads DEF IInv, At
  <1>4. ~overlapped =>
           /\ \A l \in Server : stage[l] = "listening" => v.mine = l
           /\ final => Off(settings') /\ NoneListens
           /\ op[c] = "disconnect" /\ ~v.failed /\ Len(t) <= 3 => Off(settings')
    <2> SUFFICES ASSUME ~overlapped, InTurn, Finality
                 PROVE  /\ \A l \in Server : stage[l] = "listening" => v.mine = l
                        /\ final => Off(settings') /\ NoneListens
                        /\ op[c] = "disconnect" /\ ~v.failed /\ Len(t) <= 3 => Off(settings')
      BY DEF IInv
    <2>1. \A l \in Server : stage[l] = "listening" => v.mine = l
      BY <1>1, <1>2, <1>3 DEF InTurn, At
    <2> QED
      BY <1>1, <1>2, <1>3, <2>1 DEF Finality
  <1>5. settings' \in Settings /\ pointer' \in Server \cup {NoServer}
    BY <1>1 DEF IInv, ServerShape
  <1>6. /\ ~At(c, "start") /\ ~At(c, "remove")
        /\ pointer' \in {NoServer, v.mine}
        /\ UNCHANGED <<stage, mutex, endpoint>>
        /\ Head(t) \notin {"start", "remove", "unpublish"} /\ Head(t) # "set"
    BY <1>1, <1>2, <1>3
  <1> QED
    BY <1>1, <1>2, <1>3, <1>4, <1>5, <1>6, CalmlyKept

LEMMA UnpublishKeeps ==
    ASSUME IInv, NEW c \in Caller, Unpublish(c)
    PROVE  IInv'
  <1>1. /\ At(c, "unpublish") /\ Running(c) /\ GoOn(c, Tail(todo[c]), local[c])
        /\ UNCHANGED <<settings, stage, mutex, endpoint>> /\ pointer' = NoServer
        /\ \A x : At(c, x) => x = "unpublish"
    BY DEF Unpublish, Continue, At
  <1>2. Tail(todo[c]) = <<>> /\ op[c] = "enable"
    BY <1>1, Heads DEF IInv
  <1>3. settings' \in Settings /\ pointer' \in Server \cup {NoServer} /\ local[c] \in Locals
    BY <1>1 DEF IInv, ServerShape, CallShape
  <1>4. ~overlapped => NoneListens /\ (final => Off(settings'))
    BY <1>1 DEF IInv, InTurn, Finality
  <1>5. GoOn(c, <<>>, local[c])
    BY <1>1, <1>2
  <1> QED
    BY <1>1, <1>2, <1>3, <1>4, <1>5, CalmlyKept, Returning DEF NoneListens

\* The same of a step that does touch a server.
LEMMA Moved ==
    ASSUME IInv, NEW c \in Caller, Running(c), NEW s \in Seq(StepNames), Len(s) <= 8,
           s # <<>> => Orderly(s, op[c]), NEW v \in Locals, GoOn(c, s, v)
    PROVE  /\ CallShape' /\ todo'[c] = s /\ overlapped' = overlapped
           /\ s # <<>> => op'[c] = op[c] /\ local'[c] = v
           /\ final' => final \/ (s = <<>> /\ op[c] = "disconnect" /\ ~v.failed)
           /\ \A x : At(c, x)' <=> s # <<>> /\ Head(s) = x
           /\ Running(c)' <=> s # <<>>
           /\ \A d \in Caller : d # c => local'[d] = local[d] /\ \A x : At(d, x)' <=> At(d, x)
           /\ ~overlapped =>
                 /\ InTurn /\ Finality
                 /\ \A d \in Caller : (Running(d) => d = c) /\ (Running(d)' => d = c)
                 /\ \A d \in Caller : \A x : (At(d, x) => d = c) /\ (At(d, x)' => d = c)
  <1>1. /\ CallShape' /\ todo'[c] = s /\ Others(c) /\ overlapped' = overlapped
        /\ s # <<>> => op'[c] = op[c] /\ local'[c] = v
        /\ final' => final \/ (s = <<>> /\ op[c] = "disconnect" /\ ~v.failed)
    BY Goes DEF IInv, Others
  <1>2. /\ \A x : At(c, x)' <=> s # <<>> /\ Head(s) = x
        /\ Running(c)' <=> s # <<>>
    BY <1>1 DEF At, Running
  <1>3. \A d \in Caller : d # c => local'[d] = local[d] /\ \A x : At(d, x)' <=> At(d, x)
    BY <1>1 DEF Others, At, Running
  <1>4. ~overlapped =>
           /\ InTurn /\ Finality
           /\ \A d \in Caller : (Running(d) => d = c) /\ (Running(d)' => d = c)
           /\ \A d \in Caller : \A x : (At(d, x) => d = c) /\ (At(d, x)' => d = c)
    BY <1>1, Alone DEF IInv
  <1> QED
    BY <1>1, <1>2, <1>3, <1>4

LEMMA PublishKeeps ==
    ASSUME IInv, NEW c \in Caller, Publish(c)
    PROVE  IInv'
  <1>1. /\ At(c, "publish") /\ Running(c) /\ UNCHANGED <<settings, mutex, endpoint>>
        /\ \A x : At(c, x) => x = "publish"
    BY DEF Publish, At
  <1>2. local[c] \in Locals /\ settings \in Settings /\ pointer \in Server \cup {NoServer}
    BY DEF IInv, CallShape, ServerShape
  <1>3. CASE pointer # NoServer /\ UNCHANGED <<pointer, stage>> /\ GoOn(c, <<>>, local[c])
    <2>1. op[c] = "enable"
      BY <1>1, Heads DEF IInv
    <2>2. ~overlapped =>
             /\ \A l \in Server : stage[l] = "listening" => pointer' = l
             /\ final => Off(settings') /\ NoneListens
      <3> SUFFICES ASSUME ~overlapped, InTurn, Finality
                   PROVE  /\ \A l \in Server : stage[l] = "listening" => pointer' = l
                          /\ final => Off(settings') /\ NoneListens
        BY DEF IInv
      <3> QED
        BY <1>1, <1>3 DEF InTurn, Finality, At
    <2> QED
      BY <1>1, <1>2, <1>3, <2>1, <2>2, CalmlyKept, Returning
  <1>4. ASSUME pointer = NoServer, NEW s \in NextServer,
               stage' = [stage EXCEPT ![s] = "made"], pointer' = s,
               GoOn(c, Tail(todo[c]), [local[c] EXCEPT !.mine = s])
        PROVE  IInv'
    <2> DEFINE v == [local[c] EXCEPT !.mine = s]
    <2> PICK t : t = Tail(todo[c])
      OBVIOUS
    <2>1. s \in Server /\ stage[s] = "unmade"
      BY DEF NextServer
    <2>2. v \in Locals /\ v.mine = s /\ GoOn(c, t, v)
      BY <1>2, <1>4, <2>1 DEF Locals
    <2> HIDE DEF v
    <2>3. /\ t \in Seq(StepNames) /\ Len(t) <= 8 /\ (t # <<>> => Orderly(t, op[c]))
          /\ t # <<>> /\ Head(t) = "start" /\ op[c] = "enable"
      BY <1>1, Heads DEF IInv
    <2>4. /\ CallShape' /\ overlapped' = overlapped /\ op'[c] = op[c] /\ local'[c] = v
          /\ final' => final
          /\ \A x : At(c, x)' <=> x = "start"
          /\ \A d \in Caller : d # c => local'[d] = local[d] /\ \A x : At(d, x)' <=> At(d, x)
          /\ ~overlapped =>
                /\ InTurn /\ Finality
                /\ \A d \in Caller : (Running(d) => d = c) /\ (Running(d)' => d = c)
                /\ \A d \in Caller : \A x : (At(d, x) => d = c) /\ (At(d, x)' => d = c)
      BY <1>1, <2>2, <2>3, Moved
    <2>5. /\ stage' \in [Server -> {"unmade", "made", "listening", "closing", "closed"}]
          /\ stage'[s] = "made" /\ \A l \in Server : l # s => stage'[l] = stage[l]
          /\ endpoint # s
      BY <1>4, <2>1 DEF IInv, ServerShape, Owned, ClaimIsTrue, NoServer, Server
    <2>6. ServerShape'
      BY <1>1, <1>4, <2>1, <2>5 DEF IInv, ServerShape
    <2>7. Owned'
      <3>1. \A d \in Caller : At(d, "start") => local[d].mine # s
        BY <2>1 DEF IInv, Owned
      <3>2. \A d \in Caller : At(d, "start")' =>
               local'[d].mine \in Server /\ stage'[local'[d].mine] \in {"made", "closed"}
               /\ (d # c => At(d, "start") /\ local'[d] = local[d] /\ local'[d].mine # s)
        BY <2>1, <2>2, <2>4, <2>5, <3>1 DEF IInv, Owned
      <3>3. \A d, e \in Caller :
               At(d, "start")' /\ At(e, "start")' /\ d # e => local'[d].mine # local'[e].mine
        BY <2>2, <2>4, <3>2 DEF IInv, Owned
      <3>4. \A d \in Caller : (At(d, "remove")' <=> At(d, "remove"))
                              /\ (At(d, "remove") => local'[d] = local[d])
        BY <1>1, <2>4
      <3>5. \A l \in Server : mutex[l] # NoCaller => mutex[l] \in Caller
        BY DEF IInv, ServerShape
      <3>6. ClaimIsTrue'
        BY <1>1, <2>5 DEF IInv, ServerShape, Owned, ClaimIsTrue
      <3> QED
        BY <1>1, <2>5, <3>2, <3>3, <3>4, <3>5, <3>6 DEF IInv, Owned
    <2>8. ASSUME ~overlapped PROVE InTurn' /\ Finality'
      <3>1. NoneListens /\ NoneListens'
        BY <1>1, <1>4, <2>4, <2>5, <2>8 DEF InTurn, NoneListens, Server, NoServer
      <3>2. ~final'
        BY <1>1, <2>3, <2>4, <2>8 DEF Finality, Grants
      <3> QED
        BY <1>4, <2>2, <2>3, <2>4, <2>8, <3>1, <3>2 DEF InTurn, Finality, NoneListens
    <2> QED
      BY <2>4, <2>6, <2>7, <2>8 DEF IInv
  <1> QED
    BY <1>3, <1>4 DEF Publish, Continue

\* The one start of a server: it listens and says where, or it is closed again.
LEMMA StartKeeps ==
    ASSUME IInv, NEW c \in Caller, Start(c)
    PROVE  IInv'
  <1> PICK s : s = local[c].mine
    OBVIOUS
  <1>1. /\ At(c, "start") /\ Running(c) /\ UNCHANGED <<settings, pointer, mutex>>
        /\ \A x : At(c, x) => x = "start"
        /\ mutex[s] = NoCaller
    BY DEF Start, At
  <1>2. Tail(todo[c]) = <<>> /\ op[c] = "enable"
    BY <1>1, Heads DEF IInv
  <1>3. /\ s \in Server /\ stage[s] \in {"made", "closed"} /\ local[c] \in Locals
        /\ \A d \in Caller : At(d, "start") /\ d # c => local[d].mine # s
    BY <1>1 DEF IInv, Owned, CallShape
  <1>4. ASSUME NEW n \in Seq(StepNames), NEW v \in Locals, GoOn(c, n, v),
               Len(n) <= 8, n # <<>> => Orderly(n, op[c]),
               NEW h \in {"listening", "closed"}, stage' = [stage EXCEPT ![s] = h],
               h = "listening" => n = <<>> /\ endpoint' = s,
               h = "closed" => endpoint' \in {endpoint, NoServer},
               n = <<>> \/ Head(n) = "unpublish"
        PROVE  IInv'
    <2>1. /\ CallShape' /\ overlapped' = overlapped
          /\ final' => final
          /\ n # <<>> => op'[c] = "enable"
          /\ \A x : At(c, x)' => x = "unpublish"
          /\ Running(c)' => n # <<>>
          /\ \A d \in Caller : d # c => local'[d] = local[d] /\ \A x : At(d, x)' <=> At(d, x)
          /\ ~overlapped =>
                /\ InTurn /\ Finality
                /\ \A d \in Caller : (Running(d) => d = c) /\ (Running(d)' => d = c)
                /\ \A d \in Caller : \A x : (At(d, x) => d = c) /\ (At(d, x)' => d = c)
      BY <1>1, <1>2, <1>4, Moved
    <2>2. /\ stage' \in [Server -> {"unmade", "made", "listening", "closing", "closed"}]
          /\ stage'[s] = h /\ \A l \in Server : l # s => stage'[l] = stage[l]
          /\ endpoint # s
      BY <1>3, <1>4 DEF IInv, ServerShape, Owned, ClaimIsTrue, NoServer, Server
    <2>3. ServerShape'
      BY <1>1, <1>3, <1>4, <2>2 DEF IInv, ServerShape
    <2>4. Owned'
      <3>1. \A d \in Caller : At(d, "start")' =>
               At(d, "start") /\ d # c /\ local'[d] = local[d] /\ local[d].mine # s
        BY <1>3, <2>1
      <3>2. \A d \in Caller : (At(d, "remove")' <=> At(d, "remove"))
                              /\ (At(d, "remove") => local'[d] = local[d])
        BY <1>1, <2>1
      <3>3. \A l \in Server : mutex[l] # NoCaller => mutex[l] \in Caller
        BY DEF IInv, ServerShape
      <3>4. ClaimIsTrue'
        BY <1>3, <1>4, <2>2 DEF IInv, ServerShape, Owned, ClaimIsTrue
      <3> QED
        BY <1>1, <1>4, <2>2, <3>1, <3>2, <3>3, <3>4 DEF IInv, Owned
    <2>5. ASSUME ~overlapped PROVE InTurn' /\ Finality'
      <3>1. NoneListens /\ pointer = s /\ ~final'
        BY <1>1, <1>2, <2>1, <2>5 DEF InTurn, Finality, Grants
      <3>2. /\ \A l \in Server : stage'[l] = "listening" => l = s /\ h = "listening"
            /\ h = "closed" => NoneListens'
        BY <2>2, <3>1 DEF NoneListens
      <3>3. InTurn'
        <4>1. \A l \in Server : stage'[l] = "listening" => endpoint' = l /\ pointer' = l
          BY <1>1, <1>4, <3>1, <3>2
        <4>2. \A d \in Caller : ~At(d, "start")' /\ ~At(d, "remove")' /\ ~At(d, "close")'
          BY <2>1, <2>5
        <4>3. \A d \in Caller : At(d, "unpublish")' => NoneListens'
          <5>1. ASSUME NEW d \in Caller, At(d, "unpublish")' PROVE h = "closed"
            BY <1>4, <2>1, <2>5, <5>1 DEF At, Running
          <5> QED
            BY <3>2, <5>1
        <4> QED
          BY <2>1, <2>5, <4>1, <4>2, <4>3 DEF InTurn
      <3>4. Finality'
        <4>1. \A d \in Caller : Running(d)' => op'[d] = "enable"
          BY <2>1, <2>5
        <4> QED
          BY <3>1, <4>1 DEF Finality
      <3> QED
        BY <3>3, <3>4
    <2> QED
      BY <2>1, <2>3, <2>4, <2>5 DEF IInv
  <1>5. CASE /\ stage' = [stage EXCEPT ![s] = "listening"] /\ endpoint' = s
             /\ GoOn(c, Tail(todo[c]), local[c])
    <2>1. GoOn(c, <<>>, local[c])
      BY <1>2, <1>5
    <2> QED
      BY <1>3, <1>4, <1>5, <2>1, Returning
  <1>6. CASE /\ Fail(c, <<"unpublish">>) /\ stage' = [stage EXCEPT ![s] = "closed"]
             /\ endpoint' \in {endpoint, NoServer}
    <2> DEFINE v == [local[c] EXCEPT !.failed = TRUE]
    <2>1. v \in Locals
      BY <1>3 DEF Locals
    <2>2. GoOn(c, <<"unpublish">>, v)
      BY <1>6 DEF Fail
    <2> HIDE DEF v
    <2> PICK n : n = <<"unpublish">>
      OBVIOUS
    <2>3. /\ n \in Seq(StepNames) /\ Len(n) = 1 /\ n[1] = "unpublish" /\ n # <<>>
          /\ Head(n) = "unpublish"
      BY DEF StepNames
    <2>4. Orderly(n, op[c])
      BY <1>2, <2>3 DEF Orderly, InOrder
    <2>5. Len(n) <= 8 /\ GoOn(c, n, v)
      BY <2>2
    <2> QED
      BY <1>4, <1>6, <2>1, <2>3, <2>4, <2>5
  <1> QED
    BY <1>5, <1>6 DEF Start, Continue

LEMMA CloseKeeps ==
    ASSUME IInv, NEW c \in Caller, Close(c)
    PROVE  IInv'
  <1> PICK s : s = local[c].mine
    OBVIOUS
  <1> PICK t : t = Tail(todo[c])
    OBVIOUS
  <1>1. /\ At(c, "close") /\ Running(c) /\ UNCHANGED <<settings, pointer, endpoint>>
        /\ \A x : At(c, x) => x = "close"
    BY DEF Close, At
  <1>2. /\ t \in Seq(StepNames) /\ Len(t) <= 8 /\ (t # <<>> => Orderly(t, op[c]))
        /\ t # <<>> /\ Head(t) = "remove"
        /\ op[c] = "disconnect" /\ Len(t) <= 3 => Len(todo[c]) <= 3
    BY <1>1, Heads DEF IInv
  <1>3. /\ local[c] \in Locals /\ s \in Server \cup {NoServer}
        /\ settings' \in Settings /\ pointer' \in Server \cup {NoServer}
    BY <1>1 DEF IInv, CallShape, ServerShape, Locals
  <1>4. CASE s = NoServer /\ UNCHANGED <<stage, mutex>> /\ GoOn(c, Tail(t), local[c])
    <2> PICK u : u = Tail(t)
      OBVIOUS
    <2>1. /\ u \in Seq(StepNames) /\ Len(u) <= 8
          /\ u # <<>> => Orderly(u, op[c]) /\ Head(u) = "get"
          /\ op[c] = "disconnect" /\ (u = <<>> \/ Len(u) <= 3) => Len(todo[c]) <= 3
      <3>1. /\ u \in Seq(StepNames) /\ Len(u) <= 8
            /\ u # <<>> => Orderly(u, op[c]) /\ Head(u) = "get"
            /\ op[c] = "disconnect" /\ Len(u) <= 3 => Len(todo[c]) <= 3
        BY <1>1, Heads DEF IInv
      <3>2. \A w : w = <<>> => Len(w) <= 3
        OBVIOUS
      <3> QED
        BY <3>1, <3>2, Zenon
    <2>2. ~overlapped =>
             /\ NoneListens
             /\ final \/ (u = <<>> /\ op[c] = "disconnect" /\ ~local[c].failed) => Off(settings')
             /\ op[c] = "disconnect" /\ ~local[c].failed /\ Len(u) <= 3 => Off(settings')
      <3> SUFFICES ASSUME ~overlapped, InTurn, Finality
                   PROVE  /\ NoneListens
                          /\ final \/ (u = <<>> /\ op[c] = "disconnect" /\ ~local[c].failed)
                                => Off(settings')
                          /\ op[c] = "disconnect" /\ ~local[c].failed /\ Len(u) <= 3
                                => Off(settings')
        BY DEF IInv
      <3>1. op[c] = "disconnect" /\ ~local[c].failed /\ Len(u) <= 3 => Off(settings')
        BY <1>1, <2>1 DEF Finality
      <3>2. final => Off(settings')
        BY <1>1 DEF Finality
      <3>3. NoneListens
        <4>1. NoServer \notin Server
          BY DEF NoServer, Server
        <4>2. pointer = NoServer
          BY <1>1, <1>4 DEF InTurn
        <4>3. \A d \in Caller : At(d, "close") => d = c
          BY <1>1 DEF InTurn, At
        <4> QED
          BY <1>4, <4>1, <4>2, <4>3 DEF InTurn, NoneListens
      <3>4. u = <<>> /\ op[c] = "disconnect" /\ ~local[c].failed => Off(settings')
        BY <1>1, <2>1 DEF Finality
      <3> QED
        BY <3>1, <3>2, <3>3, <3>4
    <2>3. /\ ~At(c, "start") /\ ~At(c, "remove") /\ GoOn(c, u, local[c])
          /\ UNCHANGED <<stage, mutex, endpoint>>
          /\ u # <<>> => Head(u) \notin {"start", "remove", "unpublish", "close", "set"}
      BY <1>1, <1>4, <2>1
    <2>4. u # <<>> => Head(u) \notin {"start", "remove", "unpublish"} /\ Head(u) # "close"
                      /\ Head(u) # "set"
      BY <2>3
    <2>5. ~overlapped =>
             /\ \A l \in Server : stage[l] # "listening"
             /\ u # <<>> => Head(u) # "close"
             /\ final \/ (u = <<>> /\ op[c] = "disconnect" /\ ~local[c].failed) =>
                   Off(settings') /\ NoneListens
             /\ u # <<>> => Head(u) # "set"
             /\ op[c] = "disconnect" /\ ~local[c].failed /\ Len(u) <= 3 => Off(settings')
      BY <2>2, <2>4 DEF NoneListens
    <2> QED
      BY <1>1, <1>3, <2>1, <2>3, <2>4, <2>5, CalmlyKept
  <1>5. CASE /\ s # NoServer /\ mutex[s] = NoCaller
             /\ mutex' = [mutex EXCEPT ![s] = c]
             /\ stage' = [stage EXCEPT ![s] = IF @ = "listening" THEN "closing" ELSE "closed"]
             /\ GoOn(c, t, local[c])
    <2>1. /\ CallShape' /\ overlapped' = overlapped /\ op'[c] = op[c] /\ local'[c] = local[c]
          /\ todo'[c] = t
          /\ final' => final
          /\ \A x : At(c, x)' <=> x = "remove"
          /\ \A d \in Caller : d # c => local'[d] = local[d] /\ \A x : At(d, x)' <=> At(d, x)
          /\ ~overlapped =>
                /\ InTurn /\ Finality
                /\ \A d \in Caller : (Running(d) => d = c) /\ (Running(d)' => d = c)
                /\ \A d \in Caller : \A x : (At(d, x) => d = c) /\ (At(d, x)' => d = c)
      BY <1>1, <1>2, <1>3, <1>5, Moved
    <2>2. /\ s \in Server /\ stage[s] # "closing"
          /\ stage'[s] \in {"closing", "closed"} /\ (stage'[s] = "closing" <=> stage[s] = "listening")
          /\ \A l \in Server : l # s => stage'[l] = stage[l] /\ mutex'[l] = mutex[l]
          /\ mutex'[s] = c
      BY <1>3, <1>5 DEF IInv, ServerShape, Owned
    <2>3. ServerShape'
      BY <1>1, <1>3, <1>5 DEF IInv, ServerShape
    <2>4. Owned'
      <3>1. \A d \in Caller : At(d, "start")' =>
               At(d, "start") /\ local'[d] = local[d] /\ stage'[local[d].mine] \in {"made", "closed"}
        BY <2>1, <2>2 DEF IInv, Owned
      <3>2. \A d \in Caller : d # c =>
               /\ At(d, "remove")' <=> At(d, "remove")
               /\ At(d, "remove") => local'[d] = local[d] /\ local[d].mine # s
        BY <1>5, <2>1 DEF IInv, Owned, NoCaller, Caller
      <3>3. At(c, "remove")' /\ local'[c].mine = s /\ ~At(c, "remove")
        BY <1>1, <2>1
      <3>4. \A l \in Server : mutex[l] # NoCaller => mutex[l] \in Caller /\ mutex[l] # c
        BY <3>3 DEF IInv, ServerShape, Owned
      <3>5. ClaimIsTrue'
        BY <1>1, <2>2 DEF IInv, ServerShape, Owned, ClaimIsTrue
      <3>6. c # NoCaller
        BY DEF Caller, NoCaller
      <3> QED
        BY <2>2, <3>1, <3>2, <3>3, <3>4, <3>5, <3>6 DEF IInv, Owned
    <2>5. ASSUME ~overlapped PROVE InTurn' /\ Finality'
      <3>1. NoneListens'
        <4>1. pointer \in {NoServer, s} /\ NoServer \notin Server
          BY <1>1, <2>1, <2>5 DEF InTurn, NoServer, Server
        <4> QED
          BY <2>1, <2>2, <2>5, <4>1 DEF InTurn, NoneListens
      <3>2. InTurn'
        BY <2>1, <2>5, <3>1 DEF InTurn, NoneListens
      <3>3. Finality'
        <4>1. final' => Off(settings') /\ ~Grants(op'[c])
          BY <1>1, <2>1, <2>5 DEF Finality
        <4>2. op'[c] = "disconnect" /\ ~local'[c].failed /\ Len(todo'[c]) <= 3 => Off(settings')
          BY <1>1, <1>2, <2>1, <2>5 DEF Finality
        <4> QED
          BY <2>1, <2>5, <3>1, <4>1, <4>2 DEF Finality
      <3> QED
        BY <3>2, <3>3
    <2> QED
      BY <2>1, <2>3, <2>4, <2>5 DEF IInv
  <1> QED
    BY <1>4, <1>5 DEF Close, Continue

LEMMA RemoveKeeps ==
    ASSUME IInv, NEW c \in Caller, Remove(c)
    PROVE  IInv'
  <1> PICK s : s = local[c].mine
    OBVIOUS
  <1> PICK t : t = Tail(todo[c])
    OBVIOUS
  <1>1. /\ At(c, "remove") /\ Running(c) /\ UNCHANGED <<settings, pointer>>
        /\ \A x : At(c, x) => x = "remove"
        /\ endpoint' = NoServer
        /\ stage' = [stage EXCEPT ![s] = "closed"] /\ mutex' = [mutex EXCEPT ![s] = NoCaller]
        /\ GoOn(c, t, local[c])
    BY DEF Remove, At, Continue
  <1>2. /\ t \in Seq(StepNames) /\ Len(t) <= 8 /\ (t # <<>> => Orderly(t, op[c]))
        /\ t # <<>> => Head(t) = "get"
        /\ op[c] = "disconnect" /\ (t = <<>> \/ Len(t) <= 3) => Len(todo[c]) <= 3
    BY <1>1, Heads DEF IInv
  <1>3. local[c] \in Locals /\ s \in Server /\ mutex[s] = c
    BY <1>1 DEF IInv, CallShape, Owned
  <1>4. /\ CallShape' /\ overlapped' = overlapped /\ todo'[c] = t
        /\ t # <<>> => op'[c] = op[c] /\ local'[c] = local[c]
        /\ final' => final \/ (t = <<>> /\ op[c] = "disconnect" /\ ~local[c].failed)
        /\ Running(c)' <=> t # <<>>
        /\ \A x : At(c, x)' => x = "get"
        /\ \A d \in Caller : d # c => local'[d] = local[d] /\ \A x : At(d, x)' <=> At(d, x)
        /\ ~overlapped =>
              /\ InTurn /\ Finality
              /\ \A d \in Caller : (Running(d) => d = c) /\ (Running(d)' => d = c)
              /\ \A d \in Caller : \A x : (At(d, x) => d = c) /\ (At(d, x)' => d = c)
    <2>1. /\ CallShape' /\ todo'[c] = t /\ overlapped' = overlapped
          /\ t # <<>> => op'[c] = op[c] /\ local'[c] = local[c]
          /\ final' => final \/ (t = <<>> /\ op[c] = "disconnect" /\ ~local[c].failed)
          /\ \A x : At(c, x)' <=> t # <<>> /\ Head(t) = x
          /\ Running(c)' <=> t # <<>>
          /\ \A d \in Caller : d # c => local'[d] = local[d] /\ \A x : At(d, x)' <=> At(d, x)
          /\ ~overlapped =>
                /\ InTurn /\ Finality
                /\ \A d \in Caller : (Running(d) => d = c) /\ (Running(d)' => d = c)
                /\ \A d \in Caller : \A x : (At(d, x) => d = c) /\ (At(d, x)' => d = c)
      <3>1. GoOn(c, t, local[c]) /\ t \in Seq(StepNames) /\ Len(t) <= 8
            /\ (t # <<>> => Orderly(t, op[c]))
        BY <1>1, <1>2
      <3> QED
        BY <1>1, <1>3, <3>1, Moved
    <2>2. \A x : At(c, x)' => x = "get"
      BY <1>2, <2>1
    <2> QED
      BY <2>1, <2>2
  <1>5. /\ stage'[s] = "closed" /\ mutex'[s] = NoCaller
        /\ \A l \in Server : l # s => stage'[l] = stage[l] /\ mutex'[l] = mutex[l]
    BY <1>1, <1>3 DEF IInv, ServerShape
  <1>6. ServerShape'
    BY <1>1, <1>3 DEF IInv, ServerShape
  <1>7. Owned'
    <2>1. \A d \in Caller : At(d, "start")' =>
             At(d, "start") /\ local'[d] = local[d] /\ stage'[local[d].mine] \in {"made", "closed"}
      BY <1>4, <1>5 DEF IInv, Owned
    <2>2. \A d \in Caller : /\ At(d, "remove")' =>
                                  At(d, "remove") /\ local'[d] = local[d] /\ local[d].mine # s
                            /\ At(d, "remove") /\ d # c => At(d, "remove")' /\ local'[d] = local[d]
      BY <1>3, <1>4 DEF IInv, Owned
    <2>3. \A l \in Server : mutex'[l] # NoCaller =>
             l # s /\ mutex'[l] = mutex[l] /\ mutex[l] \in Caller /\ mutex[l] # c
      BY <1>5, <1>3 DEF IInv, ServerShape, Owned
    <2>4. ClaimIsTrue'
      BY <1>1 DEF ClaimIsTrue
    <2> QED
      BY <1>5, <2>1, <2>2, <2>3, <2>4 DEF IInv, Owned
  <1>8. ASSUME ~overlapped PROVE InTurn' /\ Finality'
    <2>1. NoneListens'
      BY <1>1, <1>4, <1>5, <1>8 DEF InTurn, NoneListens
    <2>2. InTurn'
      <3>1. \A d \in Caller : ~At(d, "start")' /\ ~At(d, "unpublish")' /\ ~At(d, "remove")'
                              /\ ~At(d, "close")'
        BY <1>4, <1>8
      <3> QED
        BY <1>4, <1>8, <2>1, <3>1 DEF InTurn, NoneListens
    <2>3. Finality'
      <3>1. op[c] = "disconnect" /\ ~local[c].failed /\ (t = <<>> \/ Len(t) <= 3) => Off(settings')
        BY <1>1, <1>2, <1>4, <1>8 DEF Finality
      <3>2. final' => Off(settings')
        BY <1>1, <1>4, <1>8, <3>1 DEF Finality
      <3>3. final' /\ Running(c)' => ~Grants(op'[c]) /\ ~At(c, "set")'
        BY <1>1, <1>4, <1>8 DEF Finality
      <3> QED
        BY <1>4, <1>8, <2>1, <3>1, <3>2, <3>3 DEF Finality
    <2> QED
      BY <2>2, <2>3
  <1> QED
    BY <1>4, <1>6, <1>7, <1>8 DEF IInv

LEMMA BeginKeeps ==
    ASSUME IInv, NEW c \in Caller, NEW o \in Ops, Begin(c, o)
    PROVE  IInv'
  <1> PICK p : p = Program(o)
    OBVIOUS
  <1>1. o \in AllOps
    BY AgentServerAssumption
  <1>2. /\ p \in Seq(StepNames) /\ Len(p) <= 8 /\ p # <<>> /\ Orderly(p, o)
        /\ Head(p) \in {"get", "capture", "take"}
        /\ o = "disconnect" => ~(Len(p) <= 3)
    BY <1>1, Programs
  <1>3. /\ todo' = [todo EXCEPT ![c] = p] /\ op' = [op EXCEPT ![c] = o]
        /\ overlapped' = (overlapped \/ ~Quiet)
        /\ final' = (final /\ ~Grants(o)) /\ quitting' = (o = "quit") /\ op[c] = "none"
        /\ UNCHANGED <<settings, pointer, stage, mutex, endpoint, local>>
    BY DEF Begin
  <1>4. ~Running(c)
    BY <1>3 DEF IInv, CallShape, AllOps
  <1>5. /\ todo'[c] = p /\ op'[c] = o /\ Others(c)
        /\ \A x : At(c, x)' <=> Head(p) = x
    BY <1>2, <1>3 DEF IInv, CallShape, Others, At, Running
  <1>6. CallShape'
    <2>1. /\ op' \in [Caller -> AllOps \cup {"none", "returned"}] /\ local' \in [Caller -> Locals]
          /\ todo' \in [Caller -> Seq(StepNames)]
          /\ final' \in BOOLEAN /\ overlapped' \in BOOLEAN /\ quitting' \in BOOLEAN
      BY <1>1, <1>2, <1>3 DEF IInv, CallShape
    <2>2. \A d \in Caller :
             Len(todo'[d]) <= 8 /\ (Running(d)' => op'[d] \in AllOps /\ Orderly(todo'[d], op'[d]))
      BY <1>1, <1>2, <1>5 DEF IInv, CallShape, Others, Running
    <2> QED
      BY <2>1, <2>2 DEF CallShape, Orderly, InOrder
  <1>7. ServerShape' /\ Owned'
    BY <1>2, <1>3, <1>4, <1>5, CalmlyOwned DEF IInv, ServerShape, At
  <1>8. ASSUME ~overlapped' PROVE InTurn' /\ Finality'
    <2>1. ~overlapped /\ InTurn /\ Finality /\ \A d \in Caller : ~Running(d)
      BY <1>3, <1>8 DEF IInv, CallShape, Quiet
    <2>2. \A d \in Caller : (Running(d)' => d = c) /\ \A x : ~At(d, x) /\ (At(d, x)' => d = c)
      BY <1>5, <2>1 DEF Others, Running, At
    <2>3. InTurn'
      BY <1>2, <1>3, <1>5, <2>1, <2>2 DEF InTurn
    <2>4. Finality'
      BY <1>2, <1>3, <1>5, <2>1, <2>2 DEF Finality, NoneListens
    <2> QED
      BY <2>3, <2>4
  <1> QED
    BY <1>6, <1>7, <1>8 DEF IInv

-----------------------------------------------------------------------------
(* The invariant, and what follows.                                        *)

LEMMA InitHolds == Init => IInv
  <1> SUFFICES ASSUME Init PROVE IInv
    OBVIOUS
  <1>1. \A c \in Caller : ~Running(c) /\ \A x : ~At(c, x)
    BY DEF Init, Running, At
  <1>2. settings \in Settings /\ 1 \in Server /\ NoServer \notin Server
    BY AgentServerAssumption DEF Init, Server, NoServer
  <1>3. NoLocals \in Locals
    BY DEF NoLocals, Locals, Settings
  <1>4. CallShape
    <2>1. <<>> \in Seq(StepNames) /\ Len(<<>>) <= 8
      OBVIOUS
    <2> QED
      BY <1>1, <1>3, <2>1 DEF Init, CallShape
  <1>5. ServerShape
    BY <1>2 DEF Init, ServerShape
  <1>6. Owned
    BY <1>1, <1>2 DEF Init, Owned, ClaimIsTrue
  <1>7. InTurn /\ Finality
    BY <1>1, <1>2 DEF Init, InTurn, Finality
  <1> QED
    BY <1>4, <1>5, <1>6, <1>7 DEF IInv

LEMMA NextHolds == IInv /\ [Next]_vars => IInv'
  <1> SUFFICES ASSUME IInv, [Next]_vars PROVE IInv'
    OBVIOUS
  <1>1. CASE UNCHANGED vars
    BY <1>1 DEF vars, IInv, CallShape, ServerShape, Owned, InTurn, Finality, ClaimIsTrue,
                NoneListens, Running, At, Orderly, InOrder
  <1>2. ASSUME NEW c \in Caller, NEW o \in Ops, Begin(c, o) PROVE IInv'
    BY <1>2, BeginKeeps
  <1>3. ASSUME NEW c \in Caller, Step(c) PROVE IInv'
    BY <1>3, GetKeeps, SetKeeps, PublishKeeps, UnpublishKeeps, CaptureKeeps, StartKeeps,
       CloseKeeps, RemoveKeeps DEF Step
  <1> QED
    BY <1>1, <1>2, <1>3 DEF Next

\* The invariant the other theorems rest on: each call has the rest of its program to do,
\* each server is in the hands of at most one call, and calls in turn leave it settled.
THEOREM Invariance == Spec => []IInv
  BY InitHolds, NextHolds, PTL DEF Spec

\* The switch keeps its types: settings, servers, mutexes, and what each call has left.
THEOREM Typing == Spec => []TypeOK
  <1>1. IInv => TypeOK
    <2> SUFFICES ASSUME IInv PROVE TypeOK
      OBVIOUS
    <2>1. \A c \in Caller : \A n \in DOMAIN todo[c] : todo[c][n] \in StepNames
      BY DEF IInv, CallShape
    <2> QED
      BY <2>1 DEF TypeOK, IInv, CallShape, ServerShape, Owned
  <1> QED
    BY Invariance, <1>1, PTL

\* The service, the endpoint file and the listener agree: the file is never a stale claim,
\* however calls overlap and fail, and where they were made in turn a running server is
\* the one in it and none listens that the service does not hold (mcp.go, server.go).
THEOREM TheyAgree == Spec => []ServiceAndEndpointAgree
  <1>1. IInv => ServiceAndEndpointAgree
    <2> SUFFICES ASSUME IInv PROVE ServiceAndEndpointAgree
      OBVIOUS
    <2>1. ClaimIsTrue
      BY DEF IInv, Owned
    <2>2. Quiet => \A c \in Caller : \A x : ~At(c, x)
      BY DEF Quiet, At
    <2>3. RunningIsFindableInTurn
      BY <2>2 DEF RunningIsFindableInTurn, RunningIsFindable, IInv, InTurn, ServerShape
    <2>4. ListeningIsHeld
      BY <2>2 DEF ListeningIsHeld, IInv, InTurn
    <2> QED
      BY <2>1, <2>3, <2>4 DEF ServiceAndEndpointAgree
  <1> QED
    BY Invariance, <1>1, PTL

\* The kill switch, where methods are called in turn, is final whether or not one of them
\* failed, and once it has returned nothing listens and no file claims that one does
\* (Disconnect, RevokeAll).
THEOREM TheKillSwitchIsFinal == Spec => []KillSwitchHolds
  <1>1. IInv => KillSwitchHolds
    <2> SUFFICES ASSUME IInv PROVE KillSwitchHolds
      OBVIOUS
    <2>1. KillSwitchIsFinalInTurn
      BY DEF KillSwitchIsFinalInTurn, KillSwitchIsFinal, IInv, Finality, Off
    <2>2. ASSUME final, Quiet, ~overlapped
          PROVE  NoneListens /\ endpoint = NoServer
      <3>1. NoneListens
        BY <2>2 DEF IInv, Finality
      <3>2. \A c \in Caller : \A x : ~At(c, x)
        BY <2>2 DEF Quiet, At
      <3>3. \A s \in Server : stage[s] # "closing"
        BY <3>2 DEF IInv, Owned, ServerShape
      <3> QED
        BY <3>1, <3>3 DEF IInv, ServerShape, Owned, ClaimIsTrue, NoneListens
    <2> QED
      BY <2>1, <2>2 DEF KillSwitchHolds, KillSwitchCloses, NoneListens
  <1> QED
    BY Invariance, <1>1, PTL
=============================================================================
