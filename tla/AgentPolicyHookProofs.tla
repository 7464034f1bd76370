------------------------ MODULE AgentPolicyHookProofs ------------------------
(***************************************************************************)
(* The hook's safety for every policy, allowlist, supply and nesting depth. *)
(*                                                                         *)
(* What a revert restores must be as sound as what it replaces, so the     *)
(* inductive invariant speaks of the storage every open frame saved as     *)
(* well as of the current one.                                             *)
(***************************************************************************)
EXTENDS AgentPolicyHook, PolicyTheorems, SequenceTheorems

\* A window sound for the policies c in force and the allowlist a: it is
\* empty when no policy is installed, within the limit and no smaller than
\* today's outflow when one is, and not ahead of the chain unless the hook
\* may be called.
Sound(c, w, a) ==
  /\ c = {} => w = ZeroWindow
  /\ \A p \in c : /\ w.spent <= p.dailyLimit
                  /\ w.day = today => netOut <= w.spent
                  /\ w.day < today => netOut = 0
                  /\ netOut <= p.dailyLimit
  /\ Hook \notin a => w.day <= today

\* What an open frame remembers: a policy was in force when it opened, it is
\* the one the whole operation started under, and its day is still today.
FrameSound(f) ==
  /\ f.saved.config # {}
  /\ f.saved.config = frames[1].saved.config
  /\ f.saved.allowedTarget = allowedTarget
  /\ Sound(f.saved.config, f.saved.window, f.saved.allowedTarget)
  /\ f.hookData.today = today
  /\ f.call.target \in allowedTarget

StackSound == \A i \in 1..Len(frames) : FrameSound(frames[i])

\* Inside an operation the policy is the one it started under, or deleted.
PolicyHeld == frames # <<>> => config \in {{}, frames[1].saved.config}

IInv ==
  /\ TypeOK
  /\ Sound(config, window, allowedTarget)
  /\ StackSound
  /\ PolicyHeld

-----------------------------------------------------------------------------
(* The stack *)

\* The innermost frame of a non-empty stack is a frame, at the stack's last
\* index.
LEMMA TopFacts ==
  ASSUME TypeOK, frames # <<>>
  PROVE  /\ Len(frames) \in Nat \ {0}
         /\ Top \in Frame
         /\ Top = frames[Len(frames)]
         /\ frames[1] \in Frame
<1>1. frames \in Seq(Frame)
  BY DEF TypeOK
<1>2. Len(frames) \in Nat \ {0}
  BY <1>1, EmptySeq
<1> QED BY <1>1, <1>2, LenProperties DEF Top

\* Popping keeps the frames below, and empties the stack exactly when one
\* frame was open.
LEMMA PopFacts ==
  ASSUME TypeOK, frames # <<>>
  PROVE  /\ Popped \in Seq(Frame)
         /\ Len(Popped) = Len(frames) - 1
         /\ \A i \in 1..Len(Popped) : Popped[i] = frames[i]
<1>1. frames \in Seq(Frame) /\ Len(frames) \in Nat \ {0}
  BY TopFacts DEF TypeOK
<1>2. \A i \in 1..(Len(frames) - 1) : frames[i] \in Frame
  BY <1>1, LenProperties
<1> DEFINE n == Len(frames) - 1
<1>3. /\ Popped \in Seq(Frame)
      /\ Len(Popped) = IF 1 <= n THEN n - 1 + 1 ELSE 0
      /\ \A i \in 1..(n - 1 + 1) : Popped[i] = frames[1 + i - 1]
  BY <1>1, <1>2, SubSeqProperties DEF Popped
<1> HIDE DEF n
<1>4. Len(Popped) = n
  <2>1. n \in Nat
    BY <1>1 DEF n
  <2>2. CASE 1 <= n
    BY <1>3, <2>1, <2>2
  <2>3. CASE ~(1 <= n)
    <3>1. n = 0
      BY <2>1, <2>3
    <3>2. Len(Popped) = 0
      BY <1>3, <2>3, Zenon
    <3> QED BY <3>1, <3>2
  <2> QED BY <2>2, <2>3
<1>5. ASSUME NEW i \in 1..Len(Popped) PROVE Popped[i] = frames[i]
  <2>1. i \in 1..(Len(frames) - 1 - 1 + 1) /\ 1 + i - 1 = i
    BY <1>1, <1>4 DEF n
  <2> QED BY <1>3, <2>1 DEF n
<1> QED BY <1>3, <1>4, <1>5 DEF n

\* Marking the innermost call as made changes nothing else of the stack.
LEMMA CallMadeFacts ==
  ASSUME TypeOK, frames # <<>>, CallMade
  PROVE  /\ frames' \in Seq(Frame)
         /\ Len(frames') = Len(frames)
         /\ frames' # <<>>
         /\ \A i \in 1..Len(frames) : /\ frames'[i].saved = frames[i].saved
                                      /\ frames'[i].hookData = frames[i].hookData
                                      /\ frames'[i].call = frames[i].call
<1>1. /\ frames \in Seq(Frame) /\ Len(frames) \in Nat \ {0}
      /\ frames \in [1..Len(frames) -> Frame]
  BY TopFacts, LenProperties DEF TypeOK
<1> DEFINE f == [call |-> Top.call, done |-> TRUE, hookData |-> Top.hookData,
                  saved |-> Top.saved]
<1>2. Top \in Frame /\ Top = frames[Len(frames)]
  BY TopFacts
<1>3. /\ frames' = [frames EXCEPT ![Len(frames)] = f]
      /\ f \in Frame
      /\ f.saved = Top.saved /\ f.hookData = Top.hookData /\ f.call = Top.call
  BY <1>2 DEF CallMade, Frame
<1> HIDE DEF f
<1>4. frames' \in Seq(Frame) /\ Len(frames') = Len(frames)
  BY <1>1, <1>3
<1>5. \A i \in 1..Len(frames) : /\ frames'[i].saved = frames[i].saved
                                /\ frames'[i].hookData = frames[i].hookData
                                /\ frames'[i].call = frames[i].call
  BY <1>1, <1>2, <1>3
<1> QED BY <1>1, <1>4, <1>5, EmptySeq

-----------------------------------------------------------------------------
(* What a postCheck that returns has established *)

\* The types of the five variables a revert restores, one by one.
LEMMA StorageFacts ==
  ASSUME TypeOK
  PROVE  /\ config = {} \/ \E p \in Policies : config = {p}
         /\ window \in Window
         /\ allowedTarget \in SUBSET Addr
         /\ balance \in 0..Supply /\ balance \in Uint
         /\ allowance \in [Parties -> Uint]
BY HookAssumption, MaxUintAssumption DEF TypeOK, Storage, StorageType, Uint

\* The limits of an installed policy are machine integers.
LEMMA PolicyFacts ==
  ASSUME NEW p \in Policies
  PROVE  /\ limitsOf(p) \in Limits
         /\ limitsOf(p).maxTransaction = p.maxTransaction
         /\ limitsOf(p).dailyLimit = p.dailyLimit
         /\ p.maxTransaction \in Uint /\ p.dailyLimit \in Uint
         /\ p.minBalance \in Uint
BY HookAssumption DEF limitsOf, Limits, Policy

\* What a postCheck that returns leaves in the window: a sound one, that
\* counts the outflow it measured on the day it was handed.
LEMMA PostCheckFacts ==
  ASSUME TypeOK, NEW before \in Uint, NEW day \in Day,
         postCheckPasses(before, day)
  PROVE  LET o == measuredOutflow(before, balance)
             w == postCheckWindow(before, day)
         IN  /\ o \in Uint
             /\ o = 0 => w = window
             /\ w \in Window
             /\ \E p \in Policies :
                  /\ config = {p}
                  /\ balance >= p.minBalance
                  /\ o > 0 => /\ o <= p.maxTransaction
                              /\ w.day = day
                              /\ w.spent = base(window, day) + o
                              /\ w.spent <= p.dailyLimit
                              /\ window.day <= day
<1> DEFINE o == measuredOutflow(before, balance)
           w == postCheckWindow(before, day)
<1>1. window \in Window /\ balance \in Uint
  BY StorageFacts
<1>2. o \in Uint
  BY <1>1, MaxUintAssumption DEF measuredOutflow, Uint
<1>3. PICK c \in config :
        /\ o > 0 => ~applySpendReverts(window, limitsOf(c), o, day)
        /\ balance >= c.minBalance
  BY DEF postCheckPasses
<1>4. PICK p \in Policies : config = {p}
  BY <1>3, StorageFacts
<1>5. c = p /\ (CHOOSE x \in config : TRUE) = p
  BY <1>4
<1>6. limitsOf(p) \in Limits /\ limitsOf(p).maxTransaction = p.maxTransaction
      /\ limitsOf(p).dailyLimit = p.dailyLimit
  BY PolicyFacts
<1> HIDE DEF o
<1>7. ASSUME o > 0
      PROVE  /\ w \in Window
             /\ o <= p.maxTransaction
             /\ w.day = day
             /\ w.spent = base(window, day) + o
             /\ w.spent <= p.dailyLimit
             /\ window.day <= day
  <2>1. evaluate(window, limitsOf(p), o, day).decision = "Allow"
    BY <1>3, <1>5, <1>7 DEF applySpendReverts
  <2>2. w = evaluate(window, limitsOf(p), o, day).next
    BY <1>5, <1>7 DEF postCheckWindow, applySpend, o
  <2> HIDE DEF w
  <2>3. w \in Window
    BY <1>1, <1>2, <1>6, <2>2, EvaluateTotal
  <2>4. /\ o <= limitsOf(p).maxTransaction
        /\ w.day = day
        /\ w.spent = base(window, day) + o
        /\ w.spent <= limitsOf(p).dailyLimit
        /\ window.day <= day
    BY <1>1, <1>2, <1>6, <2>1, <2>2, EvaluateAllows
  <2> QED BY <1>6, <2>3, <2>4
<1>8. ASSUME ~(o > 0) PROVE w = window
  BY <1>8 DEF postCheckWindow, o
<1>9. o > 0 <=> o # 0
  BY <1>2 DEF Uint
<1>10. /\ o = 0 => w = window
       /\ w \in Window
  BY <1>1, <1>7, <1>8, <1>9
<1>11. balance >= p.minBalance
  BY <1>3, <1>5
<1> HIDE DEF w
<1> QED BY <1>2, <1>4, <1>7, <1>10, <1>11 DEF o, w

-----------------------------------------------------------------------------
(* Types *)

\* The initial state is well typed.
LEMMA InitType == Init => TypeOK
BY HookAssumption, MaxUintAssumption, EmptySeq
   DEF Init, TypeOK, Storage, StorageType, Window, ZeroWindow, Uint, Day

\* Every step keeps the types, the storage saved in the frames included.
LEMMA NextType ==
  ASSUME TypeOK, [Next]_vars
  PROVE  TypeOK'
<1> DEFINE T == /\ config' \in {{}} \cup {{p} : p \in Policies}
                /\ window' \in Window
                /\ allowedTarget' \in SUBSET Addr
                /\ balance' \in 0..Supply
                /\ allowance' \in [Parties -> Uint]
<1>0. /\ config \in {{}} \cup {{p} : p \in Policies}
      /\ window \in Window
      /\ allowedTarget \in SUBSET Addr
      /\ balance \in 0..Supply
      /\ allowance \in [Parties -> Uint]
      /\ Supply \in Nat /\ Supply <= MaxUint /\ MaxUint \in Nat
      /\ today \in Nat /\ netOut \in Nat
      /\ frames \in Seq(Frame) /\ Len(frames) <= MaxDepth
  BY HookAssumption, MaxUintAssumption DEF TypeOK, Storage, StorageType, Uint, Day
<1>a. ZeroWindow \in Window
  BY MaxUintAssumption DEF ZeroWindow, Window, Uint, Day
<1>b. ASSUME T, today' \in Nat, netOut' \in Nat, frames' \in Seq(Frame),
             Len(frames') <= MaxDepth
      PROVE  TypeOK'
  BY <1>b DEF TypeOK, Storage, StorageType, Day
<1>1. ASSUME NEW p \in Policies, NEW targets \in TargetSets,
             onInstall(p, targets)
      PROVE  TypeOK'
  BY <1>0, <1>1, <1>b, HookAssumption DEF onInstall
<1>2. CASE onUninstall
  BY <1>0, <1>2, <1>a, <1>b DEF onUninstall, deletePolicy
<1>3. ASSUME NEW call \in DistinctCalls, preCheck(call)
      PROVE  TypeOK'
  <2> DEFINE f == [call |-> call, done |-> FALSE,
                   hookData |-> [balanceBefore |-> balance, today |-> today,
                                 target |-> call.target],
                   saved |-> Storage]
  <2>1. f \in Frame
    <3>1. call.target \in Addr
      BY DEF DistinctCalls, Call
    <3> QED BY <1>0, <3>1 DEF Frame, HookData, Uint, Day, TypeOK
  <2>2. frames' = Append(frames, f) /\ Len(frames) < MaxDepth
    BY <1>3 DEF preCheck
  <2> HIDE DEF f
  <2>3. frames' \in Seq(Frame) /\ Len(frames') = Len(frames) + 1
    BY <1>0, <2>1, <2>2, AppendProperties
  <2>4. Len(frames') <= MaxDepth
    BY <1>0, <2>2, <2>3, LenProperties, HookAssumption
  <2> QED BY <1>0, <1>3, <1>b, <2>3, <2>4 DEF preCheck
<1>4. CASE assetCall
  <2>1. /\ frames' \in Seq(Frame) /\ Len(frames') = Len(frames)
        /\ Top \in Frame
    BY <1>4, CallMadeFacts, TopFacts DEF assetCall, Calling
  <2>2. /\ Top.call.amount \in Uint /\ Top.call.party \in Parties
        /\ Account \in Parties
    <3>1. /\ Top.call.amount \in Amounts \cup {0} /\ Top.call.party \in Parties
      BY <2>1 DEF Frame, DistinctCalls, Call
    <3>2. Amounts \cup {0} \subseteq Uint
      BY HookAssumption, MaxUintAssumption DEF Uint
    <3> QED BY <3>1, <3>2, HookAssumption
  <2>3. balance' \in 0..Supply
    BY <1>0, <1>4, <2>2 DEF assetCall, Uint
  <2>4. allowance' \in [Parties -> Uint]
    <3> DEFINE q == Top.call.party
               a == Top.call.amount
    <3>1. \/ allowance' = allowance
          \/ allowance' = [allowance EXCEPT ![q] = a]
          \/ /\ allowance[q] + a <= MaxUint
             /\ allowance' = [allowance EXCEPT ![q] = allowance[q] + a]
          \/ /\ a <= allowance[Account]
             /\ allowance' = [allowance EXCEPT ![Account] =
                               allowance[Account] - a]
      BY <1>4 DEF assetCall
    <3> HIDE DEF q, a
    <3>2. q \in Parties /\ a \in Uint
      BY <2>2 DEF q, a
    <3>3. allowance[q] \in Uint /\ allowance[Account] \in Uint
      BY <1>0, <2>2, <3>2
    <3>4. /\ allowance[q] + a <= MaxUint => allowance[q] + a \in Uint
          /\ a <= allowance[Account] => allowance[Account] - a \in Uint
      BY <1>0, <3>2, <3>3 DEF Uint
    <3> QED BY <1>0, <2>2, <3>1, <3>2, <3>4
  <2> QED BY <1>0, <1>4, <1>b, <2>1, <2>3, <2>4 DEF assetCall
<1>5. CASE hookCall
  <2>1. /\ frames' \in Seq(Frame) /\ Len(frames') = Len(frames)
    BY <1>5, CallMadeFacts DEF hookCall, Calling
  <2>2. window' \in Window /\ config' \in {config, {}}
        /\ allowedTarget' = allowedTarget
    <3>1. CASE deletePolicy
      BY <3>1, <1>a DEF deletePolicy
    <3>2. ASSUME NEW before \in Uint, NEW day \in 0..LastDay,
                 postCheckPasses(before, day),
                 window' = postCheckWindow(before, day),
                 UNCHANGED <<config, allowedTarget>>
          PROVE  window' \in Window /\ config' \in {config, {}}
                 /\ allowedTarget' = allowedTarget
      <4>1. day \in Day
        BY <3>2, HookAssumption DEF Day
      <4>2. postCheckWindow(before, day) \in Window
        BY <3>2, <4>1, PostCheckFacts
      <4> QED BY <3>2, <4>2
    <3> QED BY <1>5, <3>1, <3>2 DEF hookCall
  <2> QED BY <1>0, <1>5, <1>b, <2>1, <2>2 DEF hookCall
<1>6. CASE postCheck
  <2> DEFINE before == Top.hookData.balanceBefore
             day == Top.hookData.today
  <2>1. Top \in Frame /\ before \in Uint /\ day \in Day
    BY <1>6, TopFacts DEF postCheck, Frame, HookData
  <2>2. /\ postCheckWindow(before, day) \in Window
        /\ measuredOutflow(before, balance) \in Uint
    BY <1>6, <2>1, PostCheckFacts DEF postCheck
  <2>3. frames' \in Seq(Frame) /\ Len(frames') = Len(frames) - 1
        /\ Len(frames) \in Nat
    BY <1>6, PopFacts, TopFacts DEF postCheck
  <2>4. netOut' \in Nat
    BY <1>0, <1>6, <2>2 DEF postCheck, Uint
  <2>5. Len(frames') <= MaxDepth
    BY <1>0, <2>3, HookAssumption
  <2> QED BY <1>0, <1>6, <1>b, <2>2, <2>3, <2>4, <2>5 DEF postCheck
<1>7. CASE revertFrame
  <2>1. Top.saved \in StorageType
    BY <1>7, TopFacts DEF revertFrame, Frame
  <2>2. T
    BY <1>7, <2>1 DEF revertFrame, StorageType
  <2>3. frames' \in Seq(Frame) /\ Len(frames') = Len(frames) - 1
        /\ Len(frames) \in Nat
    BY <1>7, PopFacts, TopFacts DEF revertFrame
  <2>4. Len(frames') <= MaxDepth
    BY <1>0, <2>3, HookAssumption
  <2> QED BY <1>0, <1>7, <1>b, <2>2, <2>3, <2>4 DEF revertFrame
<1>8. ASSUME NEW s \in Parties \ {Account}, NEW n \in Amounts, pull(s, n)
      PROVE  TypeOK'
  <2>1. balance' \in 0..Supply /\ allowance' \in [Parties -> Uint]
    BY <1>0, <1>8, HookAssumption DEF pull, Uint
  <2> QED BY <1>0, <1>8, <1>b, <2>1 DEF pull
<1>9. ASSUME NEW n \in Amounts, inflow(n)
      PROVE  TypeOK'
  <2>1. balance' \in 0..Supply
    BY <1>0, <1>9, HookAssumption DEF inflow, Uint
  <2> QED BY <1>0, <1>9, <1>b, <2>1 DEF inflow
<1>10. ASSUME NEW s \in Parties, NEW n \in UnhookedAmounts,
              unhookedExecute(s, n)
       PROVE  TypeOK'
  <2>1. balance' \in 0..Supply /\ allowance' \in [Parties -> Uint]
    BY <1>0, <1>10, HookAssumption DEF unhookedExecute, Uint
  <2> QED BY <1>0, <1>10, <1>b, <2>1 DEF unhookedExecute
<1>11. CASE nextDay
  BY <1>0, <1>11, <1>b DEF nextDay
<1>12. CASE UNCHANGED vars
  BY <1>0, <1>12, <1>b DEF vars
<1> QED
  BY <1>1, <1>2, <1>3, <1>4, <1>5, <1>6, <1>7, <1>8, <1>9, <1>10, <1>11, <1>12
     DEF Next

-----------------------------------------------------------------------------
(* Soundness of the current storage and of every saved one *)

\* A step that at most pops frames, and leaves the allowlist, the day and the
\* history alone, keeps every frame sound.
LEMMA StackKept ==
  ASSUME StackSound, UNCHANGED <<allowedTarget, today, netOut>>,
         Len(frames) \in Nat, Len(frames') \in Nat,
         Len(frames') <= Len(frames),
         \A i \in 1..Len(frames') : /\ frames'[i].saved = frames[i].saved
                                    /\ frames'[i].hookData = frames[i].hookData
                                    /\ frames'[i].call = frames[i].call
  PROVE  StackSound'
<1> SUFFICES ASSUME NEW i \in 1..Len(frames')
             PROVE  FrameSound(frames[i])'
  BY DEF StackSound
<1>1. /\ frames'[i].saved = frames[i].saved
      /\ frames'[i].hookData = frames[i].hookData
      /\ frames'[i].call = frames[i].call
      /\ frames'[1].saved = frames[1].saved
  OBVIOUS
<1>2. FrameSound(frames[i])
  BY DEF StackSound
<1> QED BY <1>1, <1>2 DEF FrameSound, Sound

\* Every step keeps the window, the saved windows and the policy sound: one
\* case per action.
LEMMA NextSound ==
  ASSUME IInv, [Next]_vars
  PROVE  Sound(config, window, allowedTarget)' /\ StackSound' /\ PolicyHeld'
<1> DEFINE G == Sound(config, window, allowedTarget)' /\ StackSound' /\ PolicyHeld'
<1>0. /\ TypeOK /\ Sound(config, window, allowedTarget) /\ StackSound
      /\ PolicyHeld
      /\ frames \in Seq(Frame) /\ Len(frames) \in Nat
      /\ today \in Nat /\ netOut \in Nat /\ window \in Window
  BY StorageFacts, LenProperties DEF IInv, TypeOK, Day
<1>a. ASSUME frames' = <<>> PROVE StackSound' /\ PolicyHeld'
  BY <1>a DEF StackSound, PolicyHeld
<1>b. ASSUME UNCHANGED <<config, window, allowedTarget, today, frames, netOut>>
      PROVE  G
  BY <1>0, <1>b DEF Sound, StackSound, FrameSound, PolicyHeld
<1>1. ASSUME NEW p \in Policies, NEW targets \in TargetSets,
             onInstall(p, targets)
      PROVE  G
  <2>1. /\ frames' = <<>> /\ config' = {p} /\ window' = ZeroWindow
        /\ netOut' = 0 /\ today' = today
    BY <1>0, <1>1 DEF onInstall, Sound
  <2>2. p.dailyLimit \in Nat
    BY PolicyFacts, MaxUintAssumption DEF Uint
  <2> QED BY <1>0, <1>a, <2>1, <2>2 DEF Sound, ZeroWindow
<1>2. CASE onUninstall
  <2>1. /\ frames' = <<>> /\ config' = {} /\ window' = ZeroWindow
        /\ today' = today
    BY <1>2 DEF onUninstall, deletePolicy
  <2> QED BY <1>0, <1>a, <2>1 DEF Sound, ZeroWindow
<1>3. ASSUME NEW call \in DistinctCalls, preCheck(call)
      PROVE  G
  <2> DEFINE f == [call |-> call, done |-> FALSE,
                   hookData |-> [balanceBefore |-> balance, today |-> today,
                                 target |-> call.target],
                   saved |-> Storage]
  <2>1. /\ UNCHANGED <<config, window, allowedTarget, today, netOut>>
        /\ frames' = Append(frames, f)
        /\ config # {} /\ call.target \in allowedTarget
    BY <1>3 DEF preCheck, preCheckPasses
  <2>2. /\ f.saved.config = config /\ f.saved.window = window
        /\ f.saved.allowedTarget = allowedTarget
        /\ f.hookData.today = today /\ f.call.target = call.target
    BY DEF Storage
  <2> HIDE DEF f
  <2>3. /\ Len(frames') = Len(frames) + 1
        /\ \A i \in 1..Len(frames) : frames'[i] = frames[i]
        /\ frames'[Len(frames) + 1] = f
    BY <1>0, <2>1
  <2>4. Sound(config, window, allowedTarget)'
    BY <1>0, <2>1 DEF Sound
  <2>5. config = frames'[1].saved.config
    <3>1. CASE frames = <<>>
      <4>1. Len(frames) = 0
        BY <3>1, <1>0, EmptySeq
      <4> QED BY <2>2, <2>3, <4>1
    <3>2. CASE frames # <<>>
      <4>1. Len(frames) \in Nat \ {0}
        BY <1>0, <3>2, TopFacts
      <4>2. frames'[1] = frames[1]
        BY <2>3, <4>1
      <4> QED BY <1>0, <2>1, <3>2, <4>2 DEF PolicyHeld
    <3> QED BY <3>1, <3>2
  <2>6. ASSUME NEW i \in 1..Len(frames') PROVE FrameSound(frames[i])'
    <3>1. CASE i \in 1..Len(frames)
      <4>1. frames'[i] = frames[i] /\ frames'[1] = frames[1]
        BY <1>0, <2>3, <3>1
      <4>2. FrameSound(frames[i])
        BY <1>0, <3>1 DEF StackSound
      <4> QED BY <2>1, <4>1, <4>2 DEF FrameSound, Sound
    <3>2. CASE i = Len(frames) + 1
      <4>1. frames'[i] = f
        BY <2>3, <3>2
      <4> QED BY <2>1, <2>2, <2>4, <2>5, <4>1 DEF FrameSound, Sound
    <3> QED BY <1>0, <2>3, <2>6, <3>1, <3>2
  <2>7. PolicyHeld'
    BY <2>1, <2>5 DEF PolicyHeld
  <2> QED BY <2>4, <2>6, <2>7 DEF StackSound
<1>4. CASE assetCall
  <2>1. /\ UNCHANGED <<config, window, allowedTarget, today, netOut>>
        /\ frames # <<>> /\ CallMade
    BY <1>4 DEF assetCall, Calling
  <2>2. StackSound' /\ frames'[1].saved = frames[1].saved
    BY <1>0, <2>1, CallMadeFacts, StackKept, TopFacts
  <2> QED BY <1>0, <2>1, <2>2 DEF Sound, PolicyHeld
<1>5. CASE hookCall
  <2>1. /\ UNCHANGED <<allowedTarget, today, netOut>>
        /\ frames # <<>> /\ CallMade /\ Top.call.target = Hook
    BY <1>5 DEF hookCall, Calling, deletePolicy
  <2>2. StackSound' /\ frames'[1].saved = frames[1].saved
    BY <1>0, <2>1, CallMadeFacts, StackKept, TopFacts
  <2>3. Hook \in allowedTarget
    BY <1>0, <2>1, TopFacts DEF StackSound, FrameSound
  <2>4. CASE deletePolicy
    BY <2>1, <2>2, <2>3, <2>4 DEF deletePolicy, Sound, PolicyHeld
  <2>5. ASSUME NEW before \in Uint, NEW day \in 0..LastDay,
               postCheckPasses(before, day),
               window' = postCheckWindow(before, day),
               UNCHANGED <<config, allowedTarget>>
        PROVE  G
    <3> DEFINE o == measuredOutflow(before, balance)
    <3>1. day \in Day
      BY HookAssumption DEF Day
    <3>2. PICK p \in Policies :
            /\ config = {p}
            /\ o \in Uint /\ window' \in Window
            /\ o = 0 => window' = window
            /\ o > 0 => /\ window'.day = day
                        /\ window'.spent = base(window, day) + o
                        /\ window'.spent <= p.dailyLimit
                        /\ window.day <= day
      BY <1>0, <2>5, <3>1, PostCheckFacts
    <3> HIDE DEF o
    <3>3. CASE o = 0
      BY <1>0, <2>1, <2>2, <2>5, <3>2, <3>3 DEF Sound, PolicyHeld
    <3>4. CASE o > 0
      <4>1. Sound(config, window, allowedTarget)'
        BY <1>0, <2>1, <2>3, <2>5, <3>1, <3>2, <3>4
           DEF Sound, base, Window, Uint, Day
      <4>2. PolicyHeld'
        BY <1>0, <2>1, <2>2, <2>5 DEF PolicyHeld
      <4> QED BY <2>2, <4>1, <4>2
    <3> QED BY <3>2, <3>3, <3>4 DEF Uint
  <2>6. \/ deletePolicy
        \/ \E before \in Uint, day \in 0..LastDay :
             /\ postCheckPasses(before, day)
             /\ window' = postCheckWindow(before, day)
             /\ UNCHANGED <<config, allowedTarget>>
    BY <1>5 DEF hookCall
  <2> QED BY <2>4, <2>5, <2>6
<1>6. CASE postCheck
  <2> DEFINE before == Top.hookData.balanceBefore
             day == Top.hookData.today
             o == measuredOutflow(before, balance)
  <2>1. /\ Top \in Frame /\ before \in Uint /\ day \in Day
        /\ Len(frames) \in Nat \ {0} /\ frames # <<>>
        /\ FrameSound(Top)
    BY <1>0, <1>6, TopFacts DEF postCheck, Frame, HookData, StackSound
  <2>2. day = today
    BY <2>1 DEF FrameSound
  <2>3. PICK p \in Policies :
          /\ config = {p}
          /\ o \in Uint /\ window' \in Window
          /\ o = 0 => window' = window
          /\ o > 0 => /\ window'.day = day
                      /\ window'.spent = base(window, day) + o
                      /\ window'.spent <= p.dailyLimit
                      /\ window.day <= day
    BY <1>0, <1>6, <2>1, PostCheckFacts DEF postCheck
  <2>4. /\ UNCHANGED <<config, allowedTarget, today>> /\ frames' = Popped
        /\ netOut' = IF Len(frames) = 1 THEN netOut + o ELSE netOut
    BY <1>6 DEF postCheck
  <2>5. /\ frames' \in Seq(Frame) /\ Len(frames') = Len(frames) - 1
        /\ \A i \in 1..Len(frames') : frames'[i] = frames[i]
    BY <1>0, <2>1, <2>4, PopFacts
  <2> HIDE DEF o, before, day
  <2>6. Sound(config, window, allowedTarget)'
    <3>1. CASE o = 0
      <4>1. netOut' = netOut /\ window' = window
        BY <1>0, <2>3, <2>4, <3>1
      <4> QED BY <1>0, <2>4, <4>1 DEF Sound
    <3>2. CASE o > 0
      <4>1. base(window, today) >= netOut /\ netOut' <= netOut + o
            /\ netOut' \in Nat
        BY <1>0, <2>2, <2>3, <2>4, <3>2 DEF Sound, base, Window, Uint, Day
      <4>2. /\ window'.day = today /\ netOut' <= window'.spent
            /\ window'.spent <= p.dailyLimit /\ netOut' <= p.dailyLimit
        <5>1. /\ window'.day = today
              /\ window'.spent = base(window, today) + o
              /\ window'.spent <= p.dailyLimit
          BY <2>2, <2>3, <3>2
        <5>2. base(window, today) \in Nat /\ o \in Nat /\ p.dailyLimit \in Nat
          <6>1. base(window, today) \in Uint /\ o \in Uint
            BY <1>0, <2>3, BaseType DEF Day
          <6>2. p.dailyLimit \in Uint
            BY PolicyFacts
          <6> QED BY <6>1, <6>2, MaxUintAssumption DEF Uint
        <5> QED BY <1>0, <4>1, <5>1, <5>2
      <4> QED BY <1>0, <2>3, <2>4, <4>2 DEF Sound
    <3> QED BY <2>3, <3>1, <3>2 DEF Uint
  <2>7. CASE Len(frames) = 1
    <3>1. frames' = <<>>
      BY <2>5, <2>7, EmptySeq
    <3>2. StackSound' /\ PolicyHeld'
      BY <1>a, <3>1
    <3> QED BY <2>6, <3>2
  <2>8. CASE Len(frames) # 1
    <3>1. netOut' = netOut /\ Len(frames') \in Nat \ {0}
          /\ frames'[1] = frames[1]
      BY <1>0, <2>1, <2>4, <2>5, <2>8
    <3>2. StackSound'
      BY <1>0, <2>1, <2>4, <2>5, <3>1, StackKept
    <3> QED BY <1>0, <2>1, <2>4, <2>6, <3>1, <3>2 DEF PolicyHeld
  <2> QED BY <2>7, <2>8
<1>7. CASE revertFrame
  <2>1. /\ Top \in Frame /\ Len(frames) \in Nat \ {0} /\ frames # <<>>
        /\ FrameSound(Top)
    BY <1>0, <1>7, TopFacts DEF revertFrame, StackSound
  <2>2. /\ config' = Top.saved.config /\ window' = Top.saved.window
        /\ allowedTarget' = Top.saved.allowedTarget
        /\ UNCHANGED <<today, netOut>> /\ frames' = Popped
    BY <1>7 DEF revertFrame
  <2>3. /\ frames' \in Seq(Frame) /\ Len(frames') = Len(frames) - 1
        /\ \A i \in 1..Len(frames') : frames'[i] = frames[i]
    BY <1>0, <2>1, <2>2, PopFacts
  <2>4. Sound(config, window, allowedTarget)' /\ allowedTarget' = allowedTarget
    BY <2>1, <2>2 DEF FrameSound, Sound
  <2>5. CASE Len(frames) = 1
    <3>1. frames' = <<>>
      BY <2>3, <2>5, EmptySeq
    <3> QED BY <1>a, <2>4, <3>1
  <2>6. CASE Len(frames) # 1
    <3>1. Len(frames') \in Nat \ {0} /\ frames'[1] = frames[1]
      BY <2>1, <2>3, <2>6
    <3>2. StackSound'
      BY <1>0, <2>1, <2>2, <2>3, <2>4, <3>1, StackKept
    <3> QED BY <2>1, <2>2, <2>4, <3>1, <3>2 DEF PolicyHeld, FrameSound
  <2> QED BY <2>5, <2>6
<1>8. ASSUME NEW s \in Parties \ {Account}, NEW n \in Amounts, pull(s, n)
      PROVE  G
  BY <1>8, <1>b DEF pull
<1>9. ASSUME NEW n \in Amounts, inflow(n)
      PROVE  G
  BY <1>9, <1>b DEF inflow
<1>10. ASSUME NEW s \in Parties, NEW n \in UnhookedAmounts,
              unhookedExecute(s, n)
       PROVE  G
  BY <1>10, <1>b DEF unhookedExecute
<1>11. CASE nextDay
  <2>1. /\ frames' = <<>> /\ UNCHANGED <<config, window, allowedTarget>>
        /\ today' = today + 1 /\ netOut' = 0
    BY <1>11 DEF nextDay
  <2>2. \A p \in config : p.dailyLimit \in Nat
    BY <1>0, StorageFacts, PolicyFacts, MaxUintAssumption DEF Uint
  <2> QED BY <1>0, <1>a, <2>1, <2>2 DEF Sound, Window, Uint, Day, ZeroWindow
<1>12. CASE UNCHANGED vars
  BY <1>12, <1>b DEF vars
<1> QED
  BY <1>1, <1>2, <1>3, <1>4, <1>5, <1>6, <1>7, <1>8, <1>9, <1>10, <1>11, <1>12
     DEF Next

-----------------------------------------------------------------------------
(* The theorems *)

\* The inductive invariant of the hook: the current storage and the storage
\* every open execution would restore are sound, for every policy, allowlist
\* and nesting depth (AgentPolicyHook.preCheck and postCheck).
THEOREM InductiveInvariant == Spec => []IInv
<1>1. Init => IInv
  BY InitType, HookAssumption, EmptySeq
     DEF Init, IInv, Sound, ZeroWindow, StackSound, PolicyHeld
<1>2. IInv /\ [Next]_vars => IInv'
  BY NextType, NextSound DEF IInv
<1> QED BY <1>1, <1>2, PTL DEF Spec

\* Types and widths hold at every moment of every nested execution.
THEOREM TypeCorrect == Spec => []TypeOK
<1>1. IInv => TypeOK
  BY DEF IInv
<1> QED BY InductiveInvariant, <1>1, PTL

\* The stored accumulator never exceeds the limit of the policy in force
\* (the repository's invariant_DailySpendNeverExceedsLimit).
THEOREM AccumulatorIsWithinLimit == Spec => []AccumulatorWithinLimit
<1>1. IInv => AccumulatorWithinLimit
  BY DEF IInv, Sound, AccumulatorWithinLimit
<1> QED BY InductiveInvariant, <1>1, PTL

\* The accumulator covers what completed operations took out today, whatever
\* nested inside them, and that is never more than the daily limit
\* (AgentPolicyHook.postCheck).
THEOREM AccumulatorCovers == Spec => []AccumulatorCoversOutflow
<1>1. IInv => AccumulatorCoversOutflow
  BY DEF IInv, Sound, AccumulatorCoversOutflow
<1> QED BY InductiveInvariant, <1>1, PTL

\* While the hook itself is not an allowed target, the stored day is never in
\* the future, so evaluate never refuses a spend as moving backwards.
THEOREM WindowIsNotAhead == Spec => []WindowNotAhead
<1>1. IInv => WindowNotAhead
  BY DEF IInv, Sound, WindowNotAhead
<1> QED BY InductiveInvariant, <1>1, PTL

\* The step that closes an operation closes its only frame.
LEMMA ClosingStep ==
  ASSUME IInv, [Next]_vars, frames # <<>>, frames' = <<>>
  PROVE  /\ postCheck \/ revertFrame
         /\ Len(frames) = 1 /\ Top = frames[1]
<1>0. /\ TypeOK /\ frames \in Seq(Frame) /\ Len(frames) \in Nat \ {0}
      /\ Top = frames[Len(frames)]
  BY TopFacts DEF IInv, TypeOK
<1>1. ~(\E call \in DistinctCalls : preCheck(call))
  <2> SUFFICES ASSUME NEW call \in DistinctCalls, preCheck(call) PROVE FALSE
    OBVIOUS
  <2> DEFINE f == [call |-> call, done |-> FALSE,
                   hookData |-> [balanceBefore |-> balance, today |-> today,
                                 target |-> call.target],
                   saved |-> Storage]
  <2>1. frames' = Append(frames, f)
    BY DEF preCheck
  <2> HIDE DEF f
  <2> QED BY <1>0, <2>1
<1>2. ~assetCall /\ ~hookCall
  BY <1>0, CallMadeFacts DEF assetCall, hookCall
<1>3. postCheck \/ revertFrame
  BY <1>1, <1>2
     DEF Next, vars, onInstall, onUninstall, pull, inflow, unhookedExecute,
         nextDay
<1>4. Len(Popped) = Len(frames) - 1 /\ frames' = Popped
  BY <1>0, <1>3, PopFacts DEF postCheck, revertFrame
<1>5. Len(frames) = 1
  BY <1>0, <1>4, EmptySeq
<1> QED BY <1>0, <1>3, <1>5

\* No operation ends under another policy or allowlist than it began under,
\* for every allowlist, one that holds the hook included
\* (AgentPolicyHook.postCheck's NotInstalled).
THEOREM ExecutionsKeepPolicy == Spec => ExecutionKeepsPolicy
<1> DEFINE K == frames # <<>> /\ frames' = <<>> =>
                  /\ config' = frames[1].saved.config
                  /\ allowedTarget' = frames[1].saved.allowedTarget
<1>1. IInv /\ [Next]_vars => [K]_vars
  <2> SUFFICES ASSUME IInv, [Next]_vars, frames # <<>>, frames' = <<>>
               PROVE  /\ config' = frames[1].saved.config
                      /\ allowedTarget' = frames[1].saved.allowedTarget
    OBVIOUS
  <2>1. /\ postCheck \/ revertFrame
        /\ Top = frames[1] /\ Len(frames) = 1
    BY ClosingStep
  <2>2. CASE revertFrame
    BY <2>1, <2>2 DEF revertFrame
  <2>3. CASE postCheck
    <3>1. config # {} /\ UNCHANGED <<config, allowedTarget>>
      BY <2>3 DEF postCheck, postCheckPasses
    <3>2. FrameSound(frames[1])
      BY <2>1 DEF IInv, StackSound
    <3> QED BY <3>1, <3>2 DEF IInv, PolicyHeld, FrameSound
  <2> QED BY <2>1, <2>2, <2>3
<1> QED BY InductiveInvariant, <1>1, PTL DEF Spec, ExecutionKeepsPolicy

\* An operation that leaves the account below the floor of the policy in
\* force has reverted as a whole (the minBalance check of postCheck, which
\* runs whether or not anything left).
THEOREM FloorKept == Spec => FloorHolds
<1> DEFINE K == \A p \in config :
                  frames # <<>> /\ frames' = <<>> /\ balance' < p.minBalance
                    => Storage' = frames[1].saved
<1>1. IInv /\ [Next]_vars => [K]_vars
  <2> SUFFICES ASSUME IInv, [Next]_vars, NEW p \in config, frames # <<>>,
                      frames' = <<>>, balance' < p.minBalance
               PROVE  Storage' = frames[1].saved
    OBVIOUS
  <2>1. /\ postCheck \/ revertFrame
        /\ Top = frames[1]
    BY ClosingStep
  <2>2. TypeOK /\ Top \in Frame
    BY TopFacts DEF IInv
  <2>3. CASE revertFrame
    <3>1. Storage' = [config |-> Top.saved.config, window |-> Top.saved.window,
                      allowedTarget |-> Top.saved.allowedTarget,
                      balance |-> Top.saved.balance,
                      allowance |-> Top.saved.allowance]
      BY <2>3 DEF revertFrame, Storage
    <3>2. Top.saved \in StorageType
      BY <2>2 DEF Frame
    <3> QED BY <2>1, <3>1, <3>2 DEF StorageType
  <2>4. CASE postCheck
    <3>1. /\ Top.hookData.balanceBefore \in Uint /\ Top.hookData.today \in Day
      BY <2>2 DEF Frame, HookData
    <3>2. PICK q \in Policies : config = {q} /\ balance >= q.minBalance
      BY <2>2, <2>4, <3>1, PostCheckFacts DEF postCheck
    <3>3. balance' = balance /\ p = q
      BY <2>4, <3>2 DEF postCheck
    <3>4. balance \in Nat /\ q.minBalance \in Nat
      BY <2>2, StorageFacts, PolicyFacts, MaxUintAssumption DEF Uint
    <3> QED BY <3>2, <3>3, <3>4
  <2> QED BY <2>1, <2>3, <2>4
<1> QED BY InductiveInvariant, <1>1, PTL DEF Spec, FloorHolds

-----------------------------------------------------------------------------
(* Allowances *)

\* Against the allowances a, only allowlisted spenders gained since the
\* operation began.
Granted(a) ==
  \A s \in Parties :
    a[s] > frames[1].saved.allowance[s] => s \in allowedTarget

\* The spender or recipient an open call on the asset names is allowlisted.
PartyAllowed(f) ==
  f.call.target = Asset => decodeErc20Counterparty(f.call) \subseteq allowedTarget

\* A revert must not bring back a grant either, so what the open frames saved
\* counts as well as what is in force.
GrantsHeld ==
  frames # <<>> =>
    /\ Granted(allowance)
    /\ \A i \in 1..Len(frames) :
         Granted(frames[i].saved.allowance) /\ PartyAllowed(frames[i])

\* A step that keeps the frames of a non-empty stack, or drops the innermost,
\* and the allowlist keeps what GrantsHeld says of the frames.
LEMMA GrantsKept ==
  ASSUME IInv, GrantsHeld, frames # <<>>, Len(frames') \in Nat \ {0},
         Len(frames') <= Len(frames),
         \A i \in 1..Len(frames') : /\ frames'[i].saved = frames[i].saved
                                    /\ frames'[i].call = frames[i].call,
         allowedTarget' = allowedTarget,
         Granted(allowance')
  PROVE  GrantsHeld'
<1>0. Len(frames) \in Nat \ {0}
  BY TopFacts DEF IInv
<1>1. frames'[1].saved = frames[1].saved
  OBVIOUS
<1>2. Granted(allowance)'
  BY <1>1 DEF Granted
<1>3. ASSUME NEW i \in 1..Len(frames')
      PROVE  (Granted(frames[i].saved.allowance) /\ PartyAllowed(frames[i]))'
  <2>1. i \in 1..Len(frames)
    BY <1>0, <1>3
  <2>2. Granted(frames[i].saved.allowance) /\ PartyAllowed(frames[i])
    BY <2>1 DEF GrantsHeld
  <2>3. /\ frames'[i].saved = frames[i].saved
        /\ frames'[i].call = frames[i].call
    BY <1>3
  <2> QED BY <1>1, <2>2, <2>3
             DEF Granted, PartyAllowed, decodeErc20Counterparty
<1> QED BY <1>2, <1>3 DEF GrantsHeld

\* With an asset whose only way to grant is approve, no step gives a spender
\* outside the allowlist more than the operation found.
LEMMA NextGrants ==
  ASSUME Extras = {}, IInv, GrantsHeld, [Next]_vars
  PROVE  GrantsHeld'
<1>0. /\ TypeOK /\ frames \in Seq(Frame) /\ Len(frames) \in Nat
      /\ allowance \in [Parties -> Uint] /\ StackSound
      /\ MaxUint \in Nat
  BY StorageFacts, LenProperties, MaxUintAssumption DEF IInv, TypeOK
<1>a. ASSUME frames' = <<>> PROVE GrantsHeld'
  BY <1>a DEF GrantsHeld
<1>b. ASSUME frames # <<>>
      PROVE  /\ frames[1].saved.allowance \in [Parties -> Uint]
             /\ Granted(allowance) /\ Len(frames) \in Nat \ {0}
  BY <1>0, <1>b, TopFacts DEF Frame, StorageType, GrantsHeld
<1>1. ASSUME NEW call \in DistinctCalls, preCheck(call)
      PROVE  GrantsHeld'
  <2> DEFINE f == [call |-> call, done |-> FALSE,
                   hookData |-> [balanceBefore |-> balance, today |-> today,
                                 target |-> call.target],
                   saved |-> Storage]
  <2>1. /\ frames' = Append(frames, f)
        /\ UNCHANGED <<allowance, allowedTarget>>
        /\ preCheckPasses(call)
    BY <1>1 DEF preCheck
  <2>2. f.call = call /\ f.saved.allowance = allowance
    BY DEF Storage
  <2> HIDE DEF f
  <2>3. /\ Len(frames') = Len(frames) + 1 /\ frames' # <<>>
        /\ \A i \in 1..Len(frames) : frames'[i] = frames[i]
        /\ frames'[Len(frames')] = f
    BY <1>0, <2>1
  <2>4. PartyAllowed(f)
    BY <2>1, <2>2 DEF preCheckPasses, PartyAllowed
  <2>5. CASE frames = <<>>
    <3>1. Len(frames') = 1 /\ frames'[1] = f
      BY <2>3, <2>5, EmptySeq
    <3>2. Granted(allowance)' /\ Granted(frames[1].saved.allowance)'
      <4>1. \A s \in Parties : ~(allowance[s] > allowance[s])
        BY <1>0 DEF Uint
      <4> QED BY <2>1, <2>2, <3>1, <4>1 DEF Granted
    <3>3. PartyAllowed(frames[1])'
      BY <2>1, <2>4, <3>1 DEF PartyAllowed
    <3> QED BY <3>1, <3>2, <3>3 DEF GrantsHeld
  <2>6. CASE frames # <<>>
    <3>1. /\ Len(frames) \in Nat \ {0} /\ frames'[1] = frames[1]
          /\ Granted(allowance)
      BY <1>b, <2>3, <2>6
    <3>2. Granted(allowance)'
      BY <2>1, <3>1 DEF Granted
    <3>3. ASSUME NEW i \in 1..Len(frames')
          PROVE  /\ Granted(frames'[i].saved.allowance)
                 /\ PartyAllowed(frames'[i])
      <4>1. CASE i \in 1..Len(frames)
        BY <2>3, <2>6, <4>1 DEF GrantsHeld
      <4>2. CASE i \notin 1..Len(frames)
        <5>1. frames'[i] = f
          BY <1>0, <2>3, <4>2
        <5> QED BY <2>2, <2>4, <3>1, <5>1
      <4> QED BY <4>1, <4>2
    <3>4. \A i \in 1..Len(frames') :
            (Granted(frames[i].saved.allowance) /\ PartyAllowed(frames[i]))'
      BY <2>1, <3>1, <3>3 DEF Granted, PartyAllowed
    <3> QED BY <3>2, <3>4 DEF GrantsHeld
  <2> QED BY <2>5, <2>6
<1>2. CASE assetCall
  <2>1. /\ frames # <<>> /\ CallMade /\ Top.call.target = Asset
        /\ allowedTarget' = allowedTarget
    BY <1>2 DEF assetCall, Calling
  <2>2. /\ Top \in Frame /\ Top = frames[Len(frames)]
        /\ Len(frames) \in 1..Len(frames)
    BY <1>0, <2>1, TopFacts
  <2>3. PartyAllowed(Top)
    BY <2>1, <2>2 DEF GrantsHeld
  <2> DEFINE q == Top.call.party
             a == Top.call.amount
  <2>4. /\ q \in Parties /\ Account \in Parties
        /\ a \in Uint /\ Top.call.method # "increaseAllowance"
    <3>1. /\ Top.call.method \in Methods /\ Top.call.party \in Parties
          /\ Top.call.amount \in Amounts \cup {0}
      BY <2>2 DEF Frame, DistinctCalls, Call
    <3>2. Amounts \cup {0} \subseteq Uint
      BY HookAssumption, MaxUintAssumption DEF Uint
    <3>3. Top.call.method # "increaseAllowance"
      BY <3>1 DEF Methods
    <3> QED BY <3>1, <3>2, <3>3, HookAssumption
  <2>5. \/ allowance' = allowance
        \/ /\ q \in allowedTarget
           /\ allowance' = [allowance EXCEPT ![q] = a]
        \/ /\ a <= allowance[Account]
           /\ allowance' = [allowance EXCEPT ![Account] = allowance[Account] - a]
    <3>1. Top.call.method = "approve" => q \in allowedTarget
      BY <2>1, <2>3 DEF PartyAllowed, decodeErc20Counterparty
    <3> QED BY <1>2, <2>4, <3>1 DEF assetCall
  <2> HIDE DEF q, a
  <2>6. Granted(allowance')
    <3> SUFFICES ASSUME NEW s \in Parties,
                        allowance'[s] > frames[1].saved.allowance[s]
                 PROVE  s \in allowedTarget
      BY DEF Granted
    <3>1. /\ allowance[s] \in Nat /\ frames[1].saved.allowance[s] \in Nat
          /\ allowance[Account] \in Nat /\ a \in Nat
      BY <1>0, <1>b, <2>1, <2>4 DEF Uint
    <3>2. s \in allowedTarget \/ allowance'[s] <= allowance[s]
      BY <1>0, <2>4, <2>5, <3>1
    <3>3. allowance[s] > frames[1].saved.allowance[s] => s \in allowedTarget
      BY <1>b, <2>1 DEF Granted
    <3>4. CASE allowance'[s] <= allowance[s]
      <4>1. allowance'[s] \in Nat
        BY <1>0, <2>4, <2>5, <3>1
      <4> QED BY <3>1, <3>3, <3>4, <4>1
    <3> QED BY <3>2, <3>4
  <2>7. /\ Len(frames') = Len(frames) /\ Len(frames') \in Nat \ {0}
        /\ \A i \in 1..Len(frames) : /\ frames'[i].saved = frames[i].saved
                                     /\ frames'[i].call = frames[i].call
    BY <1>0, <1>b, <2>1, CallMadeFacts
  <2> QED BY <1>0, <2>1, <2>6, <2>7, GrantsKept
<1>3. CASE hookCall
  <2>1. /\ frames # <<>> /\ CallMade /\ UNCHANGED <<allowance, allowedTarget>>
    BY <1>3 DEF hookCall, Calling, deletePolicy
  <2>2. /\ Len(frames') = Len(frames) /\ Len(frames') \in Nat \ {0}
        /\ \A i \in 1..Len(frames) : /\ frames'[i].saved = frames[i].saved
                                     /\ frames'[i].call = frames[i].call
    BY <1>0, <1>b, <2>1, CallMadeFacts
  <2>3. Granted(allowance')
    BY <1>b, <2>1
  <2> QED BY <1>0, <2>1, <2>2, <2>3, GrantsKept
<1>4. CASE postCheck \/ revertFrame
  <2>1. frames # <<>> /\ frames' = Popped
    BY <1>4 DEF postCheck, revertFrame
  <2>2. /\ Len(frames') = Len(frames) - 1
        /\ \A i \in 1..Len(frames') : frames'[i] = frames[i]
        /\ Len(frames) \in Nat \ {0} /\ frames' \in Seq(Frame)
    BY <1>0, <2>1, PopFacts, TopFacts
  <2>3. CASE Len(frames) = 1
    BY <1>a, <2>2, <2>3, EmptySeq
  <2>4. CASE Len(frames) # 1
    <3>1. /\ Top = frames[Len(frames)] /\ Len(frames) \in 1..Len(frames)
      BY <1>0, <2>1, <2>2, TopFacts
    <3>2. Granted(Top.saved.allowance) /\ FrameSound(Top) /\ Granted(allowance)
      BY <1>0, <2>1, <3>1 DEF GrantsHeld, StackSound
    <3>3. allowance' \in {allowance, Top.saved.allowance}
          /\ allowedTarget' = allowedTarget
      BY <1>4, <3>2 DEF postCheck, revertFrame, FrameSound
    <3>4. Granted(allowance')
      BY <3>2, <3>3
    <3>5. Len(frames') \in Nat \ {0} /\ Len(frames') <= Len(frames)
      BY <2>2, <2>4
    <3> QED BY <2>1, <2>2, <3>3, <3>4, <3>5, GrantsKept
  <2> QED BY <2>3, <2>4
<1>5. ASSUME NEW s \in Parties \ {Account}, NEW n \in Amounts, pull(s, n)
      PROVE  GrantsHeld'
  <2>1. /\ UNCHANGED <<frames, allowedTarget>> /\ n <= allowance[s]
        /\ allowance' = [allowance EXCEPT ![s] = allowance[s] - n]
    BY <1>5 DEF pull
  <2>2. CASE frames = <<>>
    BY <1>a, <2>1, <2>2
  <2>3. CASE frames # <<>>
    <3>1. n \in Nat
      BY HookAssumption DEF Uint
    <3>2. ASSUME NEW t \in Parties,
                 allowance'[t] > frames[1].saved.allowance[t]
          PROVE  t \in allowedTarget
      <4>1. /\ allowance[t] \in Nat /\ frames[1].saved.allowance[t] \in Nat
            /\ allowance[s] \in Nat
        BY <1>0, <1>b, <2>3 DEF Uint
      <4>2. allowance'[t] \in Nat /\ allowance'[t] <= allowance[t]
        BY <1>0, <2>1, <3>1, <4>1
      <4>3. allowance[t] > frames[1].saved.allowance[t] => t \in allowedTarget
        BY <1>b, <2>3 DEF Granted
      <4> QED BY <3>2, <4>1, <4>2, <4>3
    <3>3. Granted(allowance')
      BY <3>2 DEF Granted
    <3> QED BY <1>b, <2>1, <2>3, <3>3, GrantsKept
  <2> QED BY <2>2, <2>3
<1>6. CASE UNCHANGED <<frames, allowance, allowedTarget>>
  BY <1>6 DEF GrantsHeld, Granted, PartyAllowed
<1> QED
  BY <1>1, <1>2, <1>3, <1>4, <1>5, <1>6, <1>a
     DEF Next, onInstall, onUninstall, inflow, unhookedExecute, nextDay, vars

\* No operation on an asset whose only granting method is approve leaves a
\* spender outside the allowlist with more than it had, however executions
\* nest and whichever of them revert (preCheck's counterparty check).  The
\* hypothesis is needed: a token with increaseAllowance breaks the property.
THEOREM SpendersAreAllowlisted ==
  ASSUME Extras = {}
  PROVE  Spec => SpendersAllowlisted
<1> DEFINE K == frames # <<>> /\ frames' = <<>> =>
                  \A s \in Parties :
                    allowance'[s] > frames[1].saved.allowance[s]
                      => s \in allowedTarget
<1>1. Init => GrantsHeld
  BY DEF Init, GrantsHeld
<1>2. IInv /\ GrantsHeld /\ [Next]_vars => GrantsHeld'
  BY NextGrants
<1>3. IInv /\ GrantsHeld /\ [Next]_vars => [K]_vars
  <2> SUFFICES ASSUME IInv, GrantsHeld, [Next]_vars, frames # <<>>,
                      frames' = <<>>
               PROVE  Granted(allowance')
    BY DEF Granted
  <2>1. /\ postCheck \/ revertFrame
        /\ Top = frames[1] /\ Len(frames) = 1
    BY ClosingStep
  <2>2. Granted(allowance) /\ Granted(Top.saved.allowance)
    BY <2>1 DEF GrantsHeld
  <2> QED BY <2>1, <2>2 DEF postCheck, revertFrame
<1> QED
  BY <1>1, <1>2, <1>3, InductiveInvariant, PTL DEF Spec, SpendersAllowlisted

-----------------------------------------------------------------------------
(* The hook implements the budget *)

\* The policy the owner sees: the one in force when the operation began.
budgetPolicy == IF frames = <<>> THEN config ELSE frames[1].saved.config

\* A step that leaves the mapped policy, day and outflow alone is a stutter
\* of the budget.
LEMMA BudgetStutter ==
  ASSUME UNCHANGED <<today, netOut>>, budgetPolicy' = budgetPolicy
  PROVE  UNCHANGED Budget!vars
BY DEF Budget!vars, budgetPolicy

\* Every behaviour of the hook is one of SpendBudget: each operation takes at
\* most maxTransaction, the operations of a day at most dailyLimit, and only
\* the owner's installs and uninstalls change the policy, for every policy,
\* allowlist, supply and nesting depth (AgentPolicyHook.sol).
THEOREM HookImplementsBudget == Spec => ImplementsBudget
<1>1. Init => Budget!Init
  BY DEF Init, Budget!Init
<1>2. ASSUME IInv, IInv', [Next]_vars PROVE [Budget!Next]_(Budget!vars)
  <2>0. /\ TypeOK /\ frames \in Seq(Frame) /\ Len(frames) \in Nat
        /\ netOut \in Nat /\ netOut' \in Nat /\ PolicyHeld
    BY <1>2, LenProperties DEF IInv, TypeOK
  <2>1. ASSUME NEW p \in Policies, NEW targets \in TargetSets,
               onInstall(p, targets)
        PROVE  Budget!Next
    <3>1. Budget!Adopt
      BY <2>1 DEF onInstall, Budget!Adopt
    <3> QED BY <3>1 DEF Budget!Next
  <2>2. CASE onUninstall
    <3>1. Budget!Drop
      BY <2>2 DEF onUninstall, deletePolicy, Budget!Drop
    <3> QED BY <3>1 DEF Budget!Next
  <2>3. ASSUME NEW call \in DistinctCalls, preCheck(call)
        PROVE  UNCHANGED Budget!vars
    <3> DEFINE f == [call |-> call, done |-> FALSE,
                     hookData |-> [balanceBefore |-> balance, today |-> today,
                                   target |-> call.target],
                     saved |-> Storage]
    <3>1. frames' = Append(frames, f) /\ UNCHANGED <<today, netOut>>
      BY <2>3 DEF preCheck
    <3>2. f.saved.config = config
      BY DEF Storage
    <3> HIDE DEF f
    <3>3. frames' # <<>>
      BY <2>0, <3>1
    <3>4. frames'[1].saved.config = budgetPolicy
      <4>1. CASE frames = <<>>
        <5>1. frames'[1] = f
          BY <3>1, <4>1
        <5> QED BY <3>2, <4>1, <5>1 DEF budgetPolicy
      <4>2. CASE frames # <<>>
        <5>1. frames'[1] = frames[1]
          BY <2>0, <3>1, <4>2, TopFacts
        <5> QED BY <4>2, <5>1 DEF budgetPolicy
      <4> QED BY <4>1, <4>2
    <3>5. budgetPolicy' = budgetPolicy
      BY <3>3, <3>4 DEF budgetPolicy
    <3> QED BY <3>1, <3>5, BudgetStutter
  <2>4. CASE assetCall \/ hookCall
    <3>1. /\ frames # <<>> /\ CallMade /\ UNCHANGED <<today, netOut>>
      BY <2>4 DEF assetCall, hookCall, Calling
    <3>2. frames' # <<>> /\ frames'[1].saved = frames[1].saved
      BY <2>0, <3>1, CallMadeFacts, TopFacts
    <3>3. budgetPolicy' = budgetPolicy
      BY <3>1, <3>2 DEF budgetPolicy
    <3> QED BY <3>1, <3>3, BudgetStutter
  <2>5. ASSUME frames # <<>>, frames' = Popped, Len(frames) # 1
        PROVE  budgetPolicy' = budgetPolicy
    <3>1. Len(frames') \in Nat \ {0} /\ frames'[1] = frames[1]
      BY <2>0, <2>5, PopFacts, TopFacts
    <3>2. frames' # <<>>
      BY <3>1, EmptySeq
    <3> QED BY <2>5, <3>1, <3>2 DEF budgetPolicy
  <2>6. ASSUME frames # <<>>, frames' = Popped, Len(frames) = 1
        PROVE  frames' = <<>> /\ Top = frames[1]
    BY <2>0, <2>6, PopFacts, TopFacts, EmptySeq
  <2>7. CASE revertFrame
    <3>1. frames # <<>> /\ frames' = Popped /\ UNCHANGED <<today, netOut>>
          /\ config' = Top.saved.config
      BY <2>7 DEF revertFrame
    <3>2. budgetPolicy' = budgetPolicy
      BY <2>5, <2>6, <3>1 DEF budgetPolicy
    <3> QED BY <3>1, <3>2, BudgetStutter
  <2>8. CASE postCheck /\ Len(frames) # 1
    <3>1. frames # <<>> /\ frames' = Popped /\ UNCHANGED <<today, netOut>>
      BY <2>8 DEF postCheck
    <3> QED BY <2>5, <2>8, <3>1, BudgetStutter
  <2>9. CASE postCheck /\ Len(frames) = 1
    <3> DEFINE o == measuredOutflow(Top.hookData.balanceBefore, balance)
    <3>1. /\ frames # <<>> /\ frames' = <<>> /\ UNCHANGED <<config, today>>
          /\ netOut' = netOut + o
      BY <2>6, <2>9 DEF postCheck
    <3>2. /\ Top.hookData.balanceBefore \in Uint /\ Top.hookData.today \in Day
      BY <2>0, <3>1, TopFacts DEF Frame, HookData
    <3>3. PICK p \in Policies : /\ config = {p} /\ o \in Uint
                                /\ o > 0 => o <= p.maxTransaction
      BY <2>0, <2>9, <3>2, PostCheckFacts DEF postCheck
    <3> HIDE DEF o
    <3>4. o \in Nat /\ o <= p.maxTransaction
      <4>1. p.maxTransaction \in Uint
        BY PolicyFacts
      <4> QED BY <3>3, <4>1, MaxUintAssumption DEF Uint
    <3>5. netOut' <= p.dailyLimit
      BY <1>2, <3>1, <3>3 DEF IInv, Sound
    <3>6. frames[1].saved.config = config
      BY <2>0, <3>1, <3>3 DEF PolicyHeld
    <3>7. 0 <= netOut' - netOut /\ netOut' - netOut <= p.maxTransaction
      BY <2>0, <3>1, <3>4
    <3>8. Budget!Spend
      BY <3>1, <3>3, <3>5, <3>6, <3>7 DEF Budget!Spend
    <3> QED BY <3>8 DEF Budget!Next
  <2>10. ASSUME UNCHANGED <<config, today, frames, netOut>>
         PROVE  UNCHANGED Budget!vars
    BY <2>10, BudgetStutter DEF budgetPolicy
  <2>11. CASE nextDay
    <3>1. Budget!Tomorrow
      BY <2>11 DEF nextDay, Budget!Tomorrow
    <3> QED BY <3>1 DEF Budget!Next
  <2>12. CASE \/ \E s \in Parties \ {Account}, n \in Amounts : pull(s, n)
              \/ \E n \in Amounts : inflow(n)
              \/ \E s \in Parties, n \in UnhookedAmounts : unhookedExecute(s, n)
              \/ UNCHANGED vars
    BY <2>10, <2>12 DEF pull, inflow, unhookedExecute, vars
  <2> QED
    BY <1>2, <2>1, <2>2, <2>3, <2>4, <2>7, <2>8, <2>9, <2>11, <2>12 DEF Next
<1> QED
  BY <1>1, <1>2, InductiveInvariant, PTL
     DEF Spec, ImplementsBudget, Budget!Spec
=============================================================================
