-------------------------- MODULE LifecycleProofs --------------------------
(***************************************************************************)
(* What Lifecycle's safety properties rest on, for every number of         *)
(* interrupts and crashes: the generator's stack of functions and          *)
(* handlers, how far startup has come, and which of the others the cleanup *)
(* has dealt with.                                                         *)
(***************************************************************************)
EXTENDS Lifecycle, SequenceTheorems, TLAPS

-----------------------------------------------------------------------------
(* The generator's stack: main at the bottom, checkChildProcess and        *)
(* pgClearResources at most once each above it.                            *)

MainLines  == {"semaphores", "handlers", "arguments", "createScheduler", "schedulerPID",
               "createClk", "clkPID", "file", "msgget", "syncClk", "loop", "waitpid"}
ClearLines == {"objects", "killClock", "waitClock", "killScheduler", "waitScheduler", "exit"}
CheckLines == {"poll", "killClock", "waitClock", "killScheduler", "waitScheduler"}
Lines      == MainLines \cup ClearLines \cup CheckLines

Frames == [function : {"main", "pgClearResources", "checkChildProcess"}, line : Lines]

StackTyped == stack \in Seq(Frames) /\ stack # <<>>

MainBelow == \A i \in DOMAIN stack : stack[i].function = "main" <=> i = Len(stack)

ClearedOnce == pgCleared <=> Running("pgClearResources") # {}

StackInv ==
    /\ StackTyped /\ MainBelow
    /\ Once("pgClearResources") /\ Once("checkChildProcess")
    /\ ClearedOnce

(* Where main is, and whether the cleanup or the SIGCHLD handler is at a   *)
(* line, whatever interrupts it.                                           *)
MainLine == stack[Len(stack)].line
ClearAt(line) == \E i \in DOMAIN stack : stack[i] = Frame("pgClearResources", line)
CheckAt(line) == \E i \in DOMAIN stack : stack[i] = Frame("checkChildProcess", line)

LEMMA TopFrame ==
    ASSUME StackInv
    PROVE  /\ Top = stack[1] /\ Top \in Frames /\ Len(stack) \in Nat \ {0}
           /\ DOMAIN stack = 1..Len(stack)
           /\ \A i \in DOMAIN stack : stack[i] \in Frames
  <1>1. stack \in Seq(Frames) /\ Len(stack) \in Nat \ {0} /\ DOMAIN stack = 1..Len(stack)
    BY DEF StackInv, StackTyped
  <1>2. \A i \in DOMAIN stack : stack[i] \in Frames
    BY <1>1, ElementOfSeq
  <1>3. Top = stack[1] /\ 1 \in DOMAIN stack
    BY <1>1 DEF Top
  <1> QED
    BY <1>1, <1>2, <1>3

LEMMA FrameOfTop ==
    ASSUME StackInv
    PROVE  /\ Top.function = "pgClearResources" => ClearAt(Top.line) /\ pgCleared
           /\ Top.function = "checkChildProcess" => CheckAt(Top.line)
           /\ Top.function = "main" => /\ Len(stack) = 1 /\ Top.line = MainLine /\ ~pgCleared
                                       /\ \A l : ~ClearAt(l) /\ ~CheckAt(l)
           /\ \A l : ClearAt(l) => pgCleared
  <1>1. /\ Top = stack[1] /\ Top \in Frames /\ Len(stack) \in Nat \ {0}
        /\ 1 \in DOMAIN stack /\ DOMAIN stack = 1..Len(stack)
    BY TopFrame
  <1>2. Top = Frame(Top.function, Top.line)
    BY <1>1 DEF Frames, Frame
  <1>3. Top.function = "main" => Len(stack) = 1
    BY <1>1 DEF StackInv, MainBelow
  <1>4. ASSUME Top.function = "main" PROVE ~pgCleared /\ \A l : ~ClearAt(l) /\ ~CheckAt(l)
    <2>1. \A i \in DOMAIN stack : stack[i].function = "main"
      <3>1. Len(stack) = 1
        BY <1>3, <1>4
      <3>2. \A i \in DOMAIN stack : i = 1
        BY <1>1, <3>1
      <3>3. stack[1].function = "main"
        BY <1>1, <1>4
      <3> QED
        BY <3>2, <3>3
    <2>2. Running("pgClearResources") = {}
      BY <2>1 DEF Running
    <2>3. \A l : ~ClearAt(l) /\ ~CheckAt(l)
      BY <2>1 DEF ClearAt, CheckAt, Frame
    <2> QED
      BY <2>2, <2>3 DEF StackInv, ClearedOnce
  <1>5. Top.function = "pgClearResources" => pgCleared
    BY <1>1 DEF StackInv, ClearedOnce, Running
  <1>6. \A l : ClearAt(l) => pgCleared
    BY DEF ClearAt, StackInv, ClearedOnce, Running, Frame
  <1> QED
    BY <1>1, <1>2, <1>3, <1>4, <1>5, <1>6 DEF ClearAt, CheckAt, MainLine

LEMMA GotoFrames ==
    ASSUME StackInv, NEW line \in Lines, Goto(line)
    PROVE  /\ stack' \in Seq(Frames) /\ Len(stack') = Len(stack)
           /\ stack'[1] = Frame(Top.function, line)
           /\ \A i \in 2..Len(stack) : stack'[i] = stack[i]
  <1> DEFINE f == [Top EXCEPT !.line = line]
  <1>1. f \in Frames /\ f = Frame(Top.function, line)
    BY TopFrame DEF Frames, Frame
  <1>2. /\ Tail(stack) \in Seq(Frames) /\ Len(Tail(stack)) = Len(stack) - 1
        /\ \A i \in 1..(Len(stack) - 1) : Tail(stack)[i] = stack[i + 1]
    BY HeadTailProperties DEF StackInv, StackTyped
  <1>3. <<f>> \in Seq(Frames) /\ Len(<<f>>) = 1 /\ <<f>>[1] = f
    BY <1>1
  <1>4. stack' = <<f>> \o Tail(stack)
    BY DEF Goto
  <1> HIDE DEF f
  <1>5. /\ stack' \in Seq(Frames) /\ Len(stack') = 1 + Len(Tail(stack))
        /\ \A i \in 1..(1 + Len(Tail(stack))) :
              stack'[i] = IF i <= 1 THEN <<f>>[i] ELSE Tail(stack)[i - 1]
    BY <1>2, <1>3, <1>4, ConcatProperties
  <1> QED
    BY <1>1, <1>2, <1>3, <1>5, TopFrame

(* A frame pushed on the stack.                                            *)
LEMMA PushFrames ==
    ASSUME NEW s \in Seq(Frames), NEW f \in Frames
    PROVE  /\ <<f>> \o s \in Seq(Frames) /\ Len(<<f>> \o s) = Len(s) + 1
           /\ (<<f>> \o s)[1] = f
           /\ \A i \in 1..Len(s) : (<<f>> \o s)[i + 1] = s[i]
  <1>1. <<f>> \in Seq(Frames) /\ Len(<<f>>) = 1 /\ <<f>>[1] = f
    OBVIOUS
  <1>2. /\ <<f>> \o s \in Seq(Frames) /\ Len(<<f>> \o s) = Len(<<f>>) + Len(s)
        /\ \A i \in 1..(Len(<<f>>) + Len(s)) :
              (<<f>> \o s)[i] = IF i <= Len(<<f>>) THEN <<f>>[i] ELSE s[i - Len(<<f>>)]
    BY <1>1, ConcatProperties
  <1> QED
    BY <1>1, <1>2

-----------------------------------------------------------------------------
(* What a step does to the stack: the function on top goes to another      *)
(* line, the cleanup is called, or a handler is entered or left.           *)

GotoSteps(line) ==
    /\ MainLine' = IF Top.function = "main" THEN line ELSE MainLine
    /\ \A l : ClearAt(l)' <=>
             IF Top.function = "pgClearResources" THEN l = line ELSE ClearAt(l)
    /\ \A l : CheckAt(l)' <=>
             IF Top.function = "checkChildProcess" THEN l = line ELSE CheckAt(l)

LEMMA GotoStep ==
    ASSUME StackInv, NEW line \in Lines, Goto(line), pgCleared' = pgCleared
    PROVE  StackInv' /\ GotoSteps(line)
  <1>1. /\ stack' \in Seq(Frames) /\ Len(stack') = Len(stack)
        /\ stack'[1] = Frame(Top.function, line)
        /\ \A i \in 2..Len(stack) : stack'[i] = stack[i]
    BY GotoFrames
  <1>2. /\ Top = stack[1] /\ Len(stack) \in Nat \ {0} /\ DOMAIN stack = 1..Len(stack)
        /\ DOMAIN stack' = 1..Len(stack)
    BY <1>1, TopFrame
  <1>3. \A i \in DOMAIN stack : stack'[i].function = stack[i].function
    BY <1>1, <1>2 DEF Frame
  <1>4. StackTyped'
    BY <1>1, <1>2 DEF StackTyped
  <1>5. MainBelow'
    BY <1>1, <1>2, <1>3 DEF StackInv, MainBelow
  <1>6. \A f : Running(f)' = Running(f)
    BY <1>2, <1>3 DEF Running
  <1>7. ClearedOnce' /\ Once("pgClearResources")' /\ Once("checkChildProcess")'
    BY <1>6 DEF StackInv, ClearedOnce, Once
  <1>8. MainLine' = IF Top.function = "main" THEN line ELSE MainLine
    <2>1. CASE Len(stack) = 1
      BY <1>1, <1>2, <2>1 DEF MainLine, StackInv, MainBelow, Frame
    <2>2. CASE Len(stack) # 1
      BY <1>1, <1>2, <2>2 DEF MainLine, StackInv, MainBelow
    <2> QED
      BY <2>1, <2>2
  <1>9. ASSUME NEW g \in {"pgClearResources", "checkChildProcess"}, NEW l
        PROVE  (\E i \in DOMAIN stack' : stack'[i] = Frame(g, l)) <=>
                  IF Top.function = g THEN l = line
                  ELSE \E i \in DOMAIN stack : stack[i] = Frame(g, l)
    <2>1. CASE Top.function = g
      <3>1. \A i \in DOMAIN stack : stack[i].function = g => i = 1
        BY <1>2, <2>1 DEF StackInv, Once, Running
      <3>2. \A i \in DOMAIN stack' : stack'[i] = Frame(g, l) => i = 1
        BY <1>2, <1>3, <3>1 DEF Frame
      <3>3. stack'[1] = Frame(g, l) <=> l = line
        BY <1>1, <2>1 DEF Frame
      <3> QED
        BY <1>2, <2>1, <3>2, <3>3
    <2>2. CASE Top.function # g
      <3>1. stack[1] # Frame(g, l) /\ stack'[1] # Frame(g, l)
        BY <1>1, <1>2, <2>2 DEF Frame
      <3>2. \A i \in DOMAIN stack : i = 1 \/ stack'[i] = stack[i]
        BY <1>1, <1>2
      <3> QED
        BY <1>2, <2>2, <3>1, <3>2
    <2> QED
      BY <2>1, <2>2
  <1> QED
    BY <1>4, <1>5, <1>7, <1>8, <1>9 DEF StackInv, GotoSteps, ClearAt, CheckAt

CallSteps(line) ==
    /\ MainLine' = IF Top.function = "main" THEN line ELSE MainLine
    /\ \A l : ClearAt(l)' => \/ ClearAt(l)
                              \/ l = "objects"
                              \/ (Top.function = "pgClearResources" /\ l = line)
    /\ \A l : CheckAt(l)' => \/ CheckAt(l)
                              \/ (Top.function = "checkChildProcess" /\ l = line)

LEMMA CallClearStep ==
    ASSUME StackInv, NEW line \in Lines, CallClear(line)
    PROVE  StackInv' /\ pgCleared' /\ CallSteps(line)
  <1>1. CASE pgCleared
    <2>1. Goto(line) /\ pgCleared' = pgCleared
      BY <1>1 DEF CallClear
    <2>2. StackInv' /\ GotoSteps(line)
      BY <2>1, GotoStep
    <2>3. pgCleared'
      BY <1>1, <2>1
    <2>4. CallSteps(line)
      <3>1. MainLine' = IF Top.function = "main" THEN line ELSE MainLine
        BY <2>2 DEF GotoSteps
      <3>2. ASSUME NEW l, ClearAt(l)'
            PROVE  ClearAt(l) \/ (Top.function = "pgClearResources" /\ l = line)
        BY <2>2, <3>2 DEF GotoSteps
      <3>3. ASSUME NEW l, CheckAt(l)'
            PROVE  CheckAt(l) \/ (Top.function = "checkChildProcess" /\ l = line)
        BY <2>2, <3>3 DEF GotoSteps
      <3> QED
        BY <3>1, <3>2, <3>3, Zenon DEF CallSteps
    <2> QED
      BY <2>2, <2>3, <2>4
  <1>2. CASE ~pgCleared
    <2> DEFINE f == [Top EXCEPT !.line = line]
    <2> DEFINE t == <<f>> \o Tail(stack)
    <2> DEFINE c == Frame("pgClearResources", "objects")
    <2>1. f \in Frames /\ f = Frame(Top.function, line) /\ c \in Frames
      <3>1. f \in Frames /\ f = Frame(Top.function, line)
        BY TopFrame DEF Frames, Frame
      <3>2. c \in Frames
        BY DEF Frames, Frame, Lines, ClearLines
      <3> QED
        BY <3>1, <3>2
    <2>2. /\ Tail(stack) \in Seq(Frames) /\ Len(Tail(stack)) = Len(stack) - 1
          /\ \A i \in 1..(Len(stack) - 1) : Tail(stack)[i] = stack[i + 1]
      BY HeadTailProperties DEF StackInv, StackTyped
    <2>3. pgCleared' /\ stack' = <<c, f>> \o Tail(stack)
      BY <1>2 DEF CallClear
    <2> HIDE DEF f, c
    <2>4. stack' = <<c>> \o t
      <3>1. <<c, f>> = <<c>> \o <<f>>
        OBVIOUS
      <3>2. <<c>> \in Seq(Frames) /\ <<f>> \in Seq(Frames)
        BY <2>1
      <3>3. (<<c>> \o <<f>>) \o Tail(stack) = <<c>> \o (<<f>> \o Tail(stack))
        BY <2>2, <3>2, ConcatAssociative
      <3> QED
        BY <2>3, <3>1, <3>3
    <2>5. /\ t \in Seq(Frames) /\ Len(t) = Len(stack) /\ t[1] = f
          /\ \A i \in 2..Len(stack) : t[i] = stack[i]
      <3>1. /\ t \in Seq(Frames) /\ Len(t) = Len(Tail(stack)) + 1 /\ t[1] = f
            /\ \A i \in 1..Len(Tail(stack)) : t[i + 1] = Tail(stack)[i]
        BY <2>1, <2>2, PushFrames
      <3> QED
        BY <2>2, <3>1, TopFrame
    <2> HIDE DEF t
    <2>6. /\ stack' \in Seq(Frames) /\ Len(stack') = Len(stack) + 1 /\ stack'[1] = c
          /\ \A i \in 1..Len(stack) : stack'[i + 1] = t[i]
      BY <2>1, <2>4, <2>5, PushFrames
    <2>7. /\ Top = stack[1] /\ Len(stack) \in Nat \ {0} /\ DOMAIN stack = 1..Len(stack)
          /\ DOMAIN stack' = 1..(Len(stack) + 1) /\ DOMAIN t = 1..Len(stack)
      BY <2>5, <2>6, TopFrame
    <2>8. /\ stack'[1] = c /\ stack'[2] = Frame(Top.function, line)
          /\ \A i \in 2..Len(stack) : stack'[i + 1] = stack[i]
      BY <2>1, <2>5, <2>6, <2>7
    <2>9. c.function = "pgClearResources" /\ c.line = "objects"
      BY DEF c, Frame
    (* Each frame is the one below it of the stack before, or the new one. *)
    <2>10. ASSUME NEW j \in DOMAIN stack', j # 1
           PROVE  /\ j - 1 \in DOMAIN stack /\ j \in Int
                  /\ stack'[j].function = stack[j - 1].function
      <3>1. j - 1 \in 1..Len(stack) /\ j \in Int
        BY <2>7, <2>10
      <3>2. CASE j = 2
        BY <2>7, <2>8, <3>1, <3>2 DEF Frame
      <3>3. CASE j # 2
        <4>1. j - 1 \in 2..Len(stack) /\ j = (j - 1) + 1
          BY <3>1, <3>3, <2>10
        <4> QED
          BY <2>7, <2>8, <4>1
      <3> QED
        BY <3>2, <3>3
    <2>11. stack'[1].function = "pgClearResources" /\ 1 \in DOMAIN stack'
      BY <2>6, <2>7, <2>9
    <2>12. StackTyped'
      BY <2>6, <2>7 DEF StackTyped
    <2>13. MainBelow'
      <3> SUFFICES ASSUME NEW j \in DOMAIN stack'
                   PROVE  stack'[j].function = "main" <=> j = Len(stack')
        BY DEF MainBelow
      <3>1. CASE j = 1
        BY <2>6, <2>7, <2>11, <3>1
      <3>2. CASE j # 1
        <4>1. stack[j - 1].function = "main" <=> j - 1 = Len(stack)
          BY <2>10, <3>2 DEF StackInv, MainBelow
        <4> QED
          BY <2>6, <2>7, <2>10, <3>2, <4>1
      <3> QED
        BY <3>1, <3>2
    <2>15. /\ Running("pgClearResources")' = {1}
           /\ ClearedOnce' /\ Once("pgClearResources")'
      <3>1. \A j \in DOMAIN stack' : stack'[j].function = "pgClearResources" => j = 1
        BY <1>2, <2>10 DEF StackInv, ClearedOnce, Running
      <3>2. Running("pgClearResources")' = {1}
        BY <2>11, <3>1 DEF Running
      <3> QED
        BY <2>3, <3>2 DEF ClearedOnce, Once
    <2>16. Once("checkChildProcess")'
      <3> SUFFICES ASSUME NEW i \in DOMAIN stack', NEW j \in DOMAIN stack',
                          stack'[i].function = "checkChildProcess",
                          stack'[j].function = "checkChildProcess"
                   PROVE  i = j
        BY DEF Once, Running
      <3>1. i # 1 /\ j # 1
        BY <2>11
      <3>2. i - 1 = j - 1
        BY <2>10, <3>1 DEF StackInv, Once, Running
      <3> QED
        BY <2>10, <3>1, <3>2
    <2>17. MainLine' = IF Top.function = "main" THEN line ELSE MainLine
      <3>1. CASE Len(stack) = 1
        BY <2>6, <2>7, <2>8, <3>1 DEF MainLine, StackInv, MainBelow, Frame
      <3>2. CASE Len(stack) # 1
        BY <2>6, <2>7, <2>8, <3>2 DEF MainLine, StackInv, MainBelow
      <3> QED
        BY <3>1, <3>2
    <2>18. ASSUME NEW l, ClearAt(l)' PROVE l = "objects"
      <3>1. PICK j \in DOMAIN stack' : stack'[j] = Frame("pgClearResources", l)
        BY <2>18 DEF ClearAt
      <3>2. j \in Running("pgClearResources")'
        BY <3>1 DEF Running, Frame
      <3> QED
        BY <2>8, <2>9, <2>15, <3>1, <3>2 DEF Frame
    <2>19. ASSUME NEW l, CheckAt(l)'
           PROVE  CheckAt(l) \/ (Top.function = "checkChildProcess" /\ l = line)
      <3>1. PICK j \in DOMAIN stack' : stack'[j] = Frame("checkChildProcess", l)
        BY <2>19 DEF CheckAt
      <3>2. j # 1
        BY <2>11, <3>1 DEF Frame
      <3>3. CASE j = 2
        BY <2>8, <3>1, <3>3 DEF Frame
      <3>4. CASE j # 2
        <4>1. j - 1 \in 2..Len(stack) /\ j = (j - 1) + 1
          BY <2>7, <3>1, <3>2, <3>4
        <4>2. stack'[j] = stack[j - 1] /\ j - 1 \in DOMAIN stack
          BY <2>7, <2>8, <4>1
        <4> QED
          BY <3>1, <4>2 DEF CheckAt
      <3> QED
        BY <3>3, <3>4
    <2>20. CallSteps(line)
      BY <2>17, <2>18, <2>19, Zenon DEF CallSteps
    <2> QED
      BY <2>3, <2>12, <2>13, <2>15, <2>16, <2>20 DEF StackInv
  <1> QED
    BY <1>1, <1>2

LEMMA EnterStep ==
    ASSUME StackInv, EnterCheckChild
    PROVE  /\ StackInv'
           /\ MainLine' = MainLine
           /\ \A l : ClearAt(l)' <=> ClearAt(l)
           /\ \A l : CheckAt(l)' => l = "poll"
  <1> DEFINE c == Frame("checkChildProcess", "poll")
  <1>1. /\ stack' = <<c>> \o stack /\ pgCleared' = pgCleared
        /\ \A i \in DOMAIN stack : stack[i].function # "checkChildProcess"
    BY DEF EnterCheckChild, generatorVars
  <1>2. /\ c \in Frames /\ c.function = "checkChildProcess" /\ c.line = "poll"
        /\ \A l : Frame("checkChildProcess", l).line = l
        /\ \A l : Frame("checkChildProcess", l).function = "checkChildProcess"
        /\ \A l : Frame("pgClearResources", l).function = "pgClearResources"
    BY DEF Frames, Frame, Lines, CheckLines
  <1> HIDE DEF c
  <1>3. /\ stack' \in Seq(Frames) /\ Len(stack') = Len(stack) + 1 /\ stack'[1] = c
        /\ \A i \in 1..Len(stack) : stack'[i + 1] = stack[i]
    BY <1>1, <1>2, PushFrames DEF StackInv, StackTyped
  <1>4. /\ Len(stack) \in Nat \ {0} /\ DOMAIN stack = 1..Len(stack)
        /\ DOMAIN stack' = 1..(Len(stack) + 1)
    BY <1>3, TopFrame
  <1>5. ASSUME NEW j \in DOMAIN stack', j # 1
        PROVE  j - 1 \in DOMAIN stack /\ j \in Int /\ stack'[j] = stack[j - 1]
    <2>1. j - 1 \in 1..Len(stack) /\ j = (j - 1) + 1
      BY <1>4, <1>5
    <2> QED
      BY <1>3, <1>4, <2>1
  <1>6. \A i \in DOMAIN stack : i + 1 \in DOMAIN stack' /\ stack'[i + 1] = stack[i]
    BY <1>3, <1>4
  <1>7. StackTyped' /\ 1 \in DOMAIN stack'
    BY <1>3, <1>4 DEF StackTyped
  <1>8. MainBelow'
    <2> SUFFICES ASSUME NEW j \in DOMAIN stack'
                 PROVE  stack'[j].function = "main" <=> j = Len(stack')
      BY DEF MainBelow
    <2>1. CASE j = 1
      BY <1>2, <1>3, <1>4, <2>1
    <2>2. CASE j # 1
      <3>1. stack[j - 1].function = "main" <=> j - 1 = Len(stack)
        BY <1>5, <2>2 DEF StackInv, MainBelow
      <3> QED
        BY <1>3, <1>4, <1>5, <2>2, <3>1
    <2> QED
      BY <2>1, <2>2
  <1>9. ASSUME NEW j \in DOMAIN stack', stack'[j].function = "checkChildProcess"
        PROVE  j = 1
    BY <1>1, <1>5, <1>9
  <1>10. Once("checkChildProcess")'
    BY <1>9 DEF Once, Running
  <1>11. Once("pgClearResources")'
    <2> SUFFICES ASSUME NEW i \in DOMAIN stack', NEW j \in DOMAIN stack',
                        stack'[i].function = "pgClearResources",
                        stack'[j].function = "pgClearResources"
                 PROVE  i = j
      BY DEF Once, Running
    <2>1. i # 1 /\ j # 1
      BY <1>2, <1>3
    <2>2. i - 1 = j - 1
      BY <1>5, <2>1 DEF StackInv, Once, Running
    <2> QED
      BY <1>5, <2>1, <2>2
  <1>12. ClearedOnce'
    <2>1. \A j \in Running("pgClearResources")' : j - 1 \in Running("pgClearResources")
      BY <1>2, <1>3, <1>5 DEF Running
    <2>2. \A i \in Running("pgClearResources") : i + 1 \in Running("pgClearResources")'
      BY <1>6 DEF Running
    <2> QED
      BY <1>1, <2>1, <2>2 DEF StackInv, ClearedOnce
  <1>13. MainLine' = MainLine
    BY <1>3, <1>4 DEF MainLine
  <1>14. ASSUME NEW l PROVE ClearAt(l)' <=> ClearAt(l)
    BY <1>2, <1>3, <1>5, <1>6 DEF ClearAt
  <1>15. ASSUME NEW l, CheckAt(l)' PROVE l = "poll"
    <2>1. PICK j \in DOMAIN stack' : stack'[j] = Frame("checkChildProcess", l)
      BY <1>15 DEF CheckAt
    <2>2. j = 1
      BY <1>2, <1>9, <2>1
    <2> QED
      BY <1>2, <1>3, <2>1, <2>2
  <1> QED
    BY <1>7, <1>8, <1>10, <1>11, <1>12, <1>13, <1>14, <1>15 DEF StackInv

(* What the handler has interrupted.                                       *)
Below == Head(Tail(stack))

LEMMA BelowFrame ==
    ASSUME StackInv, Top.function = "checkChildProcess"
    PROVE  /\ Len(stack) \in Nat \ {0, 1} /\ Tail(stack) \in Seq(Frames)
           /\ Tail(stack) # <<>> /\ Len(Tail(stack)) = Len(stack) - 1
           /\ \A i \in 1..(Len(stack) - 1) : Tail(stack)[i] = stack[i + 1]
           /\ Below = stack[2] /\ Below \in Frames /\ Below = Frame(Below.function, Below.line)
           /\ Below.function \in {"main", "pgClearResources"}
           /\ Below.function = "main" => Len(stack) = 2 /\ Below.line = MainLine
           /\ Below.function = "pgClearResources" => ClearAt(Below.line)
  <1>1. /\ Top = stack[1] /\ Len(stack) \in Nat \ {0} /\ DOMAIN stack = 1..Len(stack)
        /\ stack \in Seq(Frames) /\ stack # <<>>
        /\ \A i \in DOMAIN stack : stack[i] \in Frames
    BY TopFrame DEF StackInv, StackTyped
  <1>2. Len(stack) # 1
    BY <1>1 DEF StackInv, MainBelow
  <1>3. 1 \in DOMAIN stack /\ 2 \in DOMAIN stack
    BY <1>1, <1>2
  <1>4. /\ Tail(stack) \in Seq(Frames) /\ Len(Tail(stack)) = Len(stack) - 1
        /\ \A i \in 1..Len(Tail(stack)) : Tail(stack)[i] = stack[i + 1]
    BY <1>1, HeadTailProperties
  <1>5. Tail(stack) # <<>> /\ Below = stack[2]
    <2>1. Len(Tail(stack)) \in Nat \ {0} /\ 1 \in 1..Len(Tail(stack)) /\ 1 + 1 = 2
      BY <1>1, <1>2, <1>4
    <2>2. Tail(stack)[1] = stack[2]
      BY <1>4, <2>1
    <2>3. Tail(stack) # <<>>
      BY <1>4, <2>1, EmptySeq
    <2>4. Head(Tail(stack)) = Tail(stack)[1]
      BY <1>4, <2>3
    <2> QED
      BY <2>2, <2>3, <2>4 DEF Below
  <1>6. Below \in Frames /\ Below = Frame(Below.function, Below.line)
    BY <1>1, <1>3, <1>5 DEF Frames, Frame
  <1>7. Below.function \in {"main", "pgClearResources"}
    BY <1>1, <1>3, <1>5, <1>6 DEF StackInv, Once, Running, Frames
  <1>8. Below.function = "main" => Len(stack) = 2 /\ Below.line = MainLine
    BY <1>1, <1>3, <1>5 DEF StackInv, MainBelow, MainLine
  <1>9. Below.function = "pgClearResources" => ClearAt(Below.line)
    BY <1>3, <1>5, <1>6 DEF ClearAt
  <1> QED
    BY <1>1, <1>2, <1>4, <1>5, <1>6, <1>7, <1>8, <1>9

LEMMA LeaveStep ==
    ASSUME StackInv, Top.function = "checkChildProcess", NEW line \in Lines,
           stack' = <<[Below EXCEPT !.line = line]>> \o Tail(Tail(stack)),
           pgCleared' = pgCleared
    PROVE  /\ StackInv'
           /\ MainLine' = IF Below.function = "main" THEN line ELSE MainLine
           /\ \A l : ClearAt(l)' <=> IF Below.function = "pgClearResources" THEN l = line
                                     ELSE ClearAt(l)
           /\ \A l : ~CheckAt(l)'
  <1> DEFINE f == [Below EXCEPT !.line = line]
  <1>1. f \in Frames /\ f = Frame(Below.function, line)
    BY BelowFrame DEF Frames, Frame
  <1> HIDE DEF f
  <1>2. /\ Tail(Tail(stack)) \in Seq(Frames) /\ Len(Tail(Tail(stack))) = Len(Tail(stack)) - 1
        /\ \A i \in 1..Len(Tail(Tail(stack))) : Tail(Tail(stack))[i] = Tail(stack)[i + 1]
    BY BelowFrame, HeadTailProperties
  <1>3. /\ stack' \in Seq(Frames) /\ Len(stack') = Len(Tail(Tail(stack))) + 1
        /\ stack'[1] = f
        /\ \A i \in 1..Len(Tail(Tail(stack))) : stack'[i + 1] = Tail(Tail(stack))[i]
    <2> DEFINE s == Tail(Tail(stack))
    <2>1. stack' = <<f>> \o s /\ s \in Seq(Frames)
      BY <1>2 DEF f
    <2> HIDE DEF s
    <2>2. /\ <<f>> \o s \in Seq(Frames) /\ Len(<<f>> \o s) = Len(s) + 1
          /\ (<<f>> \o s)[1] = f
          /\ \A i \in 1..Len(s) : (<<f>> \o s)[i + 1] = s[i]
      BY <1>1, <2>1, PushFrames
    <2>3. /\ stack' \in Seq(Frames) /\ Len(stack') = Len(s) + 1 /\ stack'[1] = f
          /\ \A i \in 1..Len(s) : stack'[i + 1] = s[i]
      BY <2>1, <2>2
    <2> QED
      BY <2>3 DEF s
  <1>4. /\ Len(stack) \in Nat \ {0, 1} /\ DOMAIN stack = 1..Len(stack)
        /\ DOMAIN stack' = 1..(Len(stack) - 1) /\ Len(stack') = Len(stack) - 1
        /\ Below = stack[2] /\ Top = stack[1]
    BY <1>2, <1>3, TopFrame, BelowFrame
  <1>5. \A i \in 2..(Len(stack) - 1) : stack'[i] = stack[i + 1]
    <2> SUFFICES ASSUME NEW i \in 2..(Len(stack) - 1) PROVE stack'[i] = stack[i + 1]
      OBVIOUS
    <2>1. /\ i - 1 \in 1..Len(Tail(Tail(stack))) /\ i = (i - 1) + 1 /\ i \in Int
          /\ i \in 1..(Len(stack) - 1)
      BY <1>2, <1>4, BelowFrame
    <2>2. stack'[i] = Tail(Tail(stack))[i - 1]
      BY <1>3, <2>1
    <2>3. Tail(Tail(stack))[i - 1] = Tail(stack)[i]
      BY <1>2, <2>1
    <2>4. Tail(stack)[i] = stack[i + 1]
      BY <2>1, BelowFrame
    <2> QED
      BY <2>2, <2>3, <2>4
  <1>6. \A i \in DOMAIN stack' :
            /\ i + 1 \in DOMAIN stack /\ i \in Int
            /\ stack'[i].function = stack[i + 1].function
            /\ i # 1 => stack'[i] = stack[i + 1]
    <2> SUFFICES ASSUME NEW i \in DOMAIN stack'
                 PROVE  /\ i + 1 \in DOMAIN stack /\ i \in Int
                        /\ stack'[i].function = stack[i + 1].function
                        /\ i # 1 => stack'[i] = stack[i + 1]
      OBVIOUS
    <2>1. CASE i = 1
      BY <1>1, <1>3, <1>4, <2>1 DEF Frame
    <2>2. CASE i # 1
      <3>1. i \in 2..(Len(stack) - 1) /\ i + 1 \in 1..Len(stack) /\ i \in Int
        BY <1>4, <2>2
      <3> QED
        BY <1>4, <1>5, <2>2, <3>1
    <2> QED
      BY <2>1, <2>2
  <1>7. \A j \in DOMAIN stack : j = 1 \/ (j - 1 \in DOMAIN stack' /\ j = (j - 1) + 1)
    BY <1>4
  <1>8. StackTyped' /\ 1 \in DOMAIN stack'
    BY <1>3, <1>4 DEF StackTyped
  <1>9. MainBelow'
    <2> SUFFICES ASSUME NEW i \in DOMAIN stack'
                 PROVE  stack'[i].function = "main" <=> i = Len(stack')
      BY DEF MainBelow
    <2>1. stack[i + 1].function = "main" <=> i + 1 = Len(stack)
      BY <1>6 DEF StackInv, MainBelow
    <2>2. stack'[i].function = stack[i + 1].function /\ i \in Int
      BY <1>6
    <2>3. i + 1 = Len(stack) <=> i = Len(stack')
      BY <1>4, <2>2
    <2> QED
      BY <2>1, <2>2, <2>3
  <1>10. ASSUME NEW g \in {"pgClearResources", "checkChildProcess"} PROVE Once(g)'
    <2> SUFFICES ASSUME NEW i \in DOMAIN stack', NEW j \in DOMAIN stack',
                        stack'[i].function = g, stack'[j].function = g
                 PROVE  i = j
      BY DEF Once, Running
    <2>1. i + 1 = j + 1
      BY <1>6 DEF StackInv, Once, Running
    <2> QED
      BY <1>6, <2>1
  <1>11. ClearedOnce'
    <2>1. \A i \in Running("pgClearResources")' : i + 1 \in Running("pgClearResources")
      BY <1>6 DEF Running
    <2>2. \A j \in Running("pgClearResources") : j - 1 \in Running("pgClearResources")'
      BY <1>4, <1>6, <1>7 DEF Running
    <2> QED
      BY <2>1, <2>2 DEF StackInv, ClearedOnce
  <1>12. \A i \in DOMAIN stack' : stack'[i].function # "checkChildProcess"
    <2> SUFFICES ASSUME NEW i \in DOMAIN stack', stack'[i].function = "checkChildProcess"
                 PROVE  FALSE
      OBVIOUS
    <2>1. 1 \in DOMAIN stack /\ stack[1].function = "checkChildProcess"
      BY <1>4
    <2>2. i + 1 \in DOMAIN stack /\ stack[i + 1].function = "checkChildProcess" /\ i \in Int
      BY <1>6
    <2>3. i + 1 = 1
      BY <2>1, <2>2 DEF StackInv, Once, Running
    <2> QED
      BY <1>4, <2>2, <2>3
  <1>13. ASSUME NEW l PROVE ~CheckAt(l)'
    <2>1. Frame("checkChildProcess", l).function = "checkChildProcess"
      BY DEF Frame
    <2> QED
      BY <1>12, <2>1 DEF CheckAt
  <1>14. MainLine' = IF Below.function = "main" THEN line ELSE MainLine
    <2>1. CASE Len(stack) = 2
      BY <1>1, <1>3, <1>4, <2>1 DEF MainLine, StackInv, MainBelow, Frame
    <2>2. CASE Len(stack) # 2
      BY <1>4, <1>5, <2>2, BelowFrame DEF MainLine
    <2> QED
      BY <2>1, <2>2
  <1>15. ASSUME NEW l
         PROVE  ClearAt(l)' <=> IF Below.function = "pgClearResources" THEN l = line
                                ELSE ClearAt(l)
    <2>1. CASE Below.function = "pgClearResources"
      <3>1. \A j \in DOMAIN stack : stack[j].function = "pgClearResources" => j = 2
        <4>1. 2 \in DOMAIN stack /\ stack[2].function = "pgClearResources"
          BY <1>4, <2>1
        <4> QED
          BY <4>1 DEF StackInv, Once, Running
      <3>2. ASSUME NEW i \in DOMAIN stack', stack'[i] = Frame("pgClearResources", l)
            PROVE  i = 1
        <4>1. stack[i + 1].function = "pgClearResources" /\ i + 1 \in DOMAIN stack /\ i \in Int
          <5>1. Frame("pgClearResources", l).function = "pgClearResources"
            BY DEF Frame
          <5> QED
            BY <1>6, <3>2, <5>1
        <4>2. i + 1 = 2
          BY <3>1, <4>1
        <4> QED
          BY <4>1, <4>2
      <3>3. stack'[1] = Frame("pgClearResources", l) <=> l = line
        BY <1>1, <1>3, <2>1 DEF Frame
      <3> QED
        BY <1>8, <2>1, <3>2, <3>3 DEF ClearAt
    <2>2. CASE Below.function # "pgClearResources"
      <3>1. ASSUME ClearAt(l)' PROVE ClearAt(l)
        <4>1. PICK i \in DOMAIN stack' : stack'[i] = Frame("pgClearResources", l)
          BY <3>1 DEF ClearAt
        <4>2. i # 1
          BY <1>1, <1>3, <2>2, <4>1 DEF Frame
        <4> QED
          BY <1>6, <4>1, <4>2 DEF ClearAt
      <3>2. ASSUME ClearAt(l) PROVE ClearAt(l)'
        <4>1. PICK j \in DOMAIN stack : stack[j] = Frame("pgClearResources", l)
          BY <3>2 DEF ClearAt
        <4>2. j # 1 /\ j # 2
          BY <1>4, <2>2, <4>1 DEF Frame
        <4>3. j - 1 \in DOMAIN stack' /\ j - 1 # 1 /\ (j - 1) + 1 = j
          BY <1>4, <1>7, <4>2
        <4> QED
          BY <1>6, <4>1, <4>3 DEF ClearAt
      <3> QED
        BY <2>2, <3>1, <3>2
    <2> QED
      BY <2>1, <2>2
  <1> QED
    BY <1>8, <1>9, <1>10, <1>11, <1>13, <1>14, <1>15 DEF StackInv

-----------------------------------------------------------------------------
(* Which lines the three functions are at.                                 *)

LineInv ==
    /\ MainLine \in MainLines
    /\ \A l : ClearAt(l) => l \in ClearLines
    /\ \A l : CheckAt(l) => l \in CheckLines

Unmoved ==
    /\ StackInv' /\ pgCleared' = pgCleared /\ MainLine' = MainLine
    /\ \A l : (ClearAt(l)' <=> ClearAt(l)) /\ (CheckAt(l)' <=> CheckAt(l))

LEMMA StackUnchanged ==
    ASSUME StackInv, UNCHANGED <<stack, pgCleared>>
    PROVE  Unmoved
  BY DEF Unmoved, StackInv, StackTyped, MainBelow, Once, Running, ClearedOnce, MainLine,
         ClearAt, CheckAt

LEMMA RunsAt ==
    ASSUME StackInv, NEW function, NEW line, Runs(function, line)
    PROVE  /\ Alive(Generator) /\ Generator \notin sigint /\ Top.function = function
           /\ Top.line = line
           /\ function = "pgClearResources" => ClearAt(line) /\ pgCleared
           /\ function = "checkChildProcess" => CheckAt(line)
           /\ function = "main" => /\ MainLine = line /\ ~pgCleared
                                  /\ \A l : ~ClearAt(l) /\ ~CheckAt(l)
  <1>1. Top.function = function /\ Top.line = line
    BY DEF Runs, Frame
  <1> QED
    BY <1>1, FrameOfTop DEF Runs

LEMMA MainMoves ==
    ASSUME StackInv, NEW line, NEW next \in Lines,
           Runs("main", line), Goto(next), pgCleared' = pgCleared
    PROVE  /\ StackInv' /\ MainLine = line /\ MainLine' = next
           /\ ~pgCleared /\ ~pgCleared'
           /\ \A l : ~ClearAt(l)' /\ ~CheckAt(l)'
  <1>1. /\ Top.function = "main" /\ MainLine = line /\ ~pgCleared
        /\ \A l : ~ClearAt(l) /\ ~CheckAt(l)
    BY RunsAt
  <1>2. StackInv' /\ GotoSteps(next)
    BY GotoStep
  <1>3. MainLine' = next /\ \A l : ~ClearAt(l)' /\ ~CheckAt(l)'
    BY <1>1, <1>2 DEF GotoSteps
  <1>4. ~pgCleared'
    BY <1>1
  <1> QED
    BY <1>1, <1>2, <1>3, <1>4

LEMMA ClearMoves ==
    ASSUME StackInv, NEW line, NEW next \in Lines,
           Runs("pgClearResources", line), Goto(next), pgCleared' = pgCleared
    PROVE  /\ StackInv' /\ MainLine' = MainLine /\ ClearAt(line)
           /\ \A l : ClearAt(l)' <=> l = next
           /\ \A l : CheckAt(l)' <=> CheckAt(l)
  <1>1. Top.function = "pgClearResources" /\ ClearAt(line)
    BY RunsAt
  <1>2. StackInv' /\ GotoSteps(next)
    BY GotoStep
  <1> QED
    BY <1>1, <1>2 DEF GotoSteps

LEMMA CheckMoves ==
    ASSUME StackInv, NEW line, NEW next \in Lines,
           Runs("checkChildProcess", line), Goto(next), pgCleared' = pgCleared
    PROVE  /\ StackInv' /\ MainLine' = MainLine /\ CheckAt(line)
           /\ \A l : CheckAt(l)' <=> l = next
           /\ \A l : ClearAt(l)' <=> ClearAt(l)
  <1>1. Top.function = "checkChildProcess" /\ CheckAt(line)
    BY RunsAt
  <1>2. StackInv' /\ GotoSteps(next)
    BY GotoStep
  <1> QED
    BY <1>1, <1>2 DEF GotoSteps

(* The cleanup called where the function on top is.                        *)
LEMMA CalledAtTop ==
    ASSUME StackInv, CallClear(Top.line)
    PROVE  /\ StackInv' /\ pgCleared' /\ MainLine' = MainLine
           /\ \A l : ClearAt(l)' => ClearAt(l) \/ l = "objects"
           /\ \A l : CheckAt(l)' => CheckAt(l)
  <1>1. Top.line \in Lines
    BY TopFrame DEF Frames
  <1>2. StackInv' /\ pgCleared' /\ CallSteps(Top.line)
    BY <1>1, CallClearStep
  <1>3. /\ MainLine' = MainLine
        /\ \A l : ClearAt(l)' => ClearAt(l) \/ l = "objects"
        /\ \A l : CheckAt(l)' => CheckAt(l)
    BY <1>2, FrameOfTop DEF CallSteps
  <1> QED
    BY <1>2, <1>3

(* The cleanup called by the handler, which then polls.                    *)
LEMMA CalledByCheck ==
    ASSUME StackInv, NEW line, Runs("checkChildProcess", line), CallClear("poll")
    PROVE  /\ StackInv' /\ pgCleared' /\ MainLine' = MainLine
           /\ \A l : ClearAt(l)' => ClearAt(l) \/ l = "objects"
           /\ \A l : CheckAt(l)' => CheckAt(l) \/ l = "poll"
  <1>1. "poll" \in Lines
    BY DEF Lines, CheckLines
  <1>2. StackInv' /\ pgCleared' /\ CallSteps("poll")
    BY <1>1, CallClearStep
  <1>3. Top.function = "checkChildProcess"
    BY RunsAt
  <1>4. /\ MainLine' = MainLine
        /\ \A l : ClearAt(l)' => ClearAt(l) \/ l = "objects"
        /\ \A l : CheckAt(l)' => CheckAt(l) \/ l = "poll"
    BY <1>2, <1>3 DEF CallSteps
  <1> QED
    BY <1>2, <1>4

(* A handler that returns sends a waitpid below it on, or not.             *)
LEMMA LeavesCheck ==
    ASSUME StackInv, LineInv, LeaveCheckChild
    PROVE  /\ StackInv' /\ pgCleared' = pgCleared
           /\ MainLine' = MainLine \/ (MainLine = "waitpid" /\ MainLine' = "loop")
           /\ \A l : ClearAt(l)' => \/ ClearAt(l)
                                    \/ (ClearAt("waitClock") /\ l = "killScheduler")
                                    \/ (ClearAt("waitScheduler") /\ l = "exit")
           /\ \A l : ~CheckAt(l)'
  <1> DEFINE After == CASE Below.line = "waitClock" -> "killScheduler"
                        [] Below.line = "waitScheduler" -> "exit"
                        [] Below.line = "waitpid" -> "loop"
                        [] OTHER -> Below.line
  <1>1. Runs("checkChildProcess", "poll") /\ pgCleared' = pgCleared
    BY DEF LeaveCheckChild
  <1>2. PICK line \in {Below.line, After} :
           stack' = <<[Below EXCEPT !.line = line]>> \o Tail(Tail(stack))
    BY DEF LeaveCheckChild, Below
  <1>3. \/ line = Below.line
        \/ Below.line = "waitClock" /\ line = "killScheduler"
        \/ Below.line = "waitScheduler" /\ line = "exit"
        \/ Below.line = "waitpid" /\ line = "loop"
    BY <1>2
  <1> HIDE DEF After
  <1>4. Top.function = "checkChildProcess"
    BY <1>1, RunsAt
  <1>5. /\ Below \in Frames /\ Below.function \in {"main", "pgClearResources"}
        /\ Below.function = "main" => Below.line = MainLine
        /\ Below.function = "pgClearResources" => ClearAt(Below.line)
    BY <1>4, BelowFrame
  <1>6. line \in Lines
    BY <1>3, <1>5 DEF Frames, Lines, ClearLines, MainLines
  <1>7. /\ StackInv'
        /\ MainLine' = IF Below.function = "main" THEN line ELSE MainLine
        /\ \A l : ClearAt(l)' <=> IF Below.function = "pgClearResources" THEN l = line
                                  ELSE ClearAt(l)
        /\ \A l : ~CheckAt(l)'
    BY <1>1, <1>2, <1>4, <1>6, LeaveStep
  <1>8. Below.function = "main" => Below.line \in MainLines
    BY <1>5 DEF LineInv
  <1>9. Below.function = "pgClearResources" => Below.line \in ClearLines
    BY <1>5 DEF LineInv
  <1>10. MainLine' = MainLine \/ (MainLine = "waitpid" /\ MainLine' = "loop")
    BY <1>3, <1>5, <1>7, <1>8 DEF MainLines
  <1>11. ASSUME NEW l, ClearAt(l)'
         PROVE  \/ ClearAt(l)
                \/ (ClearAt("waitClock") /\ l = "killScheduler")
                \/ (ClearAt("waitScheduler") /\ l = "exit")
    <2>1. CASE Below.function = "pgClearResources"
      <3>1. l = line /\ ClearAt(Below.line) /\ Below.line # "waitpid"
        BY <1>5, <1>7, <1>9, <1>11, <2>1 DEF ClearLines
      <3> QED
        BY <1>3, <3>1
    <2>2. CASE Below.function # "pgClearResources"
      BY <1>7, <1>11, <2>2
    <2> QED
      BY <2>1, <2>2
  <1> QED
    BY <1>1, <1>7, <1>10, <1>11

LEMMA OutsideGenerator ==
    ASSUME [Next]_vars, ~generator
    PROVE  UNCHANGED generatorVars
  BY DEF Next, vars, generatorVars, scheduler, clock, child, InitScheduler, FetchChild,
         SwitchChild, RaiseInScheduler, InterruptScheduler, ExitScheduler, initClk,
         GetSegment, InitWord, FailInit, FirstTick, InterruptClock, StopItself, RunChild,
         InterruptChild, Does, InheritedClear, Dies, CtrlC, Crash

LEMMA LineSets ==
    /\ MainLines \subseteq Lines /\ ClearLines \subseteq Lines /\ CheckLines \subseteq Lines
  BY DEF Lines

(* A line of main follows another, or main stays where it is.              *)
MainEdges ==
    {<<"semaphores", "handlers">>, <<"handlers", "arguments">>,
     <<"arguments", "createScheduler">>, <<"createScheduler", "schedulerPID">>,
     <<"schedulerPID", "createClk">>, <<"createClk", "clkPID">>, <<"clkPID", "file">>,
     <<"file", "msgget">>, <<"msgget", "syncClk">>, <<"syncClk", "loop">>,
     <<"loop", "waitpid">>}

LEMMA MainStep ==
    ASSUME StackInv, LineInv, main
    PROVE  /\ StackInv' /\ Alive(Generator) /\ Generator \notin sigint /\ ~pgCleared
           /\ \A l : ~CheckAt(l)' /\ (ClearAt(l)' => l = "objects" /\ pgCleared')
           /\ \/ MainLine' = MainLine
              \/ <<MainLine, MainLine'>> \in MainEdges /\ ~pgCleared'
           /\ MainLine' \in MainLines
  <1>1. PICK line : Runs("main", line)
    BY DEF main, InitSemaphores, InstallHandlers, ReadInput, Fork, Assign, RaiseInMain,
           CreateQueue, SyncGenerator, Loop, ReturnFromMain
  <1>2. /\ Alive(Generator) /\ Generator \notin sigint /\ Top.function = "main"
        /\ Top.line = line /\ MainLine = line /\ ~pgCleared
        /\ \A l : ~ClearAt(l) /\ ~CheckAt(l)
    BY <1>1, RunsAt
  <1>3. \A l : Runs("main", l) => l = line
    BY <1>2, RunsAt
  <1>4. ASSUME NEW next \in MainLines, Goto(next), pgCleared' = pgCleared,
               <<line, next>> \in MainEdges
        PROVE  /\ StackInv'
               /\ \A l : ~CheckAt(l)' /\ (ClearAt(l)' => l = "objects" /\ pgCleared')
               /\ <<MainLine, MainLine'>> \in MainEdges /\ ~pgCleared'
               /\ MainLine' \in MainLines
    <2>1. next \in Lines
      BY <1>4, LineSets
    <2>2. /\ StackInv' /\ MainLine = line /\ MainLine' = next /\ ~pgCleared'
          /\ \A l : ~ClearAt(l)' /\ ~CheckAt(l)'
      BY <1>1, <1>4, <2>1, MainMoves
    <2> QED
      BY <1>4, <2>2
  <1>5. ASSUME UNCHANGED <<stack, pgCleared>>
        PROVE  /\ StackInv'
               /\ \A l : ~CheckAt(l)' /\ (ClearAt(l)' => l = "objects" /\ pgCleared')
               /\ MainLine' = MainLine
               /\ MainLine' \in MainLines
    <2>1. Unmoved
      BY <1>5, StackUnchanged
    <2> QED
      BY <1>2, <2>1 DEF Unmoved, LineInv
  <1>6. ASSUME CallClear("loop"), line = "loop"
        PROVE  /\ StackInv'
               /\ \A l : ~CheckAt(l)' /\ (ClearAt(l)' => l = "objects" /\ pgCleared')
               /\ MainLine' = MainLine
               /\ MainLine' \in MainLines
    <2>1. CallClear(Top.line)
      BY <1>2, <1>6
    <2>2. /\ StackInv' /\ pgCleared' /\ MainLine' = MainLine
          /\ \A l : ClearAt(l)' => ClearAt(l) \/ l = "objects"
          /\ \A l : CheckAt(l)' => CheckAt(l)
      BY <2>1, CalledAtTop
    <2> QED
      BY <1>2, <2>2 DEF LineInv
  <1>7. CASE \E next \in MainLines :
                <<line, next>> \in MainEdges /\ Goto(next) /\ pgCleared' = pgCleared
    BY <1>2, <1>4, <1>7
  <1>8. CASE UNCHANGED <<stack, pgCleared>>
    BY <1>2, <1>5, <1>8
  <1>9. CASE CallClear("loop") /\ line = "loop"
    BY <1>2, <1>6, <1>9
  <1>10. \/ \E next \in MainLines :
                <<line, next>> \in MainEdges /\ Goto(next) /\ pgCleared' = pgCleared
         \/ UNCHANGED <<stack, pgCleared>>
         \/ CallClear("loop") /\ line = "loop"
    BY <1>3
       DEF main, InitSemaphores, InstallHandlers, ReadInput, Fork, Assign, RaiseInMain,
           CreateQueue, SyncGenerator, Loop, ReturnFromMain, MainEdges, MainLines,
           generatorVars
  <1> QED
    BY <1>7, <1>8, <1>9, <1>10

LEMMA StackInvStep ==
    ASSUME StackInv, LineInv, [Next]_vars
    PROVE  StackInv' /\ LineInv'
  <1>1. CASE ~generator
    <2>1. Unmoved
      BY <1>1, OutsideGenerator, StackUnchanged DEF generatorVars
    <2> QED
      BY <2>1 DEF Unmoved, LineInv
  <1>2. CASE main
    BY <1>2, MainStep DEF LineInv, ClearLines
  <1>3. CASE pgClearResources
    <2>1. CASE UNCHANGED <<stack, pgCleared>>
      BY <2>1, StackUnchanged DEF Unmoved, LineInv
    <2>2. CASE \E line, next \in ClearLines :
                  Runs("pgClearResources", line) /\ Goto(next) /\ pgCleared' = pgCleared
      <3>1. PICK line, next \in ClearLines :
               Runs("pgClearResources", line) /\ Goto(next) /\ pgCleared' = pgCleared
        BY <2>2
      <3>2. /\ StackInv' /\ MainLine' = MainLine
            /\ \A l : ClearAt(l)' <=> l = next
            /\ \A l : CheckAt(l)' <=> CheckAt(l)
        BY <3>1, ClearMoves, LineSets
      <3> QED
        BY <3>1, <3>2 DEF LineInv
    <2> QED
      BY <1>3, <2>1, <2>2
         DEF pgClearResources, RemoveObjects, KillIfKnown, WaitThen, ExitGenerator,
             generatorVars, ClearLines
  <1>4. CASE InterruptGenerator
    <2>1. CASE UNCHANGED <<stack, pgCleared>>
      BY <2>1, StackUnchanged DEF Unmoved, LineInv
    <2>2. CASE CallClear(Top.line)
      <3>1. /\ StackInv' /\ MainLine' = MainLine
            /\ \A l : ClearAt(l)' => ClearAt(l) \/ l = "objects"
            /\ \A l : CheckAt(l)' => CheckAt(l)
        BY <2>2, CalledAtTop
      <3> QED
        BY <3>1 DEF LineInv, ClearLines
    <2> QED
      BY <1>4, <2>1, <2>2 DEF InterruptGenerator
  <1>5. CASE EnterCheckChild
    BY <1>5, EnterStep DEF LineInv, CheckLines
  <1>6. CASE LeaveCheckChild
    BY <1>6, LeavesCheck DEF LineInv, MainLines, ClearLines
  <1>7. CASE checkChildProcess /\ ~EnterCheckChild /\ ~LeaveCheckChild
    <2>1. CASE UNCHANGED <<stack, pgCleared>>
      BY <2>1, StackUnchanged DEF Unmoved, LineInv
    <2>2. CASE \E line, next \in CheckLines :
                  Runs("checkChildProcess", line) /\ Goto(next) /\ pgCleared' = pgCleared
      <3>1. PICK line, next \in CheckLines :
               Runs("checkChildProcess", line) /\ Goto(next) /\ pgCleared' = pgCleared
        BY <2>2
      <3>2. /\ StackInv' /\ MainLine' = MainLine
            /\ \A l : CheckAt(l)' <=> l = next
            /\ \A l : ClearAt(l)' <=> ClearAt(l)
        BY <3>1, CheckMoves, LineSets
      <3> QED
        BY <3>1, <3>2 DEF LineInv
    <2>3. CASE \E line : Runs("checkChildProcess", line) /\ CallClear("poll")
      <3>1. PICK line : Runs("checkChildProcess", line) /\ CallClear("poll")
        BY <2>3
      <3>2. /\ StackInv' /\ MainLine' = MainLine
            /\ \A l : ClearAt(l)' => ClearAt(l) \/ l = "objects"
            /\ \A l : CheckAt(l)' => CheckAt(l) \/ l = "poll"
        BY <3>1, CalledByCheck
      <3> QED
        BY <3>2 DEF LineInv, ClearLines, CheckLines
    <2>4. ASSUME NEW p \in Children, Reap(p)
          PROVE  \/ UNCHANGED <<stack, pgCleared>>
                 \/ \E line, next \in CheckLines :
                        Runs("checkChildProcess", line) /\ Goto(next) /\ pgCleared' = pgCleared
                 \/ \E line : Runs("checkChildProcess", line) /\ CallClear("poll")
      BY <2>4 DEF Reap, CheckLines
    <2> QED
      BY <1>7, <2>1, <2>2, <2>3, <2>4
         DEF checkChildProcess, KillIfKnown, WaitAndForget, CheckLines
  <1> QED
    BY <1>1, <1>2, <1>3, <1>4, <1>5, <1>6, <1>7 DEF generator

-----------------------------------------------------------------------------
(* How far startup has come, and the first tick.                           *)

BeforeScheduler == {"semaphores", "handlers", "arguments", "createScheduler"}
BeforeClock     == BeforeScheduler \cup {"schedulerPID", "createClk"}
AfterClock      == {"file", "msgget", "syncClk", "loop", "waitpid"}
Simulating      == {"loop", "waitpid"}

Stages == {"forked", "handlers", "createList", "msgget", "syncClk", "loop", "clearing",
           "shmget", "initialise", "ticking", "stopped", "process"}

LifeInv ==
    /\ life \in [Processes -> {"none", "alive", "zombie", "gone"}]
    /\ life[Generator] \in {"alive", "gone"}
    /\ at \in [Children -> Stages]

StartInv ==
    /\ life[Scheduler] = "none" <=> MainLine \in BeforeScheduler
    /\ life[Clock] = "none" <=> MainLine \in BeforeClock
    /\ life[Child] # "none" => MainLine \in Simulating
    /\ Clock \in known => MainLine \in AfterClock
    /\ MainLine \in {"syncClk"} \cup Simulating => "queue" \in known

TickInv ==
    /\ at[Clock] = "ticking" /\ firstTick = NoTick => clkWord = -1
    /\ FirstTickIsZero
    /\ firstTick # NoTick => /\ MainLine \in Simulating
                            /\ at[Clock] = "ticking"
                            /\ at[Scheduler] \in {"loop", "clearing"}

(* The handler stops clock or scheduler only when both are known.          *)
CheckInv == \A line \in CheckLines : CheckAt(line) /\ line # "poll" => MainLine \in AfterClock

-----------------------------------------------------------------------------
(* What the cleanup has done.                                              *)

(* p has ended, has a SIGINT coming, or is cleaning up already.            *)
Doomed(p) == Alive(p) => p \in sigint \/ at[p] = "clearing"

Sealed(p) == Doomed(p) \/ Forgotten(p)

(* main has forked p and has not assigned its pid yet, and nothing has     *)
(* happened that could keep it from doing so.                              *)
PidLine(p) == IF p = Scheduler THEN "schedulerPID" ELSE "clkPID"

Unassigned(p) == MainLine = PidLine(p) /\ ~pgCleared /\ Generator \notin sigint

KnownInv == \A p \in {Scheduler, Clock} : p \in known \/ Sealed(p) \/ Unassigned(p)

SealInv ==
    /\ \A line \in ClearLines \ {"objects", "killClock"} : ClearAt(line) => Sealed(Clock)
    /\ \A line \in {"waitScheduler", "exit"} : ClearAt(line) => Sealed(Scheduler)
    /\ life[Generator] = "gone" /\ ~returned => Sealed(Clock) /\ Sealed(Scheduler)

Swept == exists \cap ({"queue"} \cup GeneratorSems) = {}

SweepInv ==
    firstTick # NoTick =>
        /\ \A line \in ClearLines \ {"objects"} : ClearAt(line) => Swept
        /\ life[Generator] = "gone" /\ ~returned => Swept
        /\ crashed = {} /\ ~Alive(Clock) => "clkWord" \notin exists

-----------------------------------------------------------------------------
(* Who begins and who ends.                                                *)

ForksScheduler == Fork(Scheduler, "createScheduler", "schedulerPID")
ForksClock     == Fork(Clock, "createClk", "clkPID")

LEMMA EndsLife ==
    ASSUME LifeInv, NEW p \in Children, Alive(p), Ends(p)
    PROVE  /\ life' \in [Processes -> {"none", "alive", "zombie", "gone"}]
           /\ life'[Generator] = life[Generator]
           /\ life'[p] \in {"zombie", "gone"}
           /\ \A q \in Processes : q # p => life'[q] = life[q]
  BY DEF Ends, LifeInv, Processes, Children, Generator, Scheduler, Clock, Child

(* The life of one process at a time changes, and it only goes on.         *)
LifeStep(p) ==
    \/ life'[p] = life[p]
    \/ life[p] = "alive" /\ life'[p] \in {"zombie", "gone"}
    \/ life[p] = "zombie" /\ life'[p] = "gone"

LEMMA LifeCases ==
    ASSUME [Next]_vars
    PROVE  \/ UNCHANGED life
           \/ \E p \in Children : Alive(p) /\ Ends(p) /\ UNCHANGED at
           \/ \E p \in Children : /\ life[p] = "zombie"
                                 /\ life' = [life EXCEPT ![p] = "gone"] /\ UNCHANGED at
           \/ ForksScheduler \/ ForksClock \/ Loop
           \/ ReturnFromMain \/ ExitGenerator \/ InterruptGenerator
  <1> USE DEF Processes, Children, Generator, Scheduler, Clock, Child
  <1>1. CASE generator
    BY <1>1
       DEF generator, main, InitSemaphores, InstallHandlers,
           ReadInput, ForksScheduler, ForksClock, Assign, RaiseInMain, CreateQueue,
           SyncGenerator, pgClearResources, RemoveObjects, KillIfKnown, WaitThen, Waited,
           Awaited, checkChildProcess, EnterCheckChild, Reap, WaitAndForget, LeaveCheckChild
  <1>2. CASE ~generator
    BY <1>2
       DEF Next, vars, scheduler, clock, child, InitScheduler,
           FetchChild, SwitchChild, RaiseInScheduler, InterruptScheduler, ExitScheduler,
           initClk, GetSegment, InitWord, FailInit, FirstTick, InterruptClock, StopItself,
           RunChild, InterruptChild, Does, InheritedClear, Dies, CtrlC, Crash
  <1> QED
    BY <1>1, <1>2

LEMMA StagesTyped ==
    ASSUME LifeInv, [Next]_vars
    PROVE  at' \in [Children -> Stages]
  BY DEF LifeInv, Stages, Next, vars, generator, main, InitSemaphores, InstallHandlers,
         ReadInput, Fork, Assign, RaiseInMain, CreateQueue, SyncGenerator, Loop,
         ReturnFromMain, pgClearResources, RemoveObjects, KillIfKnown, WaitThen,
         ExitGenerator, InterruptGenerator, checkChildProcess, EnterCheckChild, Reap,
         WaitAndForget, LeaveCheckChild, scheduler, clock, child, InitScheduler,
         FetchChild, SwitchChild, RaiseInScheduler, InterruptScheduler, ExitScheduler,
         initClk, GetSegment, InitWord, FailInit, FirstTick, InterruptClock, StopItself,
         RunChild, InterruptChild, Does, InheritedClear, Dies, CtrlC, Crash, Forked

LEMMA LivesGoOn ==
    ASSUME LifeInv, [Next]_vars
    PROVE  /\ LifeInv'
           /\ ~ForksScheduler => LifeStep(Scheduler)
           /\ ~ForksClock => LifeStep(Clock)
           /\ ~Loop => LifeStep(Child)
  <1> USE DEF Processes, Children, Generator, Scheduler, Clock, Child
  <1>1. at' \in [Children -> Stages]
    BY StagesTyped
  <1>2. CASE UNCHANGED life
    BY <1>1, <1>2 DEF LifeInv, LifeStep
  <1>3. CASE \E p \in Children : Alive(p) /\ Ends(p) /\ UNCHANGED at
    <2>1. PICK p \in Children : Alive(p) /\ Ends(p)
      BY <1>3
    <2>2. LifeInv' /\ \A q \in Processes : LifeStep(q)
      BY <1>1, <2>1, EndsLife DEF LifeInv, LifeStep, Alive
    <2> QED
      BY <2>2
  <1>4. CASE \E p \in Children : life[p] = "zombie" /\ life' = [life EXCEPT ![p] = "gone"]
    <2>1. PICK p \in Children : life[p] = "zombie" /\ life' = [life EXCEPT ![p] = "gone"]
      BY <1>4
    <2>2. LifeInv' /\ \A q \in Processes : LifeStep(q)
      BY <1>1, <2>1 DEF LifeInv, LifeStep
    <2> QED
      BY <2>2
  <1>5. CASE ForksScheduler
    <2>1. LifeInv' /\ LifeStep(Clock) /\ LifeStep(Child)
      BY <1>1, <1>5 DEF ForksScheduler, Fork, LifeInv, LifeStep
    <2> QED
      BY <1>5, <2>1
  <1>6. CASE ForksClock
    <2>1. LifeInv' /\ LifeStep(Scheduler) /\ LifeStep(Child)
      BY <1>1, <1>6 DEF ForksClock, Fork, LifeInv, LifeStep
    <2> QED
      BY <1>6, <2>1
  <1>7. CASE Loop
    <2>1. LifeInv' /\ LifeStep(Scheduler) /\ LifeStep(Clock)
      BY <1>1, <1>7 DEF Loop, LifeInv, LifeStep
    <2> QED
      BY <1>7, <2>1
  <1>8. CASE ReturnFromMain \/ ExitGenerator \/ InterruptGenerator
    <2>1. LifeInv' /\ \A q \in Children : LifeStep(q)
      BY <1>1, <1>8
         DEF ReturnFromMain, ExitGenerator, InterruptGenerator, LifeInv, LifeStep
    <2> QED
      BY <2>1
  <1> QED
    BY <1>2, <1>3, <1>4, <1>5, <1>6, <1>7, <1>8, LifeCases

(* The generator ends by returning, by its cleanup, or by a SIGINT before  *)
(* it has a handler.                                                       *)
LEMMA GeneratorGoesOn ==
    ASSUME LifeInv, [Next]_vars, ~Alive(Generator)', Alive(Generator)
    PROVE  ReturnFromMain \/ ExitGenerator \/ InterruptGenerator
  <1> USE DEF Processes, Children, Generator, Scheduler, Clock, Child
  <1>1. ~UNCHANGED life
    BY DEF Alive
  <1>2. ~\E p \in Children : Alive(p) /\ Ends(p) /\ UNCHANGED at
    BY EndsLife DEF Alive
  <1>3. ~\E p \in Children : /\ life[p] = "zombie"
                            /\ life' = [life EXCEPT ![p] = "gone"] /\ UNCHANGED at
    BY DEF LifeInv, Alive
  <1>4. ~(ForksScheduler \/ ForksClock \/ Loop)
    BY DEF ForksScheduler, ForksClock, Fork, Loop, LifeInv, Alive
  <1> QED
    BY <1>1, <1>2, <1>3, <1>4, LifeCases

(* Doom is for ever.                                                       *)
LEMMA DoomedStays ==
    ASSUME LifeInv, [Next]_vars, NEW p \in {Scheduler, Clock}, Doomed(p),
           ~ForksScheduler, ~ForksClock
    PROVE  Doomed(p)'
  <1> USE DEF Processes, Children, Generator, Scheduler, Clock, Child
  <1>1. LifeInv' /\ (Alive(p)' => Alive(p))
    BY LivesGoOn DEF LifeStep, Alive
  <1>2. SUFFICES ASSUME Alive(p), Alive(p)'
                 PROVE  p \in sigint' \/ at'[p] = "clearing"
    BY <1>1 DEF Doomed
  <1>3. p \in sigint \/ at[p] = "clearing"
    BY <1>2 DEF Doomed
  <1>4. CASE generator
    BY <1>3, <1>4
       DEF generator, main, InitSemaphores, InstallHandlers,
           ReadInput, Fork, Assign, RaiseInMain, CreateQueue, SyncGenerator, Loop,
           ReturnFromMain, pgClearResources, RemoveObjects, KillIfKnown, WaitThen,
           ExitGenerator, InterruptGenerator, checkChildProcess, EnterCheckChild, Reap,
           WaitAndForget, LeaveCheckChild, Signalled
  <1>5. ASSUME NEW q \in Children, InheritedClear(q, {}) \/ Dies(q)
                                   \/ InheritedClear(q, {Scheduler})
                                   \/ InheritedClear(q, {Clock, Scheduler, "queue"}), Alive(q)
        PROVE  p \in sigint' \/ at'[p] = "clearing"
    <2>1. Ends(q) /\ UNCHANGED at /\ (p \in sigint /\ p # q => p \in sigint')
      BY <1>5 DEF InheritedClear, Dies, Signalled
    <2>2. p # q
      BY <1>2, <1>5, <2>1, EndsLife DEF Alive
    <2> QED
      BY <1>3, <2>1, <2>2
  <1>6. CASE scheduler
    <2>1. CASE InterruptScheduler /\ ~UNCHANGED at
      BY <1>1, <1>3, <2>1
         DEF InterruptScheduler, InheritedClear, Dies, LifeInv
    <2>2. CASE InterruptScheduler /\ UNCHANGED at
      BY <1>1, <1>5, <2>2 DEF InterruptScheduler, LifeInv
    <2>3. CASE ExitScheduler
      BY <1>5, <2>3 DEF ExitScheduler
    <2> QED
      BY <1>1, <1>3, <1>6, <2>1, <2>2, <2>3
         DEF scheduler, InitScheduler, FetchChild, SwitchChild, RaiseInScheduler, Does,
             generatorVars, Forked, LifeInv
  <1>7. CASE clock
    BY <1>3, <1>5, <1>7
       DEF clock, initClk, GetSegment, InitWord, FailInit, FirstTick, InterruptClock, Does,
           Forked, LifeInv
  <1>8. CASE child
    BY <1>3, <1>5, <1>8
       DEF child, StopItself, RunChild, InterruptChild, Does, LifeInv
  <1>9. CASE CtrlC \/ (\E q \in {Scheduler, Clock} : Crash(q)) \/ UNCHANGED vars
    BY <1>3, <1>9 DEF CtrlC, Crash, Signalled, vars
  <1> QED
    BY <1>4, <1>6, <1>7, <1>8, <1>9 DEF Next

-----------------------------------------------------------------------------
(* Startup, step by step.                                                  *)

(* Handlers, cleanup and the other processes leave main where it is.       *)
LEMMA NotMain ==
    ASSUME StackInv, LineInv, [Next]_vars, ~main
    PROVE  /\ MainLine' = MainLine \/ (MainLine = "waitpid" /\ MainLine' = "loop")
           /\ known' \subseteq known /\ ("queue" \in known => "queue" \in known')
  <1>1. known' \subseteq known /\ ("queue" \in known => "queue" \in known')
    BY OutsideGenerator
       DEF generator, pgClearResources, RemoveObjects, KillIfKnown, WaitThen,
           ExitGenerator, InterruptGenerator, checkChildProcess, EnterCheckChild, Reap,
           WaitAndForget, LeaveCheckChild, generatorVars, Scheduler, Clock
  <1>2. CASE ~generator
    BY <1>1, <1>2, OutsideGenerator, StackUnchanged DEF generatorVars, Unmoved
  <1>3. CASE pgClearResources
    <2>1. CASE UNCHANGED <<stack, pgCleared>>
      BY <1>1, <2>1, StackUnchanged DEF Unmoved
    <2>2. CASE \E line, next \in ClearLines :
                  Runs("pgClearResources", line) /\ Goto(next) /\ pgCleared' = pgCleared
      BY <1>1, <2>2, ClearMoves, LineSets
    <2> QED
      BY <1>3, <2>1, <2>2
         DEF pgClearResources, RemoveObjects, KillIfKnown, WaitThen, ExitGenerator,
             generatorVars, ClearLines
  <1>4. CASE InterruptGenerator
    BY <1>1, <1>4, StackUnchanged, CalledAtTop DEF InterruptGenerator, Unmoved
  <1>5. CASE EnterCheckChild
    BY <1>1, <1>5, EnterStep
  <1>6. CASE LeaveCheckChild
    BY <1>1, <1>6, LeavesCheck
  <1>7. CASE checkChildProcess /\ ~EnterCheckChild /\ ~LeaveCheckChild
    <2>1. CASE UNCHANGED <<stack, pgCleared>>
      BY <1>1, <2>1, StackUnchanged DEF Unmoved
    <2>2. CASE \E line, next \in CheckLines :
                  Runs("checkChildProcess", line) /\ Goto(next) /\ pgCleared' = pgCleared
      BY <1>1, <2>2, CheckMoves, LineSets
    <2>3. CASE \E line : Runs("checkChildProcess", line) /\ CallClear("poll")
      BY <1>1, <2>3, CalledByCheck
    <2>4. ASSUME NEW p \in Children, Reap(p)
          PROVE  \/ UNCHANGED <<stack, pgCleared>>
                 \/ \E line, next \in CheckLines :
                        Runs("checkChildProcess", line) /\ Goto(next) /\ pgCleared' = pgCleared
                 \/ \E line : Runs("checkChildProcess", line) /\ CallClear("poll")
      BY <2>4 DEF Reap, CheckLines
    <2> QED
      BY <1>7, <2>1, <2>2, <2>3, <2>4
         DEF checkChildProcess, KillIfKnown, WaitAndForget, CheckLines
  <1> QED
    BY <1>2, <1>3, <1>4, <1>5, <1>6, <1>7 DEF generator

LEMMA StartInvStep ==
    ASSUME StackInv, LineInv, LifeInv, StartInv, [Next]_vars
    PROVE  StartInv'
  <1> USE DEF Processes, Children, Generator, Scheduler, Clock, Child
  <1>1. CASE ~main
    <2>1. ~ForksScheduler /\ ~ForksClock /\ ~Loop
      BY <1>1 DEF main, ForksScheduler, ForksClock
    <2>2. LifeStep(Scheduler) /\ LifeStep(Clock) /\ LifeStep(Child)
      BY <2>1, LivesGoOn
    <2>3. /\ MainLine' = MainLine \/ (MainLine = "waitpid" /\ MainLine' = "loop")
          /\ known' \subseteq known /\ ("queue" \in known => "queue" \in known')
      BY <1>1, NotMain
    <2> QED
      BY <2>2, <2>3
         DEF StartInv, LifeStep, BeforeScheduler, BeforeClock, AfterClock, Simulating
  <1>2. ASSUME NEW line, NEW next \in MainLines,
               Runs("main", line), Goto(next), pgCleared' = pgCleared
        PROVE  MainLine = line /\ MainLine' = next
    BY <1>2, MainMoves, LineSets
  <1> USE DEF StartInv, BeforeScheduler, BeforeClock, AfterClock, Simulating, MainLines
  <1>3. CASE ForksScheduler
    BY <1>2, <1>3 DEF ForksScheduler, Fork, LifeInv
  <1>4. CASE ForksClock
    BY <1>2, <1>4 DEF ForksClock, Fork, LifeInv
  <1>5. CASE InitSemaphores
    BY <1>2, <1>5 DEF InitSemaphores
  <1>6. CASE InstallHandlers
    BY <1>2, <1>6 DEF InstallHandlers
  <1>7. CASE ReadInput("arguments", "createScheduler") \/ ReadInput("file", "msgget")
    BY <1>2, <1>7 DEF ReadInput
  <1>8. CASE Assign(Scheduler, "schedulerPID", "createClk") \/ Assign(Clock, "clkPID", "file")
    BY <1>2, <1>8 DEF Assign
  <1>9. CASE CreateQueue
    BY <1>2, <1>9 DEF CreateQueue
  <1>10. CASE SyncGenerator
    BY <1>2, <1>10 DEF SyncGenerator
  <1>11. CASE RaiseInMain
    <2>1. MainLine' = MainLine
      BY <1>11, StackUnchanged DEF RaiseInMain, generatorVars, Unmoved
    <2> QED
      BY <1>11, <2>1 DEF RaiseInMain, generatorVars
  <1>12. CASE ReturnFromMain
    <2>1. MainLine' = MainLine
      BY <1>12, StackUnchanged DEF ReturnFromMain, Unmoved
    <2> QED
      BY <1>12, <2>1 DEF ReturnFromMain, LifeInv
  <1>13. CASE Loop
    <2>1. MainLine = "loop"
      BY <1>13, RunsAt DEF Loop
    <2>2. MainLine' \in {"loop", "waitpid"}
      <3>1. MainLine' = MainLine \/ <<MainLine, MainLine'>> \in MainEdges
        BY <1>13, MainStep DEF main
      <3> QED
        BY <2>1, <3>1 DEF MainEdges
    <2> QED
      BY <1>13, <2>1, <2>2 DEF Loop, LifeInv
  <1> QED
    BY <1>1, <1>3, <1>4, <1>5, <1>6, <1>7, <1>8, <1>9, <1>10, <1>11, <1>12, <1>13
       DEF main, ForksScheduler, ForksClock

LEMMA CheckInvStep ==
    ASSUME StackInv, LineInv, StartInv, CheckInv, [Next]_vars
    PROVE  CheckInv'
  <1>1. CASE main
    BY <1>1, MainStep DEF CheckInv
  <1>2. ASSUME ~main, MainLine \in AfterClock PROVE MainLine' \in AfterClock
    BY <1>2, NotMain DEF AfterClock
  <1>3. ASSUME ~main, \A line \in CheckLines : CheckAt(line)' => CheckAt(line) \/ line = "poll"
        PROVE  CheckInv'
    BY <1>2, <1>3 DEF CheckInv
  <1>4. CASE ~generator
    BY <1>3, <1>4, OutsideGenerator, StackUnchanged DEF generator, generatorVars, Unmoved
  <1>5. CASE pgClearResources /\ ~main
    <2>1. CASE UNCHANGED <<stack, pgCleared>>
      BY <1>3, <1>5, <2>1, StackUnchanged DEF Unmoved
    <2>2. CASE \E line, next \in ClearLines :
                  Runs("pgClearResources", line) /\ Goto(next) /\ pgCleared' = pgCleared
      BY <1>3, <1>5, <2>2, ClearMoves, LineSets
    <2> QED
      BY <1>5, <2>1, <2>2
         DEF pgClearResources, RemoveObjects, KillIfKnown, WaitThen, ExitGenerator,
             generatorVars, ClearLines
  <1>6. CASE InterruptGenerator /\ ~main
    BY <1>3, <1>6, StackUnchanged, CalledAtTop DEF InterruptGenerator, Unmoved
  <1>7. CASE EnterCheckChild /\ ~main
    BY <1>3, <1>7, EnterStep
  <1>8. CASE LeaveCheckChild /\ ~main
    BY <1>3, <1>8, LeavesCheck
  <1>9. CASE checkChildProcess /\ ~EnterCheckChild /\ ~LeaveCheckChild /\ ~main
    <2>1. CASE UNCHANGED <<stack, pgCleared>>
      BY <1>3, <1>9, <2>1, StackUnchanged DEF Unmoved
    (* Both are known when the handler is about to stop one of them.       *)
    <2>2. ASSUME NEW line, NEW next \in CheckLines, MainLine \in AfterClock,
                 Runs("checkChildProcess", line), Goto(next), pgCleared' = pgCleared
          PROVE  CheckInv'
      <3>1. MainLine' = MainLine
        BY <2>2, CheckMoves, LineSets
      <3> QED
        BY <2>2, <3>1 DEF CheckInv
    <2>3. CASE \E line : Runs("checkChildProcess", line) /\ CallClear("poll")
      BY <1>3, <1>9, <2>3, CalledByCheck
    <2>4. ASSUME NEW p \in Children, Reap(p), ~UNCHANGED <<stack, pgCleared>>, ~CallClear("poll")
          PROVE  CheckInv'
      <3>1. Clock \in known /\ Runs("checkChildProcess", "poll") /\ pgCleared' = pgCleared
            /\ \E next \in CheckLines : Goto(next)
        BY <2>4 DEF Reap, Other, CheckLines, Scheduler, Clock
      <3>2. MainLine \in AfterClock
        BY <3>1 DEF StartInv
      <3> QED
        BY <2>2, <3>1, <3>2
    <2>5. ASSUME NEW p, NEW line \in {"killScheduler", "killClock"}, NEW wait \in CheckLines,
                 KillIfKnown("checkChildProcess", p, line, wait, "poll")
          PROVE  CheckInv'
      <3>1. /\ Runs("checkChildProcess", line) /\ pgCleared' = pgCleared
            /\ \E next \in CheckLines : Goto(next)
        BY <2>5 DEF KillIfKnown, CheckLines
      <3>2. MainLine \in AfterClock
        BY <3>1, RunsAt DEF CheckInv, CheckLines
      <3> QED
        BY <2>2, <3>1, <3>2
    <2> QED
      BY <1>9, <2>1, <2>3, <2>4, <2>5
         DEF checkChildProcess, WaitAndForget, Reap, CheckLines
  <1> QED
    BY <1>1, <1>4, <1>5, <1>6, <1>7, <1>8, <1>9 DEF generator

LEMMA TickInvStep ==
    ASSUME StackInv, LineInv, LifeInv, TickInv, [Next]_vars
    PROVE  TickInv'
  <1> USE DEF Processes, Children, Generator, Scheduler, Clock, Child
  <1>1. firstTick # NoTick => MainLine' \in Simulating
    <2>1. CASE main
      BY <2>1, MainStep DEF TickInv, Simulating, MainEdges
    <2>2. CASE ~main
      BY <2>2, NotMain DEF TickInv, Simulating
    <2> QED
      BY <2>1, <2>2
  <1>2. CASE FirstTick
    <2>1. stack = <<Frame("main", "loop")>> /\ UNCHANGED <<stack, pgCleared>>
      BY <1>2 DEF FirstTick, Does, generatorVars
    <2>2. MainLine' \in Simulating
      BY <2>1 DEF MainLine, Simulating, Frame
    <2>3. at' = at /\ at[Clock] = "ticking" /\ at[Scheduler] = "loop" /\ firstTick = NoTick
          /\ clkWord' = clkWord + 1 /\ firstTick' = clkWord'
      BY <1>2 DEF FirstTick, Does, LifeInv
    <2> QED
      BY <2>2, <2>3 DEF TickInv, FirstTickIsZero, NoTick
  <1>3. CASE clock /\ ~FirstTick
    <2>1. firstTick' = firstTick
      BY <1>3 DEF clock, initClk, GetSegment, InitWord, FailInit, InterruptClock, Does,
                  InheritedClear, Dies, tickVars
    <2>2. /\ at[Clock] = "ticking" => clkWord' = clkWord /\ at' = at
          /\ at'[Scheduler] = at[Scheduler]
      BY <1>3 DEF clock, initClk, GetSegment, InitWord, FailInit, InterruptClock, Does,
                  InheritedClear, Dies, tickVars, LifeInv, Forked
    <2>3. at'[Clock] = "ticking" /\ at[Clock] # "ticking" => clkWord' = -1
      BY <1>3 DEF clock, initClk, GetSegment, InitWord, FailInit, InterruptClock, Does,
                  InheritedClear, Dies, LifeInv, Forked
    <2> QED
      BY <1>1, <2>1, <2>2, <2>3 DEF TickInv, FirstTickIsZero
  <1>4. CASE scheduler
    <2>1. UNCHANGED tickVars /\ at'[Clock] = at[Clock]
      BY <1>4
         DEF scheduler, InitScheduler, FetchChild, SwitchChild, RaiseInScheduler,
             InterruptScheduler, ExitScheduler, Does, InheritedClear, Dies, LifeInv
    <2>2. at[Scheduler] \in {"loop", "clearing"} => at'[Scheduler] \in {"loop", "clearing"}
      BY <1>4
         DEF scheduler, InitScheduler, FetchChild, SwitchChild, RaiseInScheduler,
             InterruptScheduler, ExitScheduler, Does, InheritedClear, Dies, LifeInv, Forked
    <2> QED
      BY <1>1, <2>1, <2>2 DEF TickInv, FirstTickIsZero, tickVars
  <1>5. CASE ~clock /\ ~scheduler
    <2>1. UNCHANGED tickVars /\ at'[Clock] = at[Clock] /\ at'[Scheduler] = at[Scheduler]
      BY <1>5
         DEF Next, vars, generator, main, InitSemaphores, InstallHandlers,
             ReadInput, Fork, Assign, RaiseInMain, CreateQueue, SyncGenerator, Loop,
             ReturnFromMain, pgClearResources, RemoveObjects, KillIfKnown, WaitThen,
             ExitGenerator, InterruptGenerator, checkChildProcess, EnterCheckChild, Reap,
             WaitAndForget, LeaveCheckChild, child, StopItself, RunChild, InterruptChild,
             Does, InheritedClear, Dies, CtrlC, Crash, LifeInv
    <2> QED
      BY <1>1, <2>1 DEF TickInv, FirstTickIsZero, tickVars
  <1> QED
    BY <1>2, <1>3, <1>4, <1>5

-----------------------------------------------------------------------------
(* Nobody is forgotten but the clock, and that in one place only.          *)

LEMMA SealedStays ==
    ASSUME StackInv, LineInv, LifeInv, [Next]_vars, ~main,
           NEW p \in {Scheduler, Clock}, Sealed(p)
    PROVE  Sealed(p)'
  <1>1. ~ForksScheduler /\ ~ForksClock
    BY DEF main, ForksScheduler, ForksClock
  <1>2. CASE Doomed(p)
    BY <1>1, <1>2, DoomedStays DEF Sealed
  <1>3. CASE Forgotten(p)
    <2>1. p = Clock /\ MainLine = "clkPID" /\ life[Scheduler] = "gone"
      BY <1>3 DEF Forgotten, MainLine
    <2>2. MainLine' = "clkPID" /\ life'[Scheduler] = "gone"
      BY <1>1, <2>1, NotMain, LivesGoOn DEF LifeStep
    <2> QED
      BY <2>1, <2>2 DEF Sealed, Forgotten, MainLine
  <1> QED
    BY <1>2, <1>3 DEF Sealed

(* Between a fork and the assignment main does nothing else.               *)
LEMMA MainAssigns ==
    ASSUME StackInv, main
    PROVE  /\ MainLine = "schedulerPID" => Assign(Scheduler, "schedulerPID", "createClk")
           /\ MainLine = "clkPID" => Assign(Clock, "clkPID", "file")
  <1>1. ASSUME NEW line, Runs("main", line) PROVE MainLine = line
    BY <1>1, RunsAt
  <1>2. ASSUME ~Assign(Scheduler, "schedulerPID", "createClk"), ~Assign(Clock, "clkPID", "file")
        PROVE  \E line : Runs("main", line) /\ line \notin {"schedulerPID", "clkPID"}
    BY <1>2
       DEF main, InitSemaphores, InstallHandlers, ReadInput, Fork, RaiseInMain,
           CreateQueue, SyncGenerator, Loop, ReturnFromMain
  <1>3. Assign(Scheduler, "schedulerPID", "createClk") => MainLine = "schedulerPID"
    BY <1>1 DEF Assign
  <1>4. Assign(Clock, "clkPID", "file") => MainLine = "clkPID"
    BY <1>1 DEF Assign
  <1>5. CASE Assign(Scheduler, "schedulerPID", "createClk")
    BY <1>3, <1>5
  <1>6. CASE Assign(Clock, "clkPID", "file")
    BY <1>4, <1>6
  <1>7. CASE ~Assign(Scheduler, "schedulerPID", "createClk") /\ ~Assign(Clock, "clkPID", "file")
    <2>1. PICK line : Runs("main", line) /\ line \notin {"schedulerPID", "clkPID"}
      BY <1>2, <1>7
    <2>2. MainLine = line
      BY <1>1, <2>1
    <2> QED
      BY <2>1, <2>2
  <1> QED
    BY <1>5, <1>6, <1>7

(* The cleanup begins while a pid is unassigned only when its process is   *)
(* signalled as well, or has ended, or is then forgotten.                  *)
LEMMA UnassignedEnds ==
    ASSUME StackInv, LineInv, LifeInv, StartInv, CheckInv, [Next]_vars, ~main,
           NEW p \in {Scheduler, Clock}, Unassigned(p)
    PROVE  Unassigned(p)' \/ Sealed(p)'
  <1> USE DEF Processes, Children, Generator, Scheduler, Clock, Child
  <1>1. MainLine = PidLine(p) /\ ~pgCleared /\ Generator \notin sigint
    BY DEF Unassigned
  <1>2. MainLine' = MainLine
    BY <1>1, NotMain DEF PidLine
  <1>3. ASSUME pgCleared' = pgCleared, Generator \notin sigint' PROVE Unassigned(p)'
    BY <1>1, <1>2, <1>3 DEF Unassigned, PidLine
  <1>4. CASE CtrlC
    BY <1>4 DEF CtrlC, Signalled, Sealed, Doomed, Alive
  <1>5. CASE InterruptGenerator
    BY <1>1, <1>5 DEF InterruptGenerator
  <1>6. CASE \E q \in Children : Reap(q) /\ CallClear("poll")
    <2>1. PICK q \in Children : Reap(q)
      BY <1>6
    <2>2. life[q] = "zombie" /\ life' = [life EXCEPT ![q] = "gone"]
      BY <2>1 DEF Reap
    <2>3. life[Child] = "none" /\ (p = Scheduler => life[Clock] = "none")
      BY <1>1 DEF PidLine, StartInv, Simulating, BeforeClock
    <2>4. life'[q] = "gone"
      BY <2>2 DEF LifeInv
    <2>5. CASE q = p
      BY <2>4, <2>5 DEF Sealed, Doomed, Alive
    <2>6. CASE q # p
      <3>1. p = Clock /\ q = Scheduler
        BY <2>2, <2>3, <2>6
      <3> QED
        BY <1>1, <1>2, <2>4, <3>1 DEF Sealed, Forgotten, MainLine, PidLine
    <2> QED
      BY <2>5, <2>6
  <1>7. CASE WaitAndForget(Scheduler, "waitScheduler") \/ WaitAndForget(Clock, "waitClock")
    <2>1. CheckAt("waitScheduler") \/ CheckAt("waitClock")
      BY <1>7, RunsAt DEF WaitAndForget
    <2> QED
      BY <1>1, <2>1 DEF CheckInv, CheckLines, AfterClock, PidLine
  <1>8. CASE generator /\ ~InterruptGenerator /\ ~(\E q \in Children : Reap(q) /\ CallClear("poll"))
             /\ ~WaitAndForget(Scheduler, "waitScheduler") /\ ~WaitAndForget(Clock, "waitClock")
    BY <1>1, <1>3, <1>8
       DEF generator, pgClearResources, RemoveObjects, KillIfKnown, WaitThen,
           ExitGenerator, checkChildProcess, EnterCheckChild, Reap,
           LeaveCheckChild, Signalled, generatorVars
  <1>9. CASE ~generator /\ ~CtrlC
    <2>1. pgCleared' = pgCleared
      BY <1>9, OutsideGenerator DEF generatorVars
    <2>2. Generator \notin sigint'
      BY <1>1, <1>9
         DEF Next, vars, scheduler, clock, child, InitScheduler, FetchChild,
             SwitchChild, RaiseInScheduler, InterruptScheduler, ExitScheduler, initClk,
             GetSegment, InitWord, FailInit, FirstTick, InterruptClock, StopItself, RunChild,
             InterruptChild, Does, InheritedClear, Dies, Crash, Signalled
    <2> QED
      BY <1>3, <2>1, <2>2
  <1> QED
    BY <1>4, <1>5, <1>6, <1>7, <1>8, <1>9

LEMMA KnownInvStep ==
    ASSUME StackInv, LineInv, LifeInv, StartInv, CheckInv, KnownInv, [Next]_vars
    PROVE  KnownInv'
  <1> USE DEF Processes, Children, Generator, Scheduler, Clock, Child
  <1> SUFFICES ASSUME NEW p \in {Scheduler, Clock}
               PROVE  p \in known' \/ Sealed(p)' \/ Unassigned(p)'
    BY DEF KnownInv
  <1>1. p \in known \/ Sealed(p) \/ Unassigned(p)
    BY DEF KnownInv
  <1>2. CASE ~main
    <2>1. CASE Sealed(p)
      BY <1>2, <2>1, SealedStays
    <2>2. CASE Unassigned(p)
      BY <1>2, <2>2, UnassignedEnds
    <2>3. CASE p \in known /\ p \notin known'
      <3>1. Waited({p})
        BY <1>2, <2>3, OutsideGenerator
           DEF generator, pgClearResources, RemoveObjects, KillIfKnown, WaitThen,
               ExitGenerator, InterruptGenerator, checkChildProcess, EnterCheckChild, Reap,
               WaitAndForget, LeaveCheckChild, generatorVars
      <3>2. ~Alive(p)'
        BY <3>1 DEF Waited, Unreaped, Alive, LifeInv
      <3> QED
        BY <3>2 DEF Sealed, Doomed
    <2> QED
      BY <1>1, <2>1, <2>2, <2>3
  <1>3. CASE ForksScheduler
    <2>1. /\ Runs("main", "createScheduler") /\ Goto("schedulerPID")
          /\ UNCHANGED <<pgCleared, sigint>> /\ life' = [life EXCEPT ![Scheduler] = "alive"]
      BY <1>3 DEF ForksScheduler, Fork
    <2>2. /\ MainLine = "createScheduler" /\ MainLine' = "schedulerPID" /\ ~pgCleared'
          /\ Generator \notin sigint'
      BY <2>1, MainMoves, RunsAt DEF Lines, MainLines
    <2>3. CASE p = Scheduler
      BY <2>2, <2>3 DEF Unassigned, PidLine
    <2>4. CASE p = Clock
      BY <2>1, <2>2, <2>4 DEF StartInv, BeforeClock, BeforeScheduler, Sealed, Doomed, Alive, LifeInv
    <2> QED
      BY <2>3, <2>4
  <1>4. CASE ForksClock
    <2>1. /\ Runs("main", "createClk") /\ Goto("clkPID") /\ UNCHANGED <<pgCleared, sigint, at, known>>
          /\ life' = [life EXCEPT ![Clock] = "alive"]
      BY <1>4 DEF ForksClock, Fork
    <2>2. /\ MainLine = "createClk" /\ MainLine' = "clkPID" /\ ~pgCleared'
          /\ Generator \notin sigint'
      BY <2>1, MainMoves, RunsAt DEF Lines, MainLines
    <2>3. CASE p = Clock
      BY <2>2, <2>3 DEF Unassigned, PidLine
    <2>4. CASE p = Scheduler
      <3>1. p \in known \/ Doomed(p)
        BY <1>1, <2>2, <2>4 DEF Sealed, Forgotten, Unassigned, PidLine
      <3> QED
        BY <2>1, <2>4, <3>1 DEF Sealed, Doomed, Alive, LifeInv
    <2> QED
      BY <2>3, <2>4
  <1>5. CASE Assign(Scheduler, "schedulerPID", "createClk")
    <2>1. MainLine = "schedulerPID" /\ known' = known \cup {Scheduler} /\ UNCHANGED life
      BY <1>5, RunsAt DEF Assign
    <2> QED
      BY <2>1 DEF StartInv, BeforeClock, Sealed, Doomed, Alive
  <1>6. CASE Assign(Clock, "clkPID", "file")
    <2>1. /\ MainLine = "clkPID" /\ known' = known \cup {Clock}
          /\ UNCHANGED <<life, at, sigint>>
      BY <1>6, RunsAt DEF Assign
    <2>2. CASE p = Scheduler
      <3>1. p \in known \/ Doomed(p)
        BY <1>1, <2>1, <2>2 DEF Sealed, Forgotten, Unassigned, PidLine
      <3> QED
        BY <2>1, <3>1 DEF Sealed, Doomed, Alive
    <2> QED
      BY <2>1, <2>2
  <1>7. CASE /\ main /\ ~ForksScheduler /\ ~ForksClock
             /\ ~Assign(Scheduler, "schedulerPID", "createClk") /\ ~Assign(Clock, "clkPID", "file")
    <2>1. MainLine # "schedulerPID" /\ MainLine # "clkPID"
      BY <1>7, MainAssigns
    <2>2. p \in known \/ Doomed(p)
      BY <1>1, <2>1 DEF Sealed, Forgotten, Unassigned, PidLine, MainLine
    <2>3. known \subseteq known'
      BY <1>7
         DEF main, InitSemaphores, InstallHandlers, ReadInput, ForksScheduler, ForksClock,
             RaiseInMain, CreateQueue, SyncGenerator, Loop, ReturnFromMain, generatorVars
    <2>4. Doomed(p) => Doomed(p)'
      BY <1>7, DoomedStays
    <2> QED
      BY <2>2, <2>3, <2>4 DEF Sealed
  <1> QED
    BY <1>2, <1>3, <1>4, <1>5, <1>6, <1>7

-----------------------------------------------------------------------------
(* The cleanup goes on only when it has dealt with the one it is at.       *)

(* Where the cleanup's next line comes from.                               *)
LEMMA ClearComesFrom ==
    ASSUME StackInv, LineInv, [Next]_vars, NEW l, ClearAt(l)', l # "objects"
    PROVE  \/ ClearAt(l)
           \/ RemoveObjects /\ l = "killClock"
           \/ /\ KillIfKnown("pgClearResources", Clock, "killClock", "waitClock", "killScheduler")
              /\ ClearAt("killClock") /\ l \in {"waitClock", "killScheduler"}
           \/ ClearAt("waitClock") /\ l = "killScheduler"
           \/ /\ KillIfKnown("pgClearResources", Scheduler, "killScheduler", "waitScheduler", "exit")
              /\ ClearAt("killScheduler") /\ l \in {"waitScheduler", "exit"}
           \/ ClearAt("waitScheduler") /\ l = "exit"
  <1>1. CASE ~generator
    BY <1>1, OutsideGenerator, StackUnchanged DEF generatorVars, Unmoved
  <1>2. CASE main
    BY <1>2, MainStep
  <1>3. CASE UNCHANGED <<stack, pgCleared>>
    BY <1>3, StackUnchanged DEF Unmoved
  <1>4. ASSUME NEW line, NEW next \in ClearLines, Runs("pgClearResources", line), Goto(next),
               pgCleared' = pgCleared
        PROVE  ClearAt(line) /\ l = next
    BY <1>4, ClearMoves, LineSets
  <1>5. CASE RemoveObjects
    BY <1>4, <1>5 DEF RemoveObjects, ClearLines
  <1>6. CASE KillIfKnown("pgClearResources", Clock, "killClock", "waitClock", "killScheduler")
    <2>1. /\ Runs("pgClearResources", "killClock") /\ pgCleared' = pgCleared
          /\ Goto("waitClock") \/ Goto("killScheduler")
      BY <1>6 DEF KillIfKnown
    <2>2. ClearAt("killClock") /\ l \in {"waitClock", "killScheduler"}
      BY <1>4, <2>1 DEF ClearLines
    <2> QED
      BY <1>6, <2>2
  <1>7. CASE WaitThen(Clock, "waitClock", "killScheduler")
    BY <1>4, <1>7 DEF WaitThen, ClearLines
  <1>8. CASE KillIfKnown("pgClearResources", Scheduler, "killScheduler", "waitScheduler", "exit")
    <2>1. /\ Runs("pgClearResources", "killScheduler") /\ pgCleared' = pgCleared
          /\ Goto("waitScheduler") \/ Goto("exit")
      BY <1>8 DEF KillIfKnown
    <2>2. ClearAt("killScheduler") /\ l \in {"waitScheduler", "exit"}
      BY <1>4, <2>1 DEF ClearLines
    <2> QED
      BY <1>8, <2>2
  <1>9. CASE WaitThen(Scheduler, "waitScheduler", "exit")
    BY <1>4, <1>9 DEF WaitThen, ClearLines
  <1>10. CASE ExitGenerator
    BY <1>3, <1>10 DEF ExitGenerator, generatorVars
  <1>11. CASE InterruptGenerator
    BY <1>3, <1>11, CalledAtTop DEF InterruptGenerator
  <1>12. CASE EnterCheckChild
    BY <1>12, EnterStep
  <1>13. CASE LeaveCheckChild
    BY <1>13, LeavesCheck
  <1>14. CASE checkChildProcess /\ ~EnterCheckChild /\ ~LeaveCheckChild
    <2>1. ASSUME NEW line, NEW next \in CheckLines, Runs("checkChildProcess", line), Goto(next),
                 pgCleared' = pgCleared
          PROVE  ClearAt(l)
      BY <2>1, CheckMoves, LineSets
    <2>2. ASSUME NEW line, Runs("checkChildProcess", line), CallClear("poll")
          PROVE  ClearAt(l)
      BY <2>2, CalledByCheck
    <2>3. ASSUME NEW p \in Children, Reap(p)
          PROVE  ClearAt(l)
      BY <1>3, <2>1, <2>2, <2>3, StackUnchanged DEF Reap, CheckLines, Unmoved
    <2> QED
      BY <1>14, <2>1, <2>2, <2>3
         DEF checkChildProcess, KillIfKnown, WaitAndForget, CheckLines
  <1> QED
    BY <1>1, <1>2, <1>5, <1>6, <1>7, <1>8, <1>9, <1>10, <1>11, <1>12, <1>13, <1>14
       DEF generator, pgClearResources

(* A process that is killed when its pid is known is dealt with, because   *)
(* one whose pid is unknown already is.                                    *)
LEMMA KilledIsSealed ==
    ASSUME StackInv, LineInv, LifeInv, KnownInv, [Next]_vars, ~main,
           NEW p \in {Scheduler, Clock}, NEW line, NEW wait, NEW next,
           KillIfKnown("pgClearResources", p, line, wait, next)
    PROVE  Sealed(p)'
  <1>1. pgCleared
    BY RunsAt DEF KillIfKnown
  <1>2. CASE p \in known
    <2>1. sigint' = Signalled({p}) /\ UNCHANGED life
      BY <1>2 DEF KillIfKnown
    <2> QED
      BY <2>1 DEF Signalled, Sealed, Doomed, Alive
  <1>3. CASE p \notin known
    <2>1. Sealed(p)
      BY <1>1, <1>3 DEF KnownInv, Unassigned
    <2> QED
      BY <2>1, SealedStays
  <1> QED
    BY <1>2, <1>3

LEMMA SealInvStep ==
    ASSUME StackInv, LineInv, LifeInv, StartInv, KnownInv, SealInv, [Next]_vars
    PROVE  SealInv'
  <1> USE DEF Processes, Children, Generator, Scheduler, Clock, Child
  <1>1. ASSUME NEW l \in ClearLines \ {"objects", "killClock"}, ClearAt(l)'
        PROVE  Sealed(Clock)'
    <2>1. ~main
      BY <1>1, MainStep
    <2>2. CASE \E k \in ClearLines \ {"objects", "killClock"} : ClearAt(k)
      BY <2>1, <2>2, SealedStays DEF SealInv
    <2>3. CASE KillIfKnown("pgClearResources", Clock, "killClock", "waitClock", "killScheduler")
      BY <2>1, <2>3, KilledIsSealed
    <2> QED
      BY <1>1, <2>2, <2>3, ClearComesFrom DEF ClearLines
  <1>2. ASSUME NEW l \in {"waitScheduler", "exit"}, ClearAt(l)'
        PROVE  Sealed(Scheduler)'
    <2>1. ~main
      BY <1>2, MainStep
    <2>2. CASE \E k \in {"waitScheduler", "exit"} : ClearAt(k)
      BY <2>1, <2>2, SealedStays DEF SealInv
    <2>3. CASE KillIfKnown("pgClearResources", Scheduler, "killScheduler", "waitScheduler", "exit")
      BY <2>1, <2>3, KilledIsSealed
    <2> QED
      BY <1>2, <2>2, <2>3, ClearComesFrom
  <1>3. ASSUME life'[Generator] = "gone", ~returned'
        PROVE  Sealed(Clock)' /\ Sealed(Scheduler)'
    <2>1. ~ReturnFromMain
      BY <1>3 DEF ReturnFromMain
    <2>2. ~returned
      BY <1>3, <2>1, OutsideGenerator
         DEF generator, main, InitSemaphores, InstallHandlers,
             ReadInput, Fork, Assign, RaiseInMain, CreateQueue, SyncGenerator, Loop,
             pgClearResources, RemoveObjects, KillIfKnown, WaitThen,
             ExitGenerator, InterruptGenerator, checkChildProcess, EnterCheckChild, Reap,
             WaitAndForget, LeaveCheckChild, generatorVars
    <2>3. CASE Alive(Generator)
      <3>1. ExitGenerator \/ InterruptGenerator
        BY <1>3, <2>1, <2>3, GeneratorGoesOn DEF Alive
      <3>2. CASE ExitGenerator
        <4>1. ClearAt("exit") /\ ClearAt("exit")' /\ "exit" \in ClearLines
          BY <3>2, RunsAt, StackUnchanged DEF ExitGenerator, generatorVars, Unmoved, ClearLines
        <4> QED
          BY <1>1, <1>2, <4>1
      <3>3. CASE InterruptGenerator
        <4>1. Top.line \in {"semaphores", "handlers"} /\ UNCHANGED <<stack, pgCleared>>
              /\ life' = [life EXCEPT ![Generator] = "gone"]
          BY <1>3, <2>3, <3>3 DEF InterruptGenerator, Alive
        <4>2. Top.function = "main"
          BY <4>1, TopFrame, FrameOfTop DEF Frames, LineInv, ClearLines, CheckLines
        <4>3. MainLine \in {"semaphores", "handlers"}
          BY <4>1, <4>2, FrameOfTop
        <4>4. life[Scheduler] = "none" /\ life[Clock] = "none"
          BY <4>3 DEF StartInv, BeforeScheduler, BeforeClock
        <4> QED
          BY <4>1, <4>4 DEF Sealed, Doomed, Alive
      <3> QED
        BY <3>1, <3>2, <3>3
    <2>4. CASE ~Alive(Generator)
      <3>1. ~main
        BY <2>4, MainStep
      <3>2. Sealed(Clock) /\ Sealed(Scheduler)
        BY <2>2, <2>4 DEF SealInv, LifeInv, Alive
      <3> QED
        BY <3>1, <3>2, SealedStays
    <2> QED
      BY <2>3, <2>4
  <1> QED
    BY <1>1, <1>2, <1>3 DEF SealInv

-----------------------------------------------------------------------------
(* Once the simulation runs nobody makes again what has been removed.      *)

LEMMA SweptStays ==
    ASSUME StackInv, LifeInv, TickInv, [Next]_vars, firstTick # NoTick
    PROVE  /\ Swept => Swept'
           /\ "clkWord" \notin exists => "clkWord" \notin exists'
  <1> USE DEF Processes, Children, Generator, Scheduler, Clock, Child
  <1>1. /\ at[Clock] = "ticking" /\ at[Scheduler] \in {"loop", "clearing"}
        /\ MainLine \in Simulating
    BY DEF TickInv
  <1>2. CASE exists' \subseteq exists
    BY <1>2 DEF Swept
  <1>3. CASE scheduler
    BY <1>1, <1>2, <1>3
       DEF scheduler, InitScheduler, FetchChild, SwitchChild, RaiseInScheduler,
           InterruptScheduler, ExitScheduler, Does, InheritedClear, Dies, Forked, Swept,
           GeneratorSems
  <1>4. CASE clock
    BY <1>1, <1>2, <1>4
       DEF clock, initClk, GetSegment, InitWord, FailInit, FirstTick, InterruptClock, Does,
           InheritedClear, Dies, Forked
  <1>5. CASE main
    <2>1. ~InitSemaphores
      BY <1>1, RunsAt DEF InitSemaphores, Simulating
    <2>2. ~CreateQueue
      BY <1>1, RunsAt DEF CreateQueue, Simulating
    <2> QED
      BY <1>2, <1>5, <2>1, <2>2
         DEF main, InstallHandlers, ReadInput, Fork, Assign, RaiseInMain, SyncGenerator,
             Loop, ReturnFromMain
  <1>6. CASE (generator /\ ~main) \/ child \/ CtrlC \/ UNCHANGED vars
             \/ \E p \in {Scheduler, Clock} : Crash(p)
    BY <1>2, <1>6
       DEF vars, generator, pgClearResources, RemoveObjects, KillIfKnown, WaitThen,
           ExitGenerator, InterruptGenerator, checkChildProcess, EnterCheckChild, Reap,
           WaitAndForget, LeaveCheckChild, child, StopItself, RunChild, InterruptChild,
           Does, InheritedClear, Dies, CtrlC, Crash
  <1> QED
    BY <1>3, <1>4, <1>5, <1>6 DEF Next

LEMMA SweepInvStep ==
    ASSUME StackInv, LineInv, LifeInv, StartInv, TickInv, SweepInv, [Next]_vars
    PROVE  SweepInv'
  <1> USE DEF Processes, Children, Generator, Scheduler, Clock, Child
  <1>1. SUFFICES ASSUME firstTick' # NoTick
                 PROVE  /\ \A l \in ClearLines \ {"objects"} : ClearAt(l)' => Swept'
                        /\ life'[Generator] = "gone" /\ ~returned' => Swept'
                        /\ crashed' = {} /\ ~Alive(Clock)' => "clkWord" \notin exists'
    BY DEF SweepInv
  <1>2. CASE firstTick = NoTick
    <2>1. FirstTick
      BY <1>1, <1>2
         DEF Next, vars, generator, main, InitSemaphores, InstallHandlers,
             ReadInput, Fork, Assign, RaiseInMain, CreateQueue, SyncGenerator, Loop,
             ReturnFromMain, pgClearResources, RemoveObjects, KillIfKnown, WaitThen,
             ExitGenerator, InterruptGenerator, checkChildProcess, EnterCheckChild, Reap,
             WaitAndForget, LeaveCheckChild, scheduler, clock, child, InitScheduler,
             FetchChild, SwitchChild, RaiseInScheduler, InterruptScheduler, ExitScheduler,
             initClk, GetSegment, InitWord, FailInit, InterruptClock, StopItself,
             RunChild, InterruptChild, Does, InheritedClear, Dies, CtrlC, Crash, tickVars
    <2>2. /\ stack = <<Frame("main", "loop")>> /\ UNCHANGED <<stack, pgCleared>>
          /\ Alive(Generator) /\ Alive(Clock) /\ UNCHANGED life
      BY <2>1 DEF FirstTick, Does, generatorVars
    <2>3. Top.function = "main"
      BY <2>2 DEF Top, Frame
    <2>4. \A l : ~ClearAt(l)'
      BY <2>2, <2>3, FrameOfTop, StackUnchanged DEF Unmoved
    <2> QED
      BY <2>2, <2>4 DEF Alive
  <1>3. CASE firstTick # NoTick
    <2>1. /\ Swept => Swept'
          /\ "clkWord" \notin exists => "clkWord" \notin exists'
      BY <1>3, SweptStays
    <2>2. ASSUME NEW l \in ClearLines \ {"objects"}, ClearAt(l)' PROVE Swept'
      <3>1. CASE \E k \in ClearLines \ {"objects"} : ClearAt(k)
        BY <1>3, <2>1, <3>1 DEF SweepInv
      <3>2. CASE RemoveObjects
        <4>1. "queue" \in known
          BY <1>3 DEF TickInv, StartInv
        <4> QED
          BY <3>2, <4>1 DEF RemoveObjects, Swept
      <3> QED
        BY <2>2, <3>1, <3>2, ClearComesFrom DEF ClearLines
    <2>3. ASSUME life'[Generator] = "gone", ~returned' PROVE Swept'
      <3>1. ~ReturnFromMain
        BY <2>3 DEF ReturnFromMain
      <3>2. ~returned
        BY <2>3, <3>1, OutsideGenerator
           DEF generator, main, InitSemaphores, InstallHandlers,
               ReadInput, Fork, Assign, RaiseInMain, CreateQueue, SyncGenerator, Loop,
               pgClearResources, RemoveObjects, KillIfKnown, WaitThen,
               ExitGenerator, InterruptGenerator, checkChildProcess, EnterCheckChild, Reap,
               WaitAndForget, LeaveCheckChild, generatorVars
      <3>3. CASE Alive(Generator)
        <4>1. ExitGenerator \/ InterruptGenerator
          BY <2>3, <3>1, <3>3, GeneratorGoesOn DEF Alive
        <4>2. CASE ExitGenerator
          <5>1. ClearAt("exit")' /\ "exit" \in ClearLines
            BY <4>2, RunsAt, StackUnchanged DEF ExitGenerator, generatorVars, Unmoved, ClearLines
          <5> QED
            BY <2>2, <5>1
        <4>3. CASE InterruptGenerator
          <5>1. Top.line \in {"semaphores", "handlers"}
            BY <2>3, <3>3, <4>3 DEF InterruptGenerator, Alive
          <5>2. Top.function = "main"
            BY <5>1, TopFrame, FrameOfTop DEF Frames, LineInv, ClearLines, CheckLines
          <5>3. MainLine \in {"semaphores", "handlers"}
            BY <5>1, <5>2, FrameOfTop
          <5> QED
            BY <1>3, <5>3 DEF TickInv, Simulating
        <4> QED
          BY <4>1, <4>2, <4>3
      <3>4. CASE ~Alive(Generator)
        BY <1>3, <2>1, <3>2, <3>4 DEF SweepInv, LifeInv, Alive
      <3> QED
        BY <3>3, <3>4
    <2>4. ASSUME crashed' = {}, ~Alive(Clock)' PROVE "clkWord" \notin exists'
      <3>1. crashed = {} /\ \A p \in {Scheduler, Clock} : ~Crash(p)
        BY <2>4
           DEF Next, vars, generator, main, InitSemaphores, InstallHandlers,
               ReadInput, Fork, Assign, RaiseInMain, CreateQueue, SyncGenerator, Loop,
               ReturnFromMain, pgClearResources, RemoveObjects, KillIfKnown, WaitThen,
               ExitGenerator, InterruptGenerator, checkChildProcess, EnterCheckChild, Reap,
               WaitAndForget, LeaveCheckChild, scheduler, clock, child, InitScheduler,
               FetchChild, SwitchChild, RaiseInScheduler, InterruptScheduler, ExitScheduler,
               initClk, GetSegment, InitWord, FailInit, FirstTick, InterruptClock, StopItself,
               RunChild, InterruptChild, Does, InheritedClear, Dies, CtrlC, Crash, userVars
      <3>2. CASE ~Alive(Clock)
        BY <1>3, <2>1, <3>1, <3>2 DEF SweepInv
      <3>3. CASE Alive(Clock)
        <4>1. at[Clock] = "ticking"
          BY <1>3 DEF TickInv
        <4>2. CASE clock
          BY <2>4, <3>3, <4>1, <4>2
             DEF clock, initClk, GetSegment, InitWord, FailInit, FirstTick, InterruptClock,
                 Does, Forked, Alive
        <4>3. CASE \E p \in {Scheduler, Child} : Alive(p) /\ Ends(p)
          BY <2>4, <3>3, <4>3, EndsLife DEF Alive
        <4>4. CASE scheduler \/ child
          BY <2>4, <3>3, <4>3, <4>4
             DEF scheduler, InitScheduler, FetchChild, SwitchChild, RaiseInScheduler,
                 InterruptScheduler, ExitScheduler, child, StopItself, RunChild,
                 InterruptChild, Does, InheritedClear, Dies, Alive
        <4>5. CASE generator
          BY <2>4, <3>3, <4>5
             DEF generator, main, InitSemaphores, InstallHandlers,
                 ReadInput, Fork, Assign, RaiseInMain, CreateQueue, SyncGenerator, Loop,
                 ReturnFromMain, pgClearResources, RemoveObjects, KillIfKnown, WaitThen,
                 Waited, ExitGenerator, InterruptGenerator, checkChildProcess,
                 EnterCheckChild, Reap, WaitAndForget, LeaveCheckChild, LifeInv, Alive
        <4>6. CASE CtrlC \/ UNCHANGED vars
          BY <2>4, <3>3, <4>6 DEF CtrlC, vars, Alive
        <4> QED
          BY <3>1, <4>2, <4>4, <4>5, <4>6 DEF Next
      <3> QED
        BY <3>2, <3>3
    <2> QED
      BY <2>2, <2>3, <2>4
  <1> QED
    BY <1>2, <1>3

-----------------------------------------------------------------------------
(* Theorems.                                                               *)

LifecycleInv ==
    /\ StackInv /\ LineInv /\ LifeInv /\ StartInv /\ TickInv
    /\ CheckInv /\ KnownInv /\ SealInv /\ SweepInv

LEMMA InitLifecycle == Init => LifecycleInv
  <1> SUFFICES ASSUME Init PROVE LifecycleInv
    OBVIOUS
  <1> USE DEF Processes, Children, Generator, Scheduler, Clock, Child
  <1>1. /\ stack = <<Frame("main", "semaphores")>> /\ ~pgCleared /\ firstTick = NoTick
        /\ life = [p \in Processes |-> IF p = Generator THEN "alive" ELSE "none"]
        /\ at = [p \in Children |-> "forked"] /\ known = {}
    BY DEF Init, Forked
  <1>2. /\ Frame("main", "semaphores") \in Frames
        /\ Frame("main", "semaphores").function = "main"
        /\ Frame("main", "semaphores").line = "semaphores"
    BY DEF Frame, Frames, Lines, MainLines
  <1>3. /\ stack \in Seq(Frames) /\ Len(stack) = 1 /\ stack[1] = Frame("main", "semaphores")
        /\ DOMAIN stack = {1} /\ stack # <<>>
    BY <1>1, <1>2
  <1>4. StackTyped /\ MainBelow
    BY <1>2, <1>3 DEF StackTyped, MainBelow
  <1>5. \A f : f # "main" => Running(f) = {}
    BY <1>2, <1>3 DEF Running
  <1>6. StackInv
    BY <1>1, <1>4, <1>5 DEF StackInv, Once, ClearedOnce
  <1>7. Top.function = "main" /\ MainLine = "semaphores"
    BY <1>2, <1>3 DEF Top, MainLine
  <1>8. \A l : ~ClearAt(l) /\ ~CheckAt(l)
    BY <1>6, <1>7, FrameOfTop
  <1>9. LineInv /\ CheckInv
    BY <1>7, <1>8 DEF LineInv, CheckInv, MainLines
  <1>10. LifeInv
    BY <1>1 DEF LifeInv, Stages
  <1>11. StartInv
    BY <1>1, <1>7 DEF StartInv, BeforeScheduler, BeforeClock, AfterClock, Simulating
  <1>12. TickInv
    BY <1>1 DEF TickInv, FirstTickIsZero
  <1>13. KnownInv /\ SealInv
    BY <1>1, <1>8 DEF KnownInv, SealInv, Sealed, Doomed, Alive
  <1>14. SweepInv
    BY <1>1 DEF SweepInv
  <1> QED
    BY <1>6, <1>9, <1>10, <1>11, <1>12, <1>13, <1>14 DEF LifecycleInv

LEMMA LifecycleInvHolds == Spec => []LifecycleInv
  <1>1. LifecycleInv /\ [Next]_vars => LifecycleInv'
    <2> SUFFICES ASSUME LifecycleInv, [Next]_vars PROVE LifecycleInv'
      OBVIOUS
    <2>1. /\ StackInv /\ LineInv /\ LifeInv /\ StartInv /\ TickInv
          /\ CheckInv /\ KnownInv /\ SealInv /\ SweepInv
      BY DEF LifecycleInv
    <2>2. StackInv' /\ LineInv'
      BY <2>1, StackInvStep
    <2>3. LifeInv' /\ StartInv'
      BY <2>1, LivesGoOn, StartInvStep
    <2>4. TickInv' /\ CheckInv'
      BY <2>1, TickInvStep, CheckInvStep
    <2>5. KnownInv' /\ SealInv' /\ SweepInv'
      BY <2>1, KnownInvStep, SealInvStep, SweepInvStep
    <2> QED
      BY <2>2, <2>3, <2>4, <2>5 DEF LifecycleInv
  <1> QED
    BY <1>1, InitLifecycle, PTL DEF Spec

(* However SIGINT, the end of a child and raise interrupt each other, the  *)
(* cleanup of the generator is entered at most once and, once entered,     *)
(* never left for main: for every number of interrupts and crashes.        *)
THEOREM CleanupOnceHolds == Spec => []CleanupOnce
  <1>1. LifecycleInv => CleanupOnce
    <2> SUFFICES ASSUME StackInv PROVE CleanupOnce
      BY DEF LifecycleInv
    <2>1. stack[Len(stack)].function = "main"
      BY TopFrame DEF StackInv, MainBelow
    <2> QED
      BY <2>1 DEF StackInv, ClearedOnce, CleanupOnce
  <1> QED
    BY <1>1, LifecycleInvHolds, PTL

(* When the generator has ended by its cleanup, clock and scheduler have   *)
(* ended, are cleaning up or have a SIGINT pending, but for the clock that *)
(* main had no pid of yet when the scheduler failed.                       *)
THEOREM NoOrphanHolds == Spec => []NoOrphan
  <1>1. LifecycleInv => NoOrphan
    BY DEF LifecycleInv, SealInv, Sealed, Doomed, NoOrphan
  <1> QED
    BY <1>1, LifecycleInvHolds, PTL

(* A run that has had its first tick, in which nobody died by itself and   *)
(* main did not return, leaves no queue, no semaphore of the generator and *)
(* no clock word behind.                                                   *)
THEOREM CleanEndHolds == Spec => []CleanEnd
  <1>1. LifecycleInv => CleanEnd
    <2> SUFFICES ASSUME LifecycleInv, AllEnded, ~returned, crashed = {}, firstTick # NoTick
                 PROVE  exists \cap ({"queue", "clkWord"} \cup GeneratorSems) = {}
      BY DEF CleanEnd
    <2>1. ~Alive(Generator) /\ ~Alive(Clock)
      BY DEF AllEnded, System
    <2>2. life[Generator] = "gone"
      BY <2>1 DEF LifecycleInv, LifeInv, Alive
    <2>3. Swept /\ "clkWord" \notin exists
      BY <2>1, <2>2 DEF LifecycleInv, SweepInv
    <2> QED
      BY <2>3 DEF Swept
  <1> QED
    BY <1>1, LifecycleInvHolds, PTL

(* The first tick anybody sees is 0, also beside the word of an earlier    *)
(* run's clock, as long as that clock does not run.                        *)
THEOREM FirstTickIsZeroHolds == Spec => []FirstTickIsZero
  <1>1. LifecycleInv => FirstTickIsZero
    BY DEF LifecycleInv, TickInv
  <1> QED
    BY <1>1, LifecycleInvHolds, PTL
=============================================================================
