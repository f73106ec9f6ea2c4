-------------------------- MODULE CollectorProofs --------------------------
(***************************************************************************)
(* Proofs about Collector, for any set of homes and any number of          *)
(* commands, failures, kills and reboots.                                  *)
(*                                                                         *)
(* A command is the sequence of calls it has still to make, so what holds  *)
(* between two of its calls is said of the calls that are left: a call     *)
(* comes only after another (Preceded), or is followed by one (Followed),  *)
(* or what that other call does has been done already.                     *)
(***************************************************************************)
EXTENDS CollectorProperties, SequenceTheorems, TLAPS

-----------------------------------------------------------------------------
(* Sequences of calls.                                                     *)

Has(s, name) == \E k \in 1..Len(s) : s[k][1] = name

\* Every call x comes after a call y.
Preceded(x, y, s) ==
    \A k \in 1..Len(s) : s[k][1] = x => \E j \in 1..Len(s) : j < k /\ s[j][1] = y

\* After every call x there is a call y.
Followed(x, y, s) ==
    \A k \in 1..Len(s) : s[k][1] = x => \E j \in 1..Len(s) : k < j /\ s[j][1] = y

\* After a call x there is no call y.
Past(x, y, s) ==
    \A j \in 1..Len(s), k \in 1..Len(s) : j < k /\ s[j][1] = x => s[k][1] # y

\* What is left of a sequence after its first call.
LEMMA TailElements ==
    ASSUME NEW S, NEW s \in Seq(S), s # <<>>
    PROVE  /\ Tail(s) \in Seq(S)
           /\ Head(s) = s[1] /\ Head(s) \in S
           /\ Len(s) \in Nat /\ Len(s) >= 1
           /\ Len(Tail(s)) = Len(s) - 1
           /\ \A k \in 1..(Len(s) - 1) : Tail(s)[k] = s[k + 1]
<1>1. Len(s) \in Nat /\ Len(s) >= 1
    BY EmptySeq, LenProperties
<1> QED
    BY <1>1, HeadTailProperties, ElementOfSeq

LEMMA TailKeeps ==
    ASSUME NEW S, NEW s \in Seq(S), s # <<>>, NEW x, NEW y
    PROVE  /\ Has(s, y) => Head(s)[1] = y \/ Has(Tail(s), y)
           /\ Has(Tail(s), y) => Has(s, y)
           /\ Preceded(x, y, s) => /\ x # y => Head(s)[1] # x
                                   /\ Head(s)[1] = y \/ Preceded(x, y, Tail(s))
           /\ Followed(x, y, s) => /\ Followed(x, y, Tail(s))
                                   /\ Head(s)[1] = x => Has(Tail(s), y)
           /\ Past(x, y, s) => /\ Past(x, y, Tail(s))
                               /\ Head(s)[1] = x => ~ Has(Tail(s), y)
<1> DEFINE t == Tail(s)
           n == Len(s)
<1>1. /\ n \in Nat /\ n >= 1 /\ Len(t) = n - 1
      /\ Head(s) = s[1]
      /\ \A k \in 1..(n - 1) : t[k] = s[k + 1]
    BY TailElements
<1>2. \A k \in 1..Len(t) : k + 1 \in 1..n /\ t[k] = s[k + 1]
    BY <1>1
<1>3. \A k \in 1..n : k = 1 \/ (k - 1 \in 1..Len(t) /\ s[k] = t[k - 1])
    BY <1>1
<1> HIDE DEF t, n
<1>4. Has(s, y) => Head(s)[1] = y \/ Has(t, y)
    BY <1>1, <1>3 DEF Has, n
<1>5. Has(t, y) => Has(s, y)
    BY <1>2 DEF Has, n
<1>6. ASSUME Preceded(x, y, s), Head(s)[1] = x PROVE FALSE
    <2>1. 1 \in 1..n /\ s[1][1] = x /\ ~ \E j \in 1..n : j < 1
        BY <1>1, <1>6
    <2> QED
        BY <2>1, <1>6 DEF Preceded, n
<1>7. ASSUME Preceded(x, y, s), Head(s)[1] # y PROVE Preceded(x, y, t)
    <2> SUFFICES ASSUME NEW k \in 1..Len(t), t[k][1] = x
                 PROVE  \E j \in 1..Len(t) : j < k /\ t[j][1] = y
        BY DEF Preceded
    <2>1. PICK j \in 1..n : j < k + 1 /\ s[j][1] = y
        BY <1>2, <1>7 DEF Preceded, n
    <2>2. j # 1
        BY <2>1, <1>7, <1>1
    <2> QED
        BY <2>1, <2>2, <1>3
<1>8. ASSUME Followed(x, y, s) PROVE Followed(x, y, t)
    <2> SUFFICES ASSUME NEW k \in 1..Len(t), t[k][1] = x
                 PROVE  \E j \in 1..Len(t) : k < j /\ t[j][1] = y
        BY DEF Followed
    <2>1. PICK j \in 1..n : k + 1 < j /\ s[j][1] = y
        BY <1>2, <1>8 DEF Followed, n
    <2> QED
        BY <2>1, <1>3
<1>9. ASSUME Followed(x, y, s), Head(s)[1] = x PROVE Has(t, y)
    <2>1. PICK j \in 1..n : 1 < j /\ s[j][1] = y
        BY <1>1, <1>9 DEF Followed, n
    <2> QED
        BY <2>1, <1>3 DEF Has
<1>10. ASSUME Past(x, y, s) PROVE Past(x, y, t)
    <2> SUFFICES ASSUME NEW j \in 1..Len(t), NEW k \in 1..Len(t), j < k, t[j][1] = x
                 PROVE  t[k][1] # y
        BY DEF Past
    <2>1. j + 1 < k + 1 /\ j + 1 \in 1..n /\ k + 1 \in 1..n /\ s[j + 1][1] = x
        BY <1>2
    <2>2. s[k + 1][1] # y
        BY <2>1, <1>10 DEF Past, n
    <2> QED
        BY <2>2, <1>2
<1>11. ASSUME Past(x, y, s), Head(s)[1] = x PROVE ~ Has(t, y)
    <2> SUFFICES ASSUME NEW k \in 1..Len(t) PROVE t[k][1] # y
        BY DEF Has
    <2>1. 1 < k + 1 /\ 1 \in 1..n /\ k + 1 \in 1..n
        BY <1>1, <1>2
    <2>2. s[k + 1][1] # y
        BY <2>1, <1>1, <1>11 DEF Past, n
    <2> QED
        BY <2>2, <1>2
<1> QED
    BY <1>4, <1>5, <1>6, <1>7, <1>8, <1>9, <1>10, <1>11 DEF t

\* One sequence after another.
LEMMA ConcatElements ==
    ASSUME NEW S, NEW s \in Seq(S), NEW t \in Seq(S)
    PROVE  /\ s \o t \in Seq(S)
           /\ Len(s) \in Nat /\ Len(t) \in Nat
           /\ Len(s \o t) = Len(s) + Len(t)
           /\ \A k \in 1..Len(s) : k \in 1..Len(s \o t) /\ (s \o t)[k] = s[k]
           /\ \A k \in 1..Len(t) : /\ Len(s) + k \in 1..Len(s \o t)
                                   /\ (s \o t)[Len(s) + k] = t[k]
           /\ \A k \in 1..Len(s \o t) :
                 k \in 1..Len(s) \/ (k > Len(s) /\ k - Len(s) \in 1..Len(t))
<1>1. /\ s \o t \in Seq(S)
      /\ Len(s \o t) = Len(s) + Len(t)
      /\ Len(s) \in Nat /\ Len(t) \in Nat
      /\ \A i \in 1 .. Len(s) + Len(t) :
            (s \o t)[i] = IF i <= Len(s) THEN s[i] ELSE t[i - Len(s)]
    BY ConcatProperties, LenProperties
<1> QED
    BY <1>1

LEMMA ConcatKeeps ==
    ASSUME NEW S, NEW s \in Seq(S), NEW t \in Seq(S), NEW x, NEW y
    PROVE  /\ Has(t, y) => Has(s \o t, y)
           /\ Has(s, y) => Has(s \o t, y)
           /\ Preceded(x, y, s) /\ (Preceded(x, y, t) \/ Has(s, y)) =>
                 Preceded(x, y, s \o t)
           /\ Followed(x, y, t) /\ (Followed(x, y, s) \/ Has(t, y)) =>
                 Followed(x, y, s \o t)
<1> DEFINE u == s \o t
           n == Len(s)
<1>1. /\ n \in Nat /\ Len(t) \in Nat
      /\ \A k \in 1..n : k \in 1..Len(u) /\ u[k] = s[k]
      /\ \A k \in 1..Len(t) : n + k \in 1..Len(u) /\ u[n + k] = t[k]
      /\ \A k \in 1..Len(u) : k \in 1..n \/ (k > n /\ k - n \in 1..Len(t))
      /\ Len(u) = n + Len(t)
    BY ConcatElements
<1> HIDE DEF u, n
<1>2. \A k \in 1..Len(u) : \/ k \in 1..n /\ u[k] = s[k]
                           \/ k > n /\ k - n \in 1..Len(t) /\ u[k] = t[k - n]
    BY <1>1
<1>3. Has(t, y) => Has(u, y)
    BY <1>1 DEF Has
<1>4. Has(s, y) => Has(u, y)
    BY <1>1 DEF Has, n
<1>5. ASSUME Preceded(x, y, s), Preceded(x, y, t) \/ Has(s, y)
      PROVE  Preceded(x, y, u)
    <2> SUFFICES ASSUME NEW k \in 1..Len(u), u[k][1] = x
                 PROVE  \E j \in 1..Len(u) : j < k /\ u[j][1] = y
        BY DEF Preceded
    <2>1. CASE k \in 1..n
        <3>1. PICK j \in 1..n : j < k /\ s[j][1] = y
            BY <1>1, <1>5, <2>1 DEF Preceded, n
        <3> QED
            BY <3>1, <1>1
    <2>2. CASE k > n /\ k - n \in 1..Len(t) /\ u[k] = t[k - n]
        <3>1. CASE Has(s, y)
            <4>1. PICK j \in 1..n : s[j][1] = y
                BY <3>1 DEF Has, n
            <4>2. j < k
                BY <1>1, <2>2
            <4> QED
                BY <4>1, <4>2, <1>1
        <3>2. CASE Preceded(x, y, t)
            <4>1. PICK j \in 1..Len(t) : j < k - n /\ t[j][1] = y
                BY <2>2, <3>2 DEF Preceded
            <4>2. n + j \in 1..Len(u) /\ u[n + j] = t[j] /\ n + j < k
                BY <4>1, <1>1
            <4> QED
                BY <4>1, <4>2
        <3> QED
            BY <1>5, <3>1, <3>2
    <2> QED
        BY <2>1, <2>2, <1>2
<1>6. ASSUME Followed(x, y, t), Followed(x, y, s) \/ Has(t, y)
      PROVE  Followed(x, y, u)
    <2> SUFFICES ASSUME NEW k \in 1..Len(u), u[k][1] = x
                 PROVE  \E j \in 1..Len(u) : k < j /\ u[j][1] = y
        BY DEF Followed
    <2>1. CASE k > n /\ k - n \in 1..Len(t) /\ u[k] = t[k - n]
        <3>1. PICK j \in 1..Len(t) : k - n < j /\ t[j][1] = y
            BY <1>6, <2>1 DEF Followed
        <3>2. n + j \in 1..Len(u) /\ u[n + j] = t[j] /\ k < n + j
            BY <3>1, <1>1
        <3> QED
            BY <3>1, <3>2
    <2>2. CASE k \in 1..n
        <3>1. CASE Has(t, y)
            <4>1. PICK j \in 1..Len(t) : t[j][1] = y
                BY <3>1 DEF Has
            <4>2. n + j \in 1..Len(u) /\ u[n + j] = t[j] /\ k < n + j
                BY <4>1, <2>2, <1>1
            <4> QED
                BY <4>1, <4>2
        <3>2. CASE Followed(x, y, s)
            <4>1. PICK j \in 1..n : k < j /\ s[j][1] = y
                BY <1>1, <2>2, <3>2 DEF Followed, n
            <4> QED
                BY <4>1, <1>1
        <3> QED
            BY <1>6, <3>1, <3>2
    <2> QED
        BY <2>1, <2>2, <1>2
<1> QED
    BY <1>3, <1>4, <1>5, <1>6 DEF u

LEMMA ConcatPast ==
    ASSUME NEW S, NEW s \in Seq(S), NEW t \in Seq(S), NEW x, NEW y,
           Past(x, y, s), Past(x, y, t), ~ Has(s, x) \/ ~ Has(t, y)
    PROVE  Past(x, y, s \o t)
<1> DEFINE u == s \o t
           n == Len(s)
<1>1. /\ n \in Nat /\ Len(t) \in Nat
      /\ \A k \in 1..n : k \in 1..Len(u) /\ u[k] = s[k]
      /\ \A k \in 1..Len(t) : n + k \in 1..Len(u) /\ u[n + k] = t[k]
      /\ \A k \in 1..Len(u) : k \in 1..n \/ (k > n /\ k - n \in 1..Len(t))
      /\ Len(u) = n + Len(t)
    BY ConcatElements
<1> HIDE DEF u, n
<1>2. \A k \in 1..Len(u) : \/ k \in 1..n /\ u[k] = s[k]
                           \/ k > n /\ k - n \in 1..Len(t) /\ u[k] = t[k - n]
    BY <1>1
<1>3. ASSUME NEW j \in 1..Len(u), NEW k \in 1..Len(u), j < k, u[j][1] = x, u[k][1] = y
      PROVE  FALSE
    <2>1. CASE j \in 1..n /\ u[j] = s[j] /\ k \in 1..n /\ u[k] = s[k]
        BY <1>3, <2>1 DEF Past, n
    <2>2. CASE j \in 1..n /\ u[j] = s[j] /\ k - n \in 1..Len(t) /\ u[k] = t[k - n]
        <3>1. Has(s, x)
            BY <1>3, <2>2 DEF Has, n
        <3>2. Has(t, y)
            BY <1>3, <2>2 DEF Has
        <3> QED
            BY <3>1, <3>2
    <2>3. CASE /\ j > n /\ j - n \in 1..Len(t) /\ u[j] = t[j - n]
               /\ k > n /\ k - n \in 1..Len(t) /\ u[k] = t[k - n]
        <3>1. j - n < k - n
            BY <1>1, <1>3
        <3> QED
            BY <1>3, <2>3, <3>1 DEF Past
    <2> QED
        BY <1>1, <1>2, <1>3, <2>1, <2>2, <2>3
<1> QED
    BY <1>3 DEF Past, u

-----------------------------------------------------------------------------
(* Types, and what a call changes.                                         *)

Records(S) ==
    [def : S, saved : S, enabled : BOOLEAN, running : S, trees : SUBSET Targets,
     fallback : S, runKey : BOOLEAN, legacy : BOOLEAN]

Installing == {"makeTree", "define", "save"}

Starting == {"reload", "enable", "run", "stop", "rejectFallback", "resume"}

Initializing == {"plan", "quiesce", "initialize", "adapters"}

Removing ==
    {"stop", "disable", "undefine", "reload", "removeTree", "unsave",
     "stopFallback", "unregister", "unadapt"}

Names == Installing \union Starting \union Initializing \union Removing \union {"check"}

\* The only calls that need a platform.
OnItsPlatform(name) ==
    /\ name = "makeTree" => ~ Windows
    /\ name = "enable" => platform = "linux"

StartCalls(target) ==
    {call \in (Installing \X {target}) \union (Starting \X {None}) :
        OnItsPlatform(call[1])}

SetupCalls(target) ==
    StartCalls(target) \union ({"check"} \X {target}) \union (Initializing \X {None})

UninstallCalls == Removing \X {None}

\* The calls that end a collector in the background, and those that start one.
StopsIt(call) ==
    \/ call[1] = "stop" /\ Stops
    \/ call[1] = "quiesce" /\ stopCollectorForLedgerInitialization /\ Stops
    \/ call[1] = "stopFallback" /\ windowsCollectorFallbackRunning

StartsIt(call) ==
    call[1] \in {"run", "resume"} /\ service.running = None /\ foreground = None

LEMMA EffectOnFields ==
    ASSUME NEW S, service \in Records(S), NEW call, call[1] \in Names
    PROVE  LET e == Effect(call)
           IN  /\ e.def = (IF call[1] = "define" THEN call[2]
                           ELSE IF call[1] = "undefine" THEN None ELSE service.def)
               /\ e.saved = (IF call[1] = "save" THEN call[2]
                             ELSE IF call[1] = "unsave" THEN None ELSE service.saved)
               /\ e.enabled = (IF call[1] = "enable" THEN TRUE
                               ELSE IF call[1] = "disable"
                               THEN service.enabled /\ service.def = None
                               ELSE service.enabled)
               /\ e.running = (IF StartsIt(call) THEN service.def
                               ELSE IF StopsIt(call) THEN None ELSE service.running)
               /\ e.trees = (IF call[1] = "makeTree" THEN service.trees \union {call[2]}
                             ELSE IF call[1] = "removeTree"
                             THEN service.trees \ {service.saved} ELSE service.trees)
               /\ e.fallback = (IF call[1] = "unsave" THEN None ELSE service.fallback)
               /\ e.runKey = (IF call[1] = "unregister" THEN FALSE ELSE service.runKey)
               /\ e.legacy = (IF StopsIt(call) THEN FALSE ELSE service.legacy)
               /\ e = [def |-> e.def, saved |-> e.saved, enabled |-> e.enabled,
                       running |-> e.running, trees |-> e.trees,
                       fallback |-> e.fallback, runKey |-> e.runKey, legacy |-> e.legacy]
<1> DEFINE e == Effect(call)
<1> USE DEF Records
<1>1. CASE call[1] = "makeTree"
    <2>1. e = [service EXCEPT !.trees = @ \union {call[2]}]
        BY <1>1 DEF Effect
    <2> QED
        BY <1>1, <2>1 DEF StartsIt, StopsIt
<1>2. CASE call[1] = "define"
    <2>1. e = [service EXCEPT !.def = call[2]]
        BY <1>2 DEF Effect
    <2> QED
        BY <1>2, <2>1 DEF StartsIt, StopsIt
<1>3. CASE call[1] = "save"
    <2>1. e = [service EXCEPT !.saved = call[2]]
        BY <1>3 DEF Effect
    <2> QED
        BY <1>3, <2>1 DEF StartsIt, StopsIt
<1>4. CASE call[1] = "enable"
    <2>1. e = [service EXCEPT !.enabled = TRUE]
        BY <1>4 DEF Effect
    <2> QED
        BY <1>4, <2>1 DEF StartsIt, StopsIt
<1>5. CASE call[1] \in {"run", "resume"}
    <2>1. e = IF service.running = None /\ foreground = None
              THEN [service EXCEPT !.running = service.def] ELSE service
        BY <1>5 DEF Effect
    <2> QED
        BY <1>5, <2>1 DEF StartsIt, StopsIt
<1>6. CASE call[1] = "stop"
    <2>1. e = IF Stops THEN Stopped ELSE service
        BY <1>6 DEF Effect
    <2> QED
        BY <1>6, <2>1 DEF StartsIt, StopsIt, Stopped
<1>7. CASE call[1] = "quiesce"
    <2>1. e = IF stopCollectorForLedgerInitialization /\ Stops THEN Stopped ELSE service
        BY <1>7 DEF Effect
    <2> QED
        BY <1>7, <2>1 DEF StartsIt, StopsIt, Stopped
<1>8. CASE call[1] = "stopFallback"
    <2>1. e = IF windowsCollectorFallbackRunning THEN Stopped ELSE service
        BY <1>8 DEF Effect, stopWindowsCollectorFallback
    <2> QED
        BY <1>8, <2>1 DEF StartsIt, StopsIt, Stopped
<1>9. CASE call[1] = "disable"
    <2>1. e = [service EXCEPT !.enabled = @ /\ service.def = None]
        BY <1>9 DEF Effect
    <2> QED
        BY <1>9, <2>1 DEF StartsIt, StopsIt
<1>10. CASE call[1] = "undefine"
    <2>1. e = [service EXCEPT !.def = None]
        BY <1>10 DEF Effect
    <2> QED
        BY <1>10, <2>1 DEF StartsIt, StopsIt
<1>11. CASE call[1] = "removeTree"
    <2>1. e = [service EXCEPT !.trees = @ \ {service.saved}]
        BY <1>11 DEF Effect
    <2> QED
        BY <1>11, <2>1 DEF StartsIt, StopsIt
<1>12. CASE call[1] = "unsave"
    <2>1. e = [service EXCEPT !.saved = None, !.fallback = None]
        BY <1>12 DEF Effect
    <2> QED
        BY <1>12, <2>1 DEF StartsIt, StopsIt
<1>13. CASE call[1] = "unregister"
    <2>1. e = [service EXCEPT !.runKey = FALSE]
        BY <1>13 DEF Effect, unregisterWindowsCollectorFallback
    <2> QED
        BY <1>13, <2>1 DEF StartsIt, StopsIt
<1>14. CASE call[1] \in {"reload", "rejectFallback", "check", "plan",
                        "initialize", "adapters", "unadapt"}
    <2>1. e = service
        BY <1>14 DEF Effect
    <2> QED
        BY <1>14, <2>1 DEF StartsIt, StopsIt
<1> QED
    BY <1>1, <1>2, <1>3, <1>4, <1>5, <1>6, <1>7, <1>8, <1>9, <1>10, <1>11, <1>12,
       <1>13, <1>14 DEF Names, Installing, Starting, Initializing, Removing

-----------------------------------------------------------------------------
(* What the plans of the commands have in common on the three platforms.   *)

Platforms == {"linux", "darwin", "windows"}

LEMMA LinuxPlans ==
    ASSUME platform = "linux", NEW target
    PROVE  /\ Install(target) = LinuxInstall(target)
           /\ Start(target) = LinuxStart(target)
           /\ restartManagedCollector(target) = LinuxRestart(target)
           /\ Uninstall = LinuxUninstall
BY DEF Install, Start, restartManagedCollector, Uninstall, Windows

LEMMA DarwinPlans ==
    ASSUME platform = "darwin", NEW target
    PROVE  /\ Install(target) = DarwinInstall(target)
           /\ Start(target) = DarwinStart(target)
           /\ restartManagedCollector(target) = DarwinRestart(target)
           /\ Uninstall = DarwinUninstall
BY DEF Install, Start, restartManagedCollector, Uninstall, Windows

LEMMA WindowsPlans ==
    ASSUME platform = "windows", NEW target
    PROVE  /\ Install(target) = WindowsInstall(target)
           /\ Start(target) = WindowsStart(target)
           /\ restartManagedCollector(target) = WindowsRestart(target)
           /\ Uninstall = WindowsUninstall
BY DEF Install, Start, restartManagedCollector, Uninstall, Windows

LEMMA Lacks ==
    ASSUME NEW s, NEW x, ~ Has(s, x), NEW y
    PROVE  Preceded(x, y, s) /\ Followed(x, y, s) /\ Past(x, y, s) /\ Past(y, x, s)
BY DEF Has, Preceded, Followed, Past

\* Calls that define a service, and start what is defined.
StartScript(target, s) ==
    /\ s \in Seq(StartCalls(target))
    /\ Has(s, "define") /\ Has(s, "run") /\ ~ Has(s, "resume")
    /\ Preceded("run", "define", s)
    /\ Preceded("enable", "define", s)
    /\ Followed("stop", "run", s)

InstallScript(target, s) ==
    /\ s \in Seq(StartCalls(target))
    /\ Has(s, "define")
    /\ ~ Has(s, "run") /\ ~ Has(s, "resume") /\ ~ Has(s, "enable") /\ ~ Has(s, "stop")

LEMMA InstallPlan ==
    ASSUME platform \in Platforms, NEW target
    PROVE  InstallScript(target, Install(target))
<1> USE DEF StartCalls, Installing, Starting, OnItsPlatform, Windows, Has, InstallScript
<1>1. CASE platform = "windows"
    <2> DEFINE s == << <<"define", target>>, <<"save", target>> >>
    <2>1. Install(target) = s
        BY <1>1 DEF Install, WindowsInstall
    <2>2. s \in Seq(StartCalls(target)) /\ Len(s) = 2
        BY <1>1
    <2>3. s[1][1] = "define" /\ s[2][1] = "save"
        OBVIOUS
    <2> HIDE DEF s
    <2> QED
        BY <2>1, <2>2, <2>3
<1>2. CASE platform # "windows"
    <2> DEFINE s == << <<"makeTree", target>>, <<"define", target>>, <<"save", target>> >>
    <2>1. Install(target) = s
        BY <1>2 DEF Install, LinuxInstall, DarwinInstall, Platforms
    <2>2. s \in Seq(StartCalls(target)) /\ Len(s) = 3
        BY <1>2
    <2>3. s[1][1] = "makeTree" /\ s[2][1] = "define" /\ s[3][1] = "save"
        OBVIOUS
    <2> HIDE DEF s
    <2> QED
        BY <2>1, <2>2, <2>3
<1> QED
    BY <1>1, <1>2

LEMMA ConcatLacks ==
    ASSUME NEW S, NEW s \in Seq(S), NEW t \in Seq(S), NEW x, ~ Has(s, x), ~ Has(t, x)
    PROVE  ~ Has(s \o t, x)
<1> DEFINE u == s \o t
<1>1. /\ \A k \in 1..Len(s) : u[k] = s[k]
      /\ \A k \in 1..Len(t) : u[Len(s) + k] = t[k]
      /\ Len(s) \in Nat /\ Len(t) \in Nat
      /\ \A k \in 1..Len(u) :
            k \in 1..Len(s) \/ (k > Len(s) /\ k - Len(s) \in 1..Len(t))
    BY ConcatElements
<1>2. Len(u) \in Nat
    BY ConcatElements
<1> HIDE DEF u
<1>3. \A k \in 1..Len(u) : \/ k \in 1..Len(s) /\ u[k] = s[k]
                           \/ k - Len(s) \in 1..Len(t) /\ u[k] = t[k - Len(s)]
    BY <1>1, <1>2
<1>4. \A k \in 1..Len(u) : u[k][1] # x
    BY <1>3 DEF Has
<1> QED
    BY <1>4 DEF Has, u

\* Calls that define a service, followed by calls that start it.
LEMMA StartJoined ==
    ASSUME NEW target, NEW s \in Seq(StartCalls(target)), NEW t \in Seq(StartCalls(target)),
           Has(s, "define"), ~ Has(s, "resume"), ~ Has(t, "resume"), Has(t, "run"),
           Preceded("run", "define", s), Preceded("enable", "define", s),
           Followed("stop", "run", t)
    PROVE  StartScript(target, s \o t)
<1> DEFINE S == StartCalls(target)
<1>1. s \in Seq(S) /\ t \in Seq(S)
    OBVIOUS
<1> HIDE DEF S
<1>2. s \o t \in Seq(S)
    BY <1>1, ConcatElements
<1>3. Has(s \o t, "define") /\ Has(s \o t, "run")
    BY <1>1, ConcatKeeps
<1>4. ~ Has(s \o t, "resume")
    BY <1>1, ConcatLacks
<1>5. Preceded("run", "define", s \o t) /\ Preceded("enable", "define", s \o t)
    BY <1>1, ConcatKeeps
<1>6. Followed("stop", "run", s \o t)
    BY <1>1, ConcatKeeps
<1> QED
    BY <1>2, <1>3, <1>4, <1>5, <1>6 DEF StartScript, S

\* What a start does after installing.
LEMMA StartPlan ==
    ASSUME platform \in Platforms, NEW target
    PROVE  StartScript(target, Start(target))
<1> DEFINE i == Install(target)
           S == StartCalls(target)
<1>1. InstallScript(target, i)
    BY InstallPlan
<1>2. i \in Seq(S) /\ Has(i, "define") /\ ~ Has(i, "resume")
      /\ Preceded("run", "define", i) /\ Preceded("enable", "define", i)
      /\ Followed("stop", "run", i)
    BY <1>1, Lacks DEF InstallScript
<1>3. CASE platform = "linux"
    <2> DEFINE t == <<Call("reload"), Call("enable"), Call("run")>>
    <2>1. Start(target) = i \o t
        BY <1>3, LinuxPlans, Zenon DEF LinuxStart
    <2>2. t \in Seq(S)
        BY <1>3 DEF StartCalls, Starting, OnItsPlatform, Windows, Call
    <2>3. Len(t) = 3 /\ t[1][1] = "reload" /\ t[2][1] = "enable" /\ t[3][1] = "run"
        BY DEF Call
    <2> HIDE DEF i, t, S
    <2>4. Has(t, "run") /\ ~ Has(t, "resume") /\ Followed("stop", "run", t)
        BY <2>3 DEF Has, Followed
    <2> QED
        BY <1>2, <2>1, <2>2, <2>4, StartJoined DEF S
<1>4. CASE platform = "darwin"
    <2> DEFINE t == <<Call("stop"), Call("run")>>
    <2>1. Start(target) = i \o t
        BY <1>4, DarwinPlans, Zenon DEF DarwinStart
    <2>2. t \in Seq(S)
        BY <1>4 DEF StartCalls, Starting, OnItsPlatform, Windows, Call
    <2>3. Len(t) = 2 /\ t[1][1] = "stop" /\ t[2][1] = "run"
        BY DEF Call
    <2> HIDE DEF i, t, S
    <2>4. Has(t, "run") /\ ~ Has(t, "resume") /\ Followed("stop", "run", t)
        BY <2>3 DEF Has, Followed
    <2> QED
        BY <1>2, <2>1, <2>2, <2>4, StartJoined DEF S
<1>5. CASE platform = "windows"
    <2> DEFINE r == <<Call("rejectFallback")>>
               t == <<Call("run")>>
    <2>1. Start(target) = (r \o i) \o t
        BY <1>5, WindowsPlans, Zenon DEF WindowsStart
    <2>2. t \in Seq(S) /\ r \in Seq(S)
        BY <1>5 DEF StartCalls, Starting, OnItsPlatform, Windows, Call
    <2>3. Len(t) = 1 /\ t[1][1] = "run" /\ Len(r) = 1 /\ r[1][1] = "rejectFallback"
        BY DEF Call
    <2> HIDE DEF i, t, S, r
    <2>4. Has(t, "run") /\ ~ Has(t, "resume") /\ Followed("stop", "run", t)
        BY <2>3 DEF Has, Followed
    <2>5. ~ Has(r, "run") /\ ~ Has(r, "resume") /\ ~ Has(r, "enable") /\ ~ Has(r, "stop")
        BY <2>3 DEF Has
    <2>6. /\ r \o i \in Seq(S) /\ Has(r \o i, "define")
          /\ Preceded("run", "define", r \o i)
          /\ Preceded("enable", "define", r \o i)
          /\ Followed("stop", "run", r \o i)
        BY <1>2, <2>2, <2>5, Lacks, ConcatKeeps, ConcatElements
    <2>7. ~ Has(r \o i, "resume")
        BY <1>2, <2>2, <2>5, ConcatLacks
    <2> QED
        BY <2>1, <2>2, <2>4, <2>6, <2>7, StartJoined DEF S
<1> QED
    BY <1>3, <1>4, <1>5 DEF Platforms

\* Calls made before a start do not disturb it, if they start nothing.
LEMMA StartAfter ==
    ASSUME NEW target, NEW r \in Seq(StartCalls(target)), NEW s, StartScript(target, s),
           ~ Has(r, "run"), ~ Has(r, "resume"), ~ Has(r, "enable")
    PROVE  StartScript(target, r \o s)
<1> DEFINE S == StartCalls(target)
<1>1. /\ s \in Seq(S) /\ r \in Seq(S)
      /\ Has(s, "define") /\ Has(s, "run") /\ ~ Has(s, "resume")
      /\ Preceded("run", "define", s)
      /\ Preceded("enable", "define", s)
      /\ Followed("stop", "run", s)
    BY DEF StartScript
<1> HIDE DEF S
<1>2. Preceded("run", "define", r) /\ Preceded("enable", "define", r)
    BY Lacks
<1>3. r \o s \in Seq(S)
    BY <1>1, ConcatElements
<1>4. Has(r \o s, "define") /\ Has(r \o s, "run")
    BY <1>1, ConcatKeeps
<1>5. ~ Has(r \o s, "resume")
    BY <1>1, ConcatLacks
<1>6. Preceded("run", "define", r \o s) /\ Preceded("enable", "define", r \o s)
    BY <1>1, <1>2, ConcatKeeps
<1>7. Followed("stop", "run", r \o s)
    BY <1>1, ConcatKeeps
<1> QED
    BY <1>3, <1>4, <1>5, <1>6, <1>7 DEF StartScript, S

LEMMA RestartPlan ==
    ASSUME platform \in Platforms, NEW target
    PROVE  StartScript(target, restartManagedCollector(target))
<1>1. StartScript(target, Start(target))
    BY StartPlan
<1>2. CASE platform # "windows"
    <2> DEFINE r == <<Call("stop")>>
    <2>1. restartManagedCollector(target) = r \o Start(target)
        <3>1. CASE platform = "linux"
            BY <3>1, LinuxPlans, Zenon DEF LinuxRestart
        <3>2. CASE platform = "darwin"
            BY <3>2, DarwinPlans, Zenon DEF DarwinRestart
        <3> QED
            BY <1>2, <3>1, <3>2 DEF Platforms
    <2>2. r \in Seq(StartCalls(target))
        BY DEF StartCalls, Starting, OnItsPlatform, Windows, Call
    <2>3. Len(r) = 1 /\ r[1][1] = "stop"
        BY DEF Call
    <2> HIDE DEF r
    <2>4. ~ Has(r, "run") /\ ~ Has(r, "resume") /\ ~ Has(r, "enable")
        BY <2>3 DEF Has
    <2> QED
        BY <1>1, <2>1, <2>2, <2>4, StartAfter
<1>3. CASE platform = "windows"
    <2> DEFINE r == <<Call("rejectFallback"), Call("stop")>>
    <2>1. restartManagedCollector(target) = r \o Start(target)
        BY <1>3, WindowsPlans, Zenon DEF WindowsRestart
    <2>2. r \in Seq(StartCalls(target))
        BY DEF StartCalls, Starting, OnItsPlatform, Windows, Call
    <2>3. Len(r) = 2 /\ r[1][1] = "rejectFallback" /\ r[2][1] = "stop"
        BY DEF Call
    <2> HIDE DEF r
    <2>4. ~ Has(r, "run") /\ ~ Has(r, "resume") /\ ~ Has(r, "enable")
        BY <2>3 DEF Has
    <2> QED
        BY <1>1, <2>1, <2>2, <2>4, StartAfter
<1> QED
    BY <1>2, <1>3

LEMMA WiderSeq ==
    ASSUME NEW S, NEW T, S \subseteq T, NEW s \in Seq(S)
    PROVE  s \in Seq(T)
OBVIOUS

\* Calls a setup makes once it has quiesced the collector.
BeforeQuiesce == {"check", "plan", "quiesce"}

SetupScript(target, s) ==
    /\ s \in Seq(SetupCalls(target))
    /\ s # <<>> /\ Head(s) = <<"check", target>>
    /\ Past("check", "check", s) /\ Past("quiesce", "quiesce", s)
    /\ Has(s, "quiesce") /\ Has(s, "run") /\ ~ Has(s, "resume")
    /\ \A x : x \notin BeforeQuiesce => Preceded(x, "quiesce", s)
    /\ Preceded("run", "define", s)
    /\ Preceded("enable", "define", s)
    /\ Followed("stop", "run", s) /\ Followed("quiesce", "run", s)

LEMMA SetupPlan ==
    ASSUME platform \in Platforms, NEW target
    PROVE  SetupScript(target, bootstrapSupportedAdapters(target))
<1> DEFINE S == SetupCalls(target)
           i == Install(target)
           s == Start(target)
           r == << <<"check", target>>, Call("plan"), Call("quiesce"), Call("initialize") >>
           t == <<Call("adapters")>>
<1>1. bootstrapSupportedAdapters(target) = ((r \o i) \o s) \o t
    BY Zenon DEF bootstrapSupportedAdapters
<1>2. /\ InstallScript(target, i)
      /\ StartScript(target, s)
    BY InstallPlan, StartPlan
<1>3. StartCalls(target) \subseteq S
    BY DEF SetupCalls
<1>4. r \in Seq(S) /\ t \in Seq(S)
    BY DEF SetupCalls, Initializing, Call
<1>5. /\ Len(r) = 4 /\ r[1] = <<"check", target>> /\ r[1][1] = "check"
      /\ r[2][1] = "plan" /\ r[3][1] = "quiesce" /\ r[4][1] = "initialize"
      /\ Len(t) = 1 /\ t[1][1] = "adapters"
    BY DEF Call
<1>6. /\ i \in Seq(StartCalls(target)) /\ s \in Seq(StartCalls(target))
      /\ Has(i, "define") /\ Has(s, "run")
      /\ ~ Has(i, "run") /\ ~ Has(i, "resume") /\ ~ Has(i, "enable") /\ ~ Has(i, "stop")
      /\ ~ Has(s, "resume")
      /\ Preceded("run", "define", s)
      /\ Preceded("enable", "define", s)
      /\ Followed("stop", "run", s)
    BY <1>2 DEF InstallScript, StartScript
<1>7. \A c \in StartCalls(target) : c[1] # "check" /\ c[1] # "quiesce"
    BY DEF StartCalls, Installing, Starting
<1>8. /\ ~ Has(i, "check") /\ ~ Has(i, "quiesce")
      /\ ~ Has(s, "check") /\ ~ Has(s, "quiesce")
    BY <1>6, <1>7, ElementOfSeq DEF Has
<1>9. i \in Seq(S) /\ s \in Seq(S)
    BY <1>3, <1>6, WiderSeq
<1> HIDE DEF r, i, s, t, S
<1>10. /\ Has(r, "quiesce") /\ ~ Has(r, "run") /\ ~ Has(r, "resume")
       /\ ~ Has(r, "enable") /\ ~ Has(r, "stop")
       /\ Past("check", "check", r) /\ Past("quiesce", "quiesce", r)
    BY <1>5 DEF Has, Past
<1>11. ASSUME NEW x, x \notin BeforeQuiesce PROVE Preceded(x, "quiesce", r)
    <2>1. \A k \in 1..Len(r) : r[k][1] = x => k = 4
        BY <1>5, <1>11 DEF BeforeQuiesce
    <2>2. 3 \in 1..Len(r) /\ 3 < 4 /\ r[3][1] = "quiesce"
        BY <1>5
    <2> QED
        BY <2>1, <2>2 DEF Preceded
<1>12. /\ ~ Has(t, "run") /\ ~ Has(t, "resume") /\ ~ Has(t, "enable")
       /\ ~ Has(t, "stop") /\ ~ Has(t, "quiesce") /\ ~ Has(t, "check")
    BY <1>5 DEF Has
<1> DEFINE a == r \o i
           b == a \o s
           c == b \o t
<1>13. a \in Seq(S)
    BY <1>4, <1>9, ConcatElements
<1>14. /\ Has(a, "quiesce") /\ Has(a, "define")
       /\ Preceded("run", "define", a) /\ Preceded("enable", "define", a)
    BY <1>4, <1>9, <1>6, <1>10, Lacks, ConcatKeeps
<1>15. /\ ~ Has(a, "run") /\ ~ Has(a, "resume") /\ ~ Has(a, "stop")
       /\ Past("check", "check", a) /\ Past("quiesce", "quiesce", a)
    BY <1>4, <1>9, <1>6, <1>8, <1>10, Lacks, ConcatLacks, ConcatPast
<1>16. ASSUME NEW x, x \notin BeforeQuiesce PROVE Preceded(x, "quiesce", a)
    BY <1>4, <1>9, <1>10, <1>11, <1>16, ConcatKeeps
<1> HIDE DEF a
<1>17. b \in Seq(S)
    BY <1>13, <1>9, ConcatElements
<1>18. /\ Has(b, "quiesce") /\ Has(b, "run")
       /\ Preceded("run", "define", b) /\ Preceded("enable", "define", b)
    BY <1>13, <1>9, <1>6, <1>14, ConcatKeeps
<1>19. Followed("stop", "run", b) /\ Followed("quiesce", "run", b)
    BY <1>13, <1>9, <1>6, <1>8, Lacks, ConcatKeeps
<1>20. /\ ~ Has(b, "resume")
       /\ Past("check", "check", b) /\ Past("quiesce", "quiesce", b)
    BY <1>13, <1>9, <1>6, <1>8, <1>15, Lacks, ConcatLacks, ConcatPast
<1>21. ASSUME NEW x, x \notin BeforeQuiesce PROVE Preceded(x, "quiesce", b)
    BY <1>13, <1>9, <1>14, <1>16, <1>21, ConcatKeeps
<1>22. /\ c \in Seq(S)
       /\ Has(c, "quiesce") /\ Has(c, "run")
    BY <1>17, <1>4, <1>18, ConcatElements, ConcatKeeps
<1>23. /\ Preceded("run", "define", c) /\ Preceded("enable", "define", c)
    BY <1>17, <1>4, <1>12, <1>18, Lacks, ConcatKeeps
<1>24. Followed("stop", "run", c) /\ Followed("quiesce", "run", c)
    <2>1. Followed("stop", "run", t) /\ Followed("quiesce", "run", t)
        BY <1>12, Lacks
    <2> QED
        BY <1>17, <1>4, <1>19, <2>1, ConcatKeeps
<1>25. /\ ~ Has(c, "resume")
       /\ Past("check", "check", c) /\ Past("quiesce", "quiesce", c)
    BY <1>17, <1>4, <1>12, <1>20, Lacks, ConcatLacks, ConcatPast
<1>26. ASSUME NEW x, x \notin BeforeQuiesce PROVE Preceded(x, "quiesce", c)
    BY <1>17, <1>4, <1>18, <1>21, <1>26, ConcatKeeps
<1>27. c # <<>> /\ Head(c) = <<"check", target>>
    <2>1. 1 \in 1..Len(r) /\ r[1] = <<"check", target>>
        BY <1>5
    <2>2. 1 \in 1..Len(a) /\ a[1] = r[1]
        BY <2>1, <1>4, <1>9, ConcatElements DEF a
    <2>3. 1 \in 1..Len(b) /\ b[1] = a[1]
        BY <2>2, <1>13, <1>9, ConcatElements DEF b
    <2>4. 1 \in 1..Len(c) /\ c[1] = b[1]
        BY <2>3, <1>17, <1>4, ConcatElements DEF c
    <2> HIDE DEF c
    <2>5. c # <<>>
        BY <2>4, <1>22
    <2> QED
        BY <2>1, <2>2, <2>3, <2>4, <2>5, <1>22, TailElements
<1> QED
    BY <1>1, <1>22, <1>23, <1>24, <1>25, <1>26, <1>27, Zenon DEF SetupScript, a, S

\* An uninstall removes the definition after it has stopped and disabled what
\* is defined, and the settings after the files they name.
UnixScript(s) ==
    /\ s \in Seq(UninstallCalls)
    /\ Has(s, "undefine") /\ Has(s, "unsave")
    /\ Preceded("undefine", "stop", s)
    /\ platform = "linux" => Preceded("undefine", "disable", s)
    /\ Preceded("unsave", "removeTree", s)

\* On Windows it first gets the legacy collector out of the way, and stops and
\* removes a task only when there is one.
WindowsScript(s) ==
    /\ s \in Seq(UninstallCalls)
    /\ Has(s, "unregister") /\ Has(s, "unsave")
    /\ IF Status.installed THEN Has(s, "undefine")
       ELSE ~ Has(s, "undefine") /\ ~ Has(s, "stop")
    /\ Preceded("stop", "unregister", s) /\ Preceded("stop", "stopFallback", s)
    /\ Preceded("unsave", "stopFallback", s)
    /\ Preceded("undefine", "stop", s)
    /\ Past("undefine", "stop", s) /\ Past("unsave", "stop", s)

UninstallScript(s) == IF Windows THEN WindowsScript(s) ELSE UnixScript(s)

LEMMA UnixUninstall ==
    ASSUME platform \in {"linux", "darwin"}
    PROVE  UnixScript(Uninstall)
<1> DEFINE S == UninstallCalls
           z == <<Call("removeTree"), Call("unsave")>>
<1>1. z \in Seq(S)
    BY DEF UninstallCalls, Removing, Call
<1>2. Len(z) = 2 /\ z[1][1] = "removeTree" /\ z[2][1] = "unsave"
    BY DEF Call
<1>3. CASE platform = "linux"
    <2> DEFINE a == <<Call("stop"), Call("disable"), Call("undefine")>>
               o == IF service.def # None \/ service.saved # None
                    THEN <<Call("reload")>> ELSE <<>>
    <2>1. Uninstall = (a \o o) \o z
        BY <1>3, LinuxPlans, Zenon DEF LinuxUninstall
    <2>2. a \in Seq(S)
        BY DEF UninstallCalls, Removing, Call
    <2>3. Len(a) = 3 /\ a[1][1] = "stop" /\ a[2][1] = "disable" /\ a[3][1] = "undefine"
        BY DEF Call
    <2>4. o \in Seq(S) /\ \A k \in 1..Len(o) : o[k][1] = "reload"
        BY DEF UninstallCalls, Removing, Call
    <2> HIDE DEF a, o, z, S
    <2>5. /\ Has(a, "undefine") /\ Preceded("undefine", "stop", a)
          /\ Preceded("undefine", "disable", a) /\ ~ Has(a, "unsave")
        BY <2>3 DEF Has, Preceded
    <2>6. ~ Has(o, "undefine") /\ ~ Has(o, "unsave")
        BY <2>4 DEF Has
    <2>7. /\ ~ Has(z, "undefine") /\ Has(z, "unsave")
          /\ Preceded("unsave", "removeTree", z)
        BY <1>2 DEF Has, Preceded
    <2> DEFINE b == a \o o
    <2>8. /\ b \in Seq(S) /\ Has(b, "undefine")
          /\ Preceded("undefine", "stop", b) /\ Preceded("undefine", "disable", b)
        BY <2>2, <2>4, <2>5, <2>6, Lacks, ConcatElements, ConcatKeeps
    <2>9. ~ Has(b, "unsave")
        BY <2>2, <2>4, <2>5, <2>6, ConcatLacks
    <2> HIDE DEF b
    <2> DEFINE u == b \o z
    <2>10. /\ u \in Seq(S) /\ Has(u, "undefine") /\ Has(u, "unsave")
        BY <1>1, <2>7, <2>8, ConcatElements, ConcatKeeps
    <2>11. /\ Preceded("undefine", "stop", u) /\ Preceded("undefine", "disable", u)
           /\ Preceded("unsave", "removeTree", u)
        BY <1>1, <2>7, <2>8, <2>9, Lacks, ConcatKeeps
    <2> QED
        BY <2>1, <2>10, <2>11, Zenon DEF UnixScript, S, b
<1>4. CASE platform = "darwin"
    <2> DEFINE u == <<Call("stop"), Call("undefine"), Call("removeTree"), Call("unsave")>>
    <2>1. Uninstall = u
        BY <1>4, DarwinPlans, Zenon DEF DarwinUninstall
    <2>2. u \in Seq(S)
        BY DEF UninstallCalls, Removing, Call
    <2>3. /\ Len(u) = 4 /\ u[1][1] = "stop" /\ u[2][1] = "undefine"
          /\ u[3][1] = "removeTree" /\ u[4][1] = "unsave"
        BY DEF Call
    <2> HIDE DEF u
    <2>4. Has(u, "undefine") /\ Has(u, "unsave")
        BY <2>3 DEF Has
    <2>5. Preceded("undefine", "stop", u) /\ Preceded("unsave", "removeTree", u)
        BY <2>3 DEF Preceded
    <2> QED
        BY <1>4, <2>1, <2>2, <2>4, <2>5 DEF UnixScript
<1> QED
    BY <1>3, <1>4

LEMMA WindowsUninstallPlan ==
    ASSUME platform = "windows"
    PROVE  WindowsScript(Uninstall)
<1> DEFINE S == UninstallCalls
           a == <<Call("stopFallback"), Call("unregister")>>
           z == <<Call("unsave")>>
           m == <<Call("stop"), Call("undefine")>>
<1>1. z \in Seq(S) /\ a \in Seq(S) /\ m \in Seq(S) /\ <<>> \in Seq(S)
    BY DEF UninstallCalls, Removing, Call
<1>2. /\ Len(z) = 1 /\ z[1][1] = "unsave"
      /\ Len(a) = 2 /\ a[1][1] = "stopFallback" /\ a[2][1] = "unregister"
      /\ Len(m) = 2 /\ m[1][1] = "stop" /\ m[2][1] = "undefine"
    BY DEF Call
<1>3. /\ Status.installed => Uninstall = (a \o m) \o z
      /\ ~ Status.installed => Uninstall = (a \o <<>>) \o z
    BY WindowsPlans, Zenon DEF WindowsUninstall
<1> HIDE DEF a, m, z, S
<1>4. /\ Has(a, "unregister") /\ Has(a, "stopFallback")
      /\ ~ Has(a, "stop") /\ ~ Has(a, "undefine") /\ ~ Has(a, "unsave")
    BY <1>2 DEF Has
<1>5. /\ Has(z, "unsave") /\ ~ Has(z, "stop") /\ ~ Has(z, "undefine")
    BY <1>2 DEF Has
<1>6. /\ Has(m, "undefine") /\ ~ Has(m, "unsave")
      /\ Preceded("undefine", "stop", m) /\ Past("undefine", "stop", m)
    BY <1>2 DEF Has, Preceded, Past
<1>7. ASSUME NEW n \in Seq(S), ~ Has(n, "unsave"),
             Preceded("undefine", "stop", n), Past("undefine", "stop", n)
      PROVE  LET u == (a \o n) \o z
             IN  /\ u \in Seq(S) /\ Has(u, "unregister") /\ Has(u, "unsave")
                 /\ Has(n, "undefine") => Has(u, "undefine")
                 /\ ~ Has(n, "undefine") => ~ Has(u, "undefine")
                 /\ ~ Has(n, "stop") => ~ Has(u, "stop")
                 /\ Preceded("stop", "unregister", u)
                 /\ Preceded("stop", "stopFallback", u)
                 /\ Preceded("unsave", "stopFallback", u)
                 /\ Preceded("undefine", "stop", u)
                 /\ Past("undefine", "stop", u) /\ Past("unsave", "stop", u)
    <2> DEFINE b == a \o n
               u == b \o z
    <2>1. /\ b \in Seq(S) /\ Has(b, "unregister") /\ Has(b, "stopFallback")
          /\ Has(n, "undefine") => Has(b, "undefine")
        BY <1>1, <1>4, ConcatElements, ConcatKeeps
    <2>2. /\ ~ Has(b, "unsave")
          /\ ~ Has(n, "undefine") => ~ Has(b, "undefine")
          /\ ~ Has(n, "stop") => ~ Has(b, "stop")
        BY <1>1, <1>4, <1>7, ConcatLacks
    <2>3. /\ Preceded("stop", "unregister", b) /\ Preceded("stop", "stopFallback", b)
          /\ Preceded("undefine", "stop", b)
        BY <1>1, <1>4, <1>7, Lacks, ConcatKeeps
    <2>4. Past("undefine", "stop", b)
        BY <1>1, <1>4, <1>7, Lacks, ConcatPast
    <2> HIDE DEF b
    <2>5. /\ u \in Seq(S) /\ Has(u, "unregister") /\ Has(u, "unsave")
          /\ Has(n, "undefine") => Has(u, "undefine")
        BY <1>1, <1>5, <2>1, ConcatElements, ConcatKeeps
    <2>6. /\ ~ Has(n, "undefine") => ~ Has(u, "undefine")
          /\ ~ Has(n, "stop") => ~ Has(u, "stop")
        BY <1>1, <1>5, <2>1, <2>2, ConcatLacks
    <2>7. /\ Preceded("stop", "unregister", u) /\ Preceded("stop", "stopFallback", u)
          /\ Preceded("undefine", "stop", u)
        BY <1>1, <1>5, <2>1, <2>3, Lacks, ConcatKeeps
    <2>8. Preceded("unsave", "stopFallback", u)
        BY <1>1, <2>1, <2>2, Lacks, ConcatKeeps
    <2>9. Past("undefine", "stop", u) /\ Past("unsave", "stop", u)
        BY <1>1, <1>5, <2>1, <2>2, <2>4, Lacks, ConcatPast
    <2> QED
        BY <2>5, <2>6, <2>7, <2>8, <2>9, Zenon DEF b
<1>8. CASE Status.installed
    BY <1>1, <1>3, <1>6, <1>7, <1>8, Zenon DEF WindowsScript, S
<1>9. CASE ~ Status.installed
    <2>1. /\ ~ Has(<<>>, "unsave") /\ ~ Has(<<>>, "undefine") /\ ~ Has(<<>>, "stop")
        BY DEF Has
    <2>2. Preceded("undefine", "stop", <<>>) /\ Past("undefine", "stop", <<>>)
        BY <2>1, Lacks
    <2> QED
        BY <1>1, <1>3, <1>7, <1>9, <2>1, <2>2, Zenon DEF WindowsScript, S
<1> QED
    BY <1>8, <1>9

\* A call that changes nothing may come before.
LEMMA UninstallPlans ==
    ASSUME platform \in Platforms
    PROVE  UninstallScript(Uninstall) /\ UninstallScript(newUninstallCommand)
<1> DEFINE S == UninstallCalls
           r == <<Call("unadapt")>>
           u == Uninstall
<1>1. r \in Seq(S) /\ Len(r) = 1 /\ r[1][1] = "unadapt"
    BY DEF UninstallCalls, Removing, Call
<1>2. newUninstallCommand = r \o u
    BY Zenon DEF newUninstallCommand
<1> HIDE DEF r
<1>3. ASSUME NEW x, x # "unadapt" PROVE ~ Has(r, x)
    BY <1>1, <1>3 DEF Has
<1>4. CASE Windows
    <2>1. WindowsScript(u)
        BY <1>4, WindowsUninstallPlan DEF Windows
    <2> DEFINE w == r \o u
    <2> HIDE DEF S, u
    <2>2. u \in Seq(S)
        BY <2>1 DEF WindowsScript, S
    <2>3. /\ w \in Seq(S)
          /\ Has(u, "unregister") => Has(w, "unregister")
          /\ Has(u, "unsave") => Has(w, "unsave")
          /\ Has(u, "undefine") => Has(w, "undefine")
        BY <1>1, <2>2, ConcatElements, ConcatKeeps
    <2>4. /\ ~ Has(u, "undefine") => ~ Has(w, "undefine")
          /\ ~ Has(u, "stop") => ~ Has(w, "stop")
        BY <1>1, <1>3, <2>2, ConcatLacks
    <2>5. ASSUME NEW x, NEW y, x # "unadapt", Preceded(x, y, u) PROVE Preceded(x, y, w)
        <3>1. Preceded(x, y, r)
            BY <1>3, <2>5, Lacks
        <3> QED
            BY <1>1, <2>2, <2>5, <3>1, ConcatKeeps
    <2>6. ASSUME NEW x, NEW y, x # "unadapt", Past(x, y, u) PROVE Past(x, y, w)
        <3>1. ~ Has(r, x)
            BY <1>3, <2>6
        <3>2. Past(x, y, r)
            BY <3>1, Lacks
        <3> QED
            BY <1>1, <2>2, <2>6, <3>1, <3>2, ConcatPast
    <2>7. WindowsScript(w)
        BY <2>1, <2>3, <2>4, <2>5, <2>6 DEF WindowsScript, S
    <2> QED
        BY <1>2, <1>4, <2>1, <2>7 DEF UninstallScript, u
<1>5. CASE ~ Windows
    <2>1. UnixScript(u)
        BY <1>5, UnixUninstall DEF Windows, Platforms
    <2> DEFINE w == r \o u
    <2> HIDE DEF S, u
    <2>2. u \in Seq(S)
        BY <2>1 DEF UnixScript, S
    <2>3. /\ w \in Seq(S)
          /\ Has(u, "unsave") => Has(w, "unsave")
          /\ Has(u, "undefine") => Has(w, "undefine")
        BY <1>1, <2>2, ConcatElements, ConcatKeeps
    <2>4. ASSUME NEW x, NEW y, x # "unadapt", Preceded(x, y, u) PROVE Preceded(x, y, w)
        <3>1. Preceded(x, y, r)
            BY <1>3, <2>4, Lacks
        <3> QED
            BY <1>1, <2>2, <2>4, <3>1, ConcatKeeps
    <2>5. UnixScript(w)
        BY <2>1, <2>3, <2>4 DEF UnixScript, S
    <2> QED
        BY <1>2, <1>5, <2>1, <2>5 DEF UninstallScript, u
<1> QED
    BY <1>4, <1>5

-----------------------------------------------------------------------------
(* Type correctness, and what each action does to the command.             *)

CommandNames ==
    {"none", "install", "start", "stop", "restart", "uninstall", "uninstallAll", "setup"}

Uninstalls == {"uninstall", "uninstallAll"}

Commands(S) ==
    [name : CommandNames, target : S, before : S, settled : BOOLEAN, known : BOOLEAN,
     installed : BOOLEAN, active : S, restore : BOOLEAN, restoring : BOOLEAN,
     failed : BOOLEAN, unrestored : BOOLEAN, denied : BOOLEAN, partial : BOOLEAN]

\* The calls a command may still have to make.
CallsLeft ==
    IF cmd.name \in Uninstalls THEN UninstallCalls
    ELSE IF cmd.restoring THEN StartCalls(cmd.active)
    ELSE IF cmd.name = "setup" THEN SetupCalls(cmd.target)
    ELSE StartCalls(cmd.target)

ServiceTyped ==
    /\ platform \in Platforms /\ queryable \in BOOLEAN
    /\ service \in Records(TargetOrNone)
    /\ foreground \in TargetOrNone
    /\ service.running = None \/ foreground = None
    /\ service.legacy => service.running # None

CommandTyped ==
    /\ cmd \in Commands(TargetOrNone)
    /\ cmd.name = "none" => cmd = NoCommand /\ todo = <<>>
    /\ cmd.name # "none" => cmd.target \in Targets /\ cmd.active \in Targets
    /\ cmd.restore \/ cmd.restoring => cmd.name = "setup"
    /\ todo \in Seq(CallsLeft)

Typed == ServiceTyped /\ CommandTyped

LEMMA TypedIsTypeOK == ASSUME Typed PROVE TypeOK
<1>1. /\ service \in Records(TargetOrNone) /\ foreground \in TargetOrNone
      /\ cmd \in Commands(TargetOrNone)
    BY DEF Typed, ServiceTyped, CommandTyped
<1>2. /\ service.def \in TargetOrNone /\ service.saved \in TargetOrNone
      /\ service.running \in TargetOrNone /\ service.fallback \in TargetOrNone
      /\ service.enabled \in BOOLEAN /\ service.runKey \in BOOLEAN
      /\ service.legacy \in BOOLEAN /\ service.trees \subseteq Targets
    BY <1>1 DEF Records
<1>3. DOMAIN service = DOMAIN NoService
    BY <1>1 DEF Records, NoService
<1>4. DOMAIN cmd = DOMAIN NoCommand
    BY <1>1 DEF Commands, NoCommand
<1>5. cmd = NoCommand => todo = <<>>
    BY DEF Typed, CommandTyped, NoCommand
<1>6. /\ platform \in {"linux", "darwin", "windows"} /\ queryable \in BOOLEAN
      /\ service.running = None \/ foreground = None
      /\ service.legacy => service.running # None
    BY DEF Typed, ServiceTyped, Platforms
<1> QED
    BY <1>1, <1>2, <1>3, <1>4, <1>5, <1>6 DEF TypeOK

\* Nothing is installed, but perhaps the legacy collector on Windows.
LEMMA InitialService ==
    ASSUME Init
    PROVE  /\ service \in Records(TargetOrNone)
           /\ service.def = None /\ service.saved = None /\ ~ service.enabled
           /\ service.trees = {}
           /\ service.running # None => service.legacy
           /\ service.legacy => service.running # None /\ service.fallback # None
           /\ ~ Windows => service.fallback = None /\ ~ service.runKey /\ ~ service.legacy
<1>1. None \in TargetOrNone /\ Targets \subseteq TargetOrNone /\ None \notin Targets
    BY TargetsAssumption DEF TargetOrNone
<1>2. CASE service = NoService
    BY <1>1, <1>2 DEF NoService, Records
<1>3. CASE Windows /\ service # NoService
    <2>1. PICK target \in Targets, up \in BOOLEAN :
             service = [NoService EXCEPT
                          !.fallback = target, !.runKey = TRUE,
                          !.legacy = up,
                          !.running = IF up THEN target ELSE None]
        BY <1>3, Zenon DEF Init
    <2>2. service = [def |-> None, saved |-> None, enabled |-> FALSE,
                     running |-> IF up THEN target ELSE None, trees |-> {},
                     fallback |-> target, runKey |-> TRUE, legacy |-> up]
        BY <2>1 DEF NoService
    <2> QED
        BY <1>1, <1>3, <2>2 DEF Records
<1>4. service = NoService \/ (Windows /\ service # NoService)
    BY Zenon DEF Init
<1> QED
    BY <1>2, <1>3, <1>4

LEMMA InitTyped == ASSUME Init PROVE Typed
<1>1. /\ platform \in {"linux", "darwin", "windows"}
      /\ queryable \in IF Windows THEN BOOLEAN ELSE {TRUE}
      /\ foreground = None /\ cmd = NoCommand /\ todo = <<>>
    BY Zenon DEF Init
<1>2. None \in TargetOrNone
    BY DEF TargetOrNone
<1>3. ServiceTyped
    BY <1>1, <1>2, InitialService DEF ServiceTyped, Platforms
<1>4. NoCommand \in Commands(TargetOrNone)
    BY <1>2 DEF NoCommand, Commands, CommandNames
<1>5. todo \in Seq(CallsLeft)
    BY <1>1
<1>6. NoCommand.name = "none" /\ ~ NoCommand.restore /\ ~ NoCommand.restoring
    BY DEF NoCommand
<1>7. CommandTyped
    BY <1>1, <1>4, <1>5, <1>6, Zenon DEF CommandTyped
<1> QED
    BY <1>3, <1>7 DEF Typed

\* The targets a command works for are targets.
LEMMA ActiveIsTarget ==
    ASSUME ServiceTyped, NEW target \in Targets
    PROVE  resolveManagedCollectorSettings(target) \in Targets
<1>1. service.saved \in TargetOrNone /\ service.fallback \in TargetOrNone
    BY DEF ServiceTyped, Records
<1>2. LinuxSettings(target) \in Targets /\ DarwinSettings(target) \in Targets
    BY <1>1 DEF LinuxSettings, DarwinSettings, TargetOrNone
<1>3. WindowsSettings(target) \in Targets
    <2>1. CASE Windows
        <3>1. Status = windowsCollectorStatus
            BY <2>1 DEF Status, Windows
        <3>2. Status.home \in TargetOrNone
            BY <1>1, <3>1 DEF windowsCollectorStatus
        <3> HIDE DEF Status
        <3> QED
            BY <3>2 DEF WindowsSettings, TargetOrNone
    <2>2. CASE ~ Windows
        <3>1. Status.home = service.saved
            BY <2>2 DEF Status, LinuxStatus, DarwinStatus, Windows, ServiceTyped, Platforms
        <3> HIDE DEF Status
        <3> QED
            BY <1>1, <3>1 DEF WindowsSettings, TargetOrNone
    <2> QED
        BY <2>1, <2>2
<1> QED
    BY <1>2, <1>3 DEF resolveManagedCollectorSettings, ServiceTyped, Platforms, Windows

\* The next call of a command.
LEMMA NextCall ==
    ASSUME Typed, todo # <<>>
    PROVE  /\ cmd.name # "none"
           /\ Head(todo) \in CallsLeft /\ Tail(todo) \in Seq(CallsLeft)
           /\ Head(todo)[1] \in Names
           /\ Head(todo)[1] \in {"makeTree", "define", "save", "check"} =>
                 Head(todo)[2] \in Targets
           /\ Head(todo)[1] = "makeTree" => ~ Windows
           /\ Head(todo)[1] = "enable" => platform = "linux"
<1>1. cmd.name # "none" /\ todo \in Seq(CallsLeft) /\ cmd.target \in Targets /\ cmd.active \in Targets
    BY DEF Typed, CommandTyped
<1>2. Head(todo) \in CallsLeft /\ Tail(todo) \in Seq(CallsLeft)
    <2> HIDE DEF CallsLeft
    <2> QED
        BY <1>1, TailElements
<1>3. ASSUME NEW call \in CallsLeft
      PROVE  /\ call[1] \in Names
             /\ call[1] \in {"makeTree", "define", "save", "check"} => call[2] \in Targets
             /\ call[1] = "makeTree" => ~ Windows
             /\ call[1] = "enable" => platform = "linux"
    BY <1>1 DEF CallsLeft, UninstallCalls, SetupCalls, StartCalls, Names, Installing,
              Starting, Initializing, Removing, OnItsPlatform
<1> QED
    BY <1>1, <1>2, <1>3

\* The service after the next call.
LEMMA EffectTyped ==
    ASSUME Typed, todo # <<>>
    PROVE  LET e == Effect(Head(todo))
           IN  /\ e \in Records(TargetOrNone)
               /\ e.running = None \/ foreground = None
               /\ e.legacy => e.running # None
<1> DEFINE call == Head(todo)
           e == Effect(call)
<1>1. /\ service \in Records(TargetOrNone)
      /\ service.running = None \/ foreground = None
      /\ service.legacy => service.running # None
    BY DEF Typed, ServiceTyped
<1>2. /\ call[1] \in Names
      /\ call[1] \in {"makeTree", "define", "save", "check"} => call[2] \in Targets
    BY NextCall
<1> HIDE DEF call
<1> DEFINE S == TargetOrNone
<1>3. None \in S /\ Targets \subseteq S
    BY DEF TargetOrNone
<1> HIDE DEF S
<1>4. service \in Records(S)
    BY <1>1 DEF S
<1>5. /\ e.def = (IF call[1] = "define" THEN call[2]
                  ELSE IF call[1] = "undefine" THEN None ELSE service.def)
      /\ e.saved = (IF call[1] = "save" THEN call[2]
                    ELSE IF call[1] = "unsave" THEN None ELSE service.saved)
      /\ e.enabled = (IF call[1] = "enable" THEN TRUE
                      ELSE IF call[1] = "disable"
                      THEN service.enabled /\ service.def = None
                      ELSE service.enabled)
      /\ e.running = (IF StartsIt(call) THEN service.def
                      ELSE IF StopsIt(call) THEN None ELSE service.running)
      /\ e.trees = (IF call[1] = "makeTree" THEN service.trees \union {call[2]}
                    ELSE IF call[1] = "removeTree"
                    THEN service.trees \ {service.saved} ELSE service.trees)
      /\ e.fallback = (IF call[1] = "unsave" THEN None ELSE service.fallback)
      /\ e.runKey = (IF call[1] = "unregister" THEN FALSE ELSE service.runKey)
      /\ e.legacy = (IF StopsIt(call) THEN FALSE ELSE service.legacy)
      /\ e = [def |-> e.def, saved |-> e.saved, enabled |-> e.enabled,
              running |-> e.running, trees |-> e.trees,
              fallback |-> e.fallback, runKey |-> e.runKey, legacy |-> e.legacy]
    BY <1>2, <1>4, EffectOnFields
<1> HIDE DEF e
<1>6. /\ service.def \in S /\ service.saved \in S /\ service.running \in S
      /\ service.fallback \in S /\ service.enabled \in BOOLEAN
      /\ service.runKey \in BOOLEAN /\ service.legacy \in BOOLEAN
      /\ service.trees \subseteq Targets
    BY <1>4 DEF Records
<1>7. e.def \in S /\ e.saved \in S /\ e.running \in S /\ e.fallback \in S
    BY <1>2, <1>3, <1>5, <1>6
<1>8. e.enabled \in BOOLEAN /\ e.runKey \in BOOLEAN /\ e.legacy \in BOOLEAN
    BY <1>5, <1>6
<1>9. e.trees \subseteq Targets
    BY <1>2, <1>5, <1>6
<1>10. e \in Records(S)
    BY <1>5, <1>7, <1>8, <1>9, Zenon DEF Records
<1>11. e.running = None \/ foreground = None
    BY <1>1, <1>5 DEF StartsIt
<1>12. e.legacy => e.running # None
    BY <1>1, <1>5 DEF StartsIt
<1> QED
    BY <1>10, <1>11, <1>12 DEF S, e, call

\* What a reboot leaves: the tables of files and settings, and what is started
\* at login.
LEMMA RebootService ==
    ASSUME ServiceTyped, Reboot
    PROVE  /\ service' \in Records(TargetOrNone)
           /\ service'.def = service.def /\ service'.saved = service.saved
           /\ service'.enabled = service.enabled /\ service'.trees = service.trees
           /\ service'.fallback = service.fallback /\ service'.runKey = service.runKey
           /\ \/ service'.running = service.def /\ service'.legacy = FALSE
              \/ /\ service'.running = service.fallback /\ service'.legacy = TRUE
                 /\ service'.running # None /\ service.runKey
              \/ service'.running = None /\ service'.legacy = FALSE
<1>1. PICK up \in {[target |-> service.def, legacy |-> FALSE],
                   [target |-> service.fallback, legacy |-> TRUE],
                   [target |-> None, legacy |-> FALSE]} :
         /\ up.legacy => service.runKey /\ up.target # None
         /\ service' = [service EXCEPT !.running = up.target, !.legacy = up.legacy]
    BY Zenon DEF Reboot
<1>2. service \in Records(TargetOrNone) /\ None \in TargetOrNone
    BY DEF ServiceTyped, TargetOrNone
<1> DEFINE t == up.target
           l == up.legacy
<1>3. \/ t = service.def /\ l = FALSE
      \/ t = service.fallback /\ l = TRUE
      \/ t = None /\ l = FALSE
    OBVIOUS
<1>4. l => service.runKey /\ t # None
    BY <1>1
<1>5. service' = [service EXCEPT !.running = t, !.legacy = l]
    BY <1>1
<1> HIDE DEF t, l
<1>6. service' = [def |-> service.def, saved |-> service.saved, enabled |-> service.enabled,
                  running |-> t, trees |-> service.trees, fallback |-> service.fallback,
                  runKey |-> service.runKey, legacy |-> l]
    BY <1>2, <1>5 DEF Records
<1>7. t \in TargetOrNone /\ l \in BOOLEAN
    BY <1>2, <1>3 DEF Records
<1>8. service' \in Records(TargetOrNone)
    BY <1>2, <1>6, <1>7 DEF Records
<1> QED
    BY <1>3, <1>4, <1>6, <1>8

\* The steps that change nothing of the service.
LEMMA ServiceStays ==
    ASSUME \/ \E name \in {"install", "start", "stop", "restart", "uninstall",
                        "uninstallAll", "setup"}, target \in Targets : Begin(name, target)
           \/ Refuse \/ Fail \/ Deny \/ Finish \/ Kill \/ StopServing \/ UNCHANGED vars
    PROVE  /\ service' = service /\ platform' = platform /\ queryable' = queryable
           /\ foreground' \in {foreground, None}
<1>1. ASSUME NEW name, NEW target, Begin(name, target)
      PROVE  service' = service /\ platform' = platform /\ queryable' = queryable
             /\ foreground' = foreground
    BY <1>1, Zenon DEF Begin, settings
<1>2. CASE Refuse
    BY <1>2, Zenon DEF Refuse, settings
<1>3. CASE Fail
    BY <1>3, Zenon DEF Fail, settings
<1>4. CASE Deny
    BY <1>4, Zenon DEF Deny, settings
<1>5. CASE Finish
    BY <1>5, Zenon DEF Finish, settings
<1>6. CASE Kill
    BY <1>6, Zenon DEF Kill, settings
<1>7. CASE StopServing
    BY <1>7, Zenon DEF StopServing, settings
<1>8. CASE UNCHANGED vars
    BY <1>8, Zenon DEF vars, settings
<1> QED
    BY <1>1, <1>2, <1>3, <1>4, <1>5, <1>6, <1>7, <1>8

LEMMA ServiceTypedStep ==
    ASSUME Typed, [Next]_vars
    PROVE  ServiceTyped'
<1>1. CASE Succeed
    <2>1. todo # <<>> /\ service' = Effect(Head(todo)) /\ foreground' = foreground
          /\ platform' = platform /\ queryable' = queryable
        BY <1>1, Zenon DEF Succeed, settings
    <2>2. /\ service' \in Records(TargetOrNone)
          /\ service'.running = None \/ foreground' = None
          /\ service'.legacy => service'.running # None
        BY <2>1, EffectTyped
    <2> QED
        BY <2>1, <2>2 DEF Typed, ServiceTyped, Records
<1>2. CASE Reboot
    <2>1. foreground' = None /\ platform' = platform /\ queryable' = queryable
        BY <1>2, Zenon DEF Reboot, settings
    <2> QED
        BY <1>2, <2>1, RebootService DEF Typed, ServiceTyped, TargetOrNone, Records
<1>3. CASE /\ service' = service /\ platform' = platform /\ queryable' = queryable
           /\ foreground' \in {foreground, None}
    BY <1>3 DEF Typed, ServiceTyped, Records, TargetOrNone
<1>4. ASSUME NEW target \in Targets, Serve(target) PROVE ServiceTyped'
    <2>1. /\ service' = service /\ platform' = platform /\ queryable' = queryable
          /\ foreground' = target /\ service.running = None
        BY <1>4, Zenon DEF Serve, settings
    <2> QED
        BY <2>1 DEF Typed, ServiceTyped, Records, TargetOrNone
<1>5. ASSUME \/ \E name \in {"install", "start", "stop", "restart", "uninstall",
                          "uninstallAll", "setup"}, target \in Targets : Begin(name, target)
             \/ Refuse \/ Fail \/ Deny \/ Finish \/ Kill \/ StopServing \/ UNCHANGED vars
      PROVE  /\ service' = service /\ platform' = platform /\ queryable' = queryable
             /\ foreground' \in {foreground, None}
    BY <1>5, ServiceStays
<1> QED
    BY <1>1, <1>2, <1>3, <1>4, <1>5 DEF Next

\* What a command was asked for, and what it found when it began.
SameTask ==
    /\ cmd'.name = cmd.name /\ cmd'.target = cmd.target
    /\ cmd'.before = cmd.before /\ cmd'.known = cmd.known
    /\ cmd'.installed = cmd.installed /\ cmd'.active = cmd.active

LEMMA Succeeded ==
    ASSUME Typed, Succeed
    PROVE  /\ todo # <<>> /\ ~ Refused(Head(todo))
           /\ service' = Effect(Head(todo)) /\ todo' = Tail(todo)
           /\ platform' = platform /\ queryable' = queryable
           /\ foreground' = foreground
           /\ cmd' \in Commands(TargetOrNone)
           /\ SameTask
           /\ cmd'.settled = cmd.settled /\ cmd'.failed = cmd.failed
           /\ cmd'.denied = cmd.denied /\ cmd'.restoring = cmd.restoring
           /\ cmd'.unrestored = cmd.unrestored
           /\ IF Head(todo)[1] = "quiesce"
              THEN cmd'.restore = stopCollectorForLedgerInitialization
              ELSE IF Head(todo)[1] = "resume" /\ ~ cmd.restoring
              THEN cmd'.restore = FALSE
              ELSE cmd'.restore = cmd.restore
<1> DEFINE call == Head(todo)
           stops == stopCollectorForLedgerInitialization
<1>1. /\ todo # <<>> /\ ~ Refused(call)
      /\ service' = Effect(call) /\ todo' = Tail(todo)
      /\ platform' = platform /\ queryable' = queryable
      /\ foreground' = foreground
      /\ cmd' = CASE call[1] = "quiesce" -> [cmd EXCEPT !.restore = stops]
                  [] call[1] = "resume" /\ ~ cmd.restoring ->
                        [cmd EXCEPT !.restore = FALSE]
                  [] OTHER -> cmd
    BY Zenon DEF Succeed, settings
<1>2. cmd \in Commands(TargetOrNone)
    BY DEF Typed, CommandTyped
<1>3. stops \in BOOLEAN
    BY DEF stopCollectorForLedgerInitialization
<1> HIDE DEF call, stops
<1>4. CASE call[1] = "quiesce"
    <2>1. cmd' = [cmd EXCEPT !.restore = stops]
        BY <1>1, <1>4
    <2>2. cmd' \in Commands(TargetOrNone)
        BY <1>2, <1>3, <2>1 DEF Commands
    <2>3. SameTask /\ cmd'.settled = cmd.settled /\ cmd'.failed = cmd.failed
          /\ cmd'.denied = cmd.denied /\ cmd'.restoring = cmd.restoring
          /\ cmd'.unrestored = cmd.unrestored /\ cmd'.restore = stops
        BY <1>2, <2>1 DEF SameTask, Commands
    <2> QED
        BY <1>1, <1>4, <2>2, <2>3 DEF call, stops
<1>5. CASE call[1] = "resume" /\ ~ cmd.restoring
    <2>1. cmd' = [cmd EXCEPT !.restore = FALSE]
        BY <1>1, <1>5
    <2>2. cmd' \in Commands(TargetOrNone)
        BY <1>2, <2>1 DEF Commands
    <2>3. SameTask /\ cmd'.settled = cmd.settled /\ cmd'.failed = cmd.failed
          /\ cmd'.denied = cmd.denied /\ cmd'.restoring = cmd.restoring
          /\ cmd'.unrestored = cmd.unrestored /\ cmd'.restore = FALSE
        BY <1>2, <2>1 DEF SameTask, Commands
    <2> QED
        BY <1>1, <1>5, <2>2, <2>3 DEF call
<1>6. CASE call[1] # "quiesce" /\ ~ (call[1] = "resume" /\ ~ cmd.restoring)
    <2>1. cmd' = cmd
        BY <1>1, <1>6
    <2> QED
        BY <1>1, <1>2, <1>6, <2>1 DEF call, SameTask
<1> QED
    BY <1>4, <1>5, <1>6

LEMMA Aborted ==
    ASSUME Typed, Abort
    PROVE  /\ cmd' \in Commands(TargetOrNone)
           /\ SameTask
           /\ cmd'.settled = cmd.settled /\ cmd'.denied = cmd.denied
           /\ cmd'.restore = cmd.restore /\ cmd'.failed = TRUE
           /\ IF cmd.restore /\ ~ cmd.restoring
              THEN /\ cmd'.restoring = TRUE /\ cmd'.unrestored = cmd.unrestored
                   /\ todo' = restartManagedCollector(cmd.active)
              ELSE /\ cmd'.restoring = cmd.restoring
                   /\ cmd'.unrestored = cmd.restoring
                   /\ todo' = <<>>
<1>1. cmd \in Commands(TargetOrNone) /\ cmd.restoring \in BOOLEAN
    BY DEF Typed, CommandTyped, Commands
<1>2. CASE cmd.restore /\ ~ cmd.restoring
    <2>1. /\ cmd' = [cmd EXCEPT !.failed = TRUE, !.restoring = TRUE]
          /\ todo' = restartManagedCollector(cmd.active)
        BY <1>2, Zenon DEF Abort
    <2>2. cmd' \in Commands(TargetOrNone)
        BY <1>1, <2>1 DEF Commands
    <2> QED
        BY <1>1, <1>2, <2>1, <2>2 DEF SameTask, Commands
<1>3. CASE ~ (cmd.restore /\ ~ cmd.restoring)
    <2>1. /\ cmd' = [cmd EXCEPT !.failed = TRUE, !.unrestored = cmd.restoring]
          /\ todo' = <<>>
        BY <1>3, Zenon DEF Abort
    <2>2. cmd' \in Commands(TargetOrNone)
        BY <1>1, <2>1 DEF Commands
    <2> QED
        BY <1>1, <1>3, <2>1, <2>2 DEF SameTask, Commands
<1> QED
    BY <1>2, <1>3

\* A call that returns an error.
Errs == todo # <<>> /\ Head(todo)[1] # "unadapt" /\ Abort

\* An adapter that is not uninstalled.
Skips ==
    /\ todo # <<>> /\ Head(todo)[1] = "unadapt"
    /\ cmd' = [cmd EXCEPT !.partial = TRUE]
    /\ todo' = Tail(todo)

Skipped ==
    /\ todo # <<>> /\ Head(todo)[1] = "unadapt" /\ todo' = Tail(todo)
    /\ cmd' \in Commands(TargetOrNone)
    /\ SameTask
    /\ cmd'.settled = cmd.settled /\ cmd'.failed = cmd.failed
    /\ cmd'.denied = cmd.denied /\ cmd'.restoring = cmd.restoring
    /\ cmd'.unrestored = cmd.unrestored /\ cmd'.restore = cmd.restore

LEMMA SkippedCall == ASSUME Typed, Skips PROVE Skipped
<1>1. cmd \in Commands(TargetOrNone)
    BY DEF Typed, CommandTyped
<1>2. cmd' = [cmd EXCEPT !.partial = TRUE] /\ todo # <<>>
      /\ Head(todo)[1] = "unadapt" /\ todo' = Tail(todo)
    BY DEF Skips
<1>3. cmd' \in Commands(TargetOrNone)
    BY <1>1, <1>2 DEF Commands
<1> QED
    BY <1>1, <1>2, <1>3 DEF Skipped, SameTask, Commands

\* The definition of a task is refused.
LEMMA DefinitionDenied ==
    ASSUME Typed, Deny
    PROVE  /\ Windows /\ todo # <<>> /\ Head(todo)[1] = "define"
           /\ cmd' \in Commands(TargetOrNone)
           /\ SameTask
           /\ cmd'.settled = cmd.settled /\ cmd'.restore = cmd.restore
           /\ cmd'.restoring = cmd.restoring
           /\ \/ /\ cmd.name = "restart" \/ cmd.restoring
                 /\ todo' = <<Call("resume")>>
                 /\ cmd'.denied = cmd.denied
                 /\ \/ cmd'.failed = cmd.failed /\ cmd'.unrestored = cmd.unrestored
                    \/ cmd'.failed = TRUE /\ cmd'.unrestored = cmd.restoring
              \/ /\ cmd.name = "setup" /\ ~ cmd.restoring
                 /\ todo' = (IF cmd.restore THEN <<Call("resume")>> ELSE <<>>)
                               \o <<Call("adapters")>>
                 /\ cmd'.denied = TRUE
                 /\ cmd'.failed = cmd.failed /\ cmd'.unrestored = cmd.unrestored
<1>1. cmd \in Commands(TargetOrNone) /\ cmd.restoring \in BOOLEAN
    BY DEF Typed, CommandTyped, Commands
<1>2. Windows /\ todo # <<>> /\ Head(todo)[1] = "define"
    BY Zenon DEF Deny
<1>3. \/ /\ cmd.name = "restart" \/ cmd.restoring
         /\ todo' = <<Call("resume")>>
         /\ \/ cmd' = cmd
            \/ cmd' = [cmd EXCEPT !.failed = TRUE, !.unrestored = cmd.restoring]
      \/ /\ cmd.name = "setup" /\ ~ cmd.restoring
         /\ todo' = (IF cmd.restore THEN <<Call("resume")>> ELSE <<>>)
                       \o <<Call("adapters")>>
         /\ cmd' = [cmd EXCEPT !.denied = TRUE]
    BY Zenon DEF Deny
<1>4. CASE /\ cmd.name = "restart" \/ cmd.restoring
           /\ todo' = <<Call("resume")>>
           /\ cmd' = cmd
    BY <1>1, <1>2, <1>4 DEF SameTask
<1>5. CASE /\ cmd.name = "restart" \/ cmd.restoring
           /\ todo' = <<Call("resume")>>
           /\ cmd' = [cmd EXCEPT !.failed = TRUE, !.unrestored = cmd.restoring]
    BY <1>1, <1>2, <1>5 DEF SameTask, Commands
<1>6. CASE /\ cmd.name = "setup" /\ ~ cmd.restoring
           /\ todo' = (IF cmd.restore THEN <<Call("resume")>> ELSE <<>>)
                         \o <<Call("adapters")>>
           /\ cmd' = [cmd EXCEPT !.denied = TRUE]
    <2> DEFINE t == (IF cmd.restore THEN <<Call("resume")>> ELSE <<>>)
                       \o <<Call("adapters")>>
    <2>1. todo' = t
        BY <1>6
    <2> HIDE DEF t
    <2>2. /\ cmd' \in Commands(TargetOrNone)
          /\ SameTask
          /\ cmd'.settled = cmd.settled /\ cmd'.restore = cmd.restore
          /\ cmd'.restoring = cmd.restoring
          /\ cmd'.denied = TRUE
          /\ cmd'.failed = cmd.failed /\ cmd'.unrestored = cmd.unrestored
        BY <1>1, <1>6 DEF SameTask, Commands
    <2> QED
        BY <1>2, <1>6, <2>1, <2>2 DEF t
<1> QED
    BY <1>3, <1>4, <1>5, <1>6

CommandsAsked == CommandNames \ {"none"}

\* A command as it begins.
LEMMA Begun ==
    ASSUME Typed, NEW name \in CommandsAsked, NEW target \in Targets, Begin(name, target)
    PROVE  /\ service' = service /\ platform' = platform /\ queryable' = queryable
           /\ foreground' = foreground
           /\ todo' = Plan(name, target)
           /\ cmd' \in Commands(TargetOrNone)
           /\ cmd'.name = name /\ cmd'.target = target
           /\ cmd'.before = service.running
           /\ cmd'.settled <=> /\ service.def = service.saved
                               /\ service.running \in {None, service.def}
                               /\ foreground = None
           /\ cmd'.known <=> service.def = None \/ Status.installed
           /\ cmd'.installed <=> Status.installed /\ service.saved # None
           /\ cmd'.active = resolveManagedCollectorSettings(target)
           /\ ~ cmd'.restore /\ ~ cmd'.restoring /\ ~ cmd'.failed
           /\ ~ cmd'.unrestored /\ ~ cmd'.denied
<1> DEFINE settled == /\ service.def = service.saved
                      /\ service.running \in {None, service.def}
                      /\ foreground = None
           known == service.def = None \/ Status.installed
           installed == Status.installed /\ service.saved # None
           active == resolveManagedCollectorSettings(target)
<1>1. /\ cmd' = [NoCommand EXCEPT
                   !.name = name, !.target = target,
                   !.before = service.running,
                   !.settled = settled, !.known = known,
                   !.installed = installed, !.active = active]
      /\ todo' = Plan(name, target)
      /\ service' = service /\ platform' = platform /\ queryable' = queryable
      /\ foreground' = foreground
    BY Zenon DEF Begin, settings
<1>2. settled \in BOOLEAN /\ known \in BOOLEAN /\ installed \in BOOLEAN
    OBVIOUS
<1>3. active \in Targets
    BY ActiveIsTarget DEF Typed
<1>4. service.running \in TargetOrNone
    BY DEF Typed, ServiceTyped, Records
<1> HIDE DEF settled, known, installed, active
<1>5. cmd' = [name |-> name, target |-> target, before |-> service.running,
              settled |-> settled, known |-> known, installed |-> installed,
              active |-> active, restore |-> FALSE, restoring |-> FALSE,
              failed |-> FALSE, unrestored |-> FALSE, denied |-> FALSE,
              partial |-> FALSE]
    BY <1>1 DEF NoCommand
<1>6. cmd' \in Commands(TargetOrNone)
    BY <1>2, <1>3, <1>4, <1>5 DEF Commands, CommandsAsked, TargetOrNone
<1>7. /\ cmd'.name = name /\ cmd'.target = target /\ cmd'.before = service.running
      /\ cmd'.settled = settled /\ cmd'.known = known /\ cmd'.installed = installed
      /\ cmd'.active = active
      /\ ~ cmd'.restore /\ ~ cmd'.restoring /\ ~ cmd'.failed
      /\ ~ cmd'.unrestored /\ ~ cmd'.denied
    BY <1>5
<1>8. /\ todo' = Plan(name, target)
      /\ service' = service /\ platform' = platform /\ queryable' = queryable
      /\ foreground' = foreground
    BY <1>1
<1> QED
    BY <1>6, <1>7, <1>8 DEF settled, known, installed, active

\* A command that is over, and a step that takes no part in a command.
Ends == cmd' = NoCommand /\ todo' = <<>>

Idles ==
    /\ todo' = todo /\ cmd' \in {cmd, [cmd EXCEPT !.settled = FALSE]}
    /\ service' = service
    /\ foreground' \in {foreground, None} \/ cmd' = [cmd EXCEPT !.settled = FALSE]

Idled ==
    /\ todo' = todo /\ service' = service
    /\ cmd' \in Commands(TargetOrNone)
    /\ SameTask
    /\ cmd'.settled => cmd' = cmd /\ foreground' \in {foreground, None}
    /\ cmd'.failed = cmd.failed
    /\ cmd'.denied = cmd.denied /\ cmd'.restoring = cmd.restoring
    /\ cmd'.unrestored = cmd.unrestored /\ cmd'.restore = cmd.restore

LEMMA IdleStep == ASSUME Typed, Idles PROVE Idled
<1>1. cmd \in Commands(TargetOrNone) /\ todo' = todo /\ service' = service
    BY DEF Typed, CommandTyped, Idles
<1>2. CASE cmd' = cmd /\ foreground' \in {foreground, None}
    BY <1>1, <1>2 DEF Idled, SameTask
<1>3. CASE cmd' = [cmd EXCEPT !.settled = FALSE]
    BY <1>1, <1>3 DEF Idled, SameTask, Commands
<1> QED
    BY <1>2, <1>3, Zenon DEF Idles

\* Every step begins a command, makes its next call, drops the rest of its
\* calls, ends it or takes no part in it; only a call and a reboot change the
\* service.
LEMMA StepKinds ==
    ASSUME Typed, [Next]_vars
    PROVE  \/ \E name \in CommandsAsked, target \in Targets : Begin(name, target)
           \/ Succeed
           \/ Errs /\ service' = service /\ foreground' = foreground
           \/ Skips /\ service' = service /\ foreground' = foreground
           \/ Deny
           \/ Ends /\ (Reboot \/ service' = service)
           \/ Idles
<1>1. CASE Refuse
    <2>1. /\ todo # <<>> /\ Abort /\ service' = service /\ foreground' = foreground
          /\ Refused(Head(todo))
        BY <1>1, Zenon DEF Refuse
    <2>2. Head(todo)[1] # "unadapt"
        BY <2>1 DEF Refused
    <2> QED
        BY <2>1, <2>2 DEF Errs
<1>2. CASE Fail
    <2>1. /\ todo # <<>> /\ service' = service /\ foreground' = foreground
          /\ IF Head(todo)[1] = "unadapt"
             THEN /\ cmd' = [cmd EXCEPT !.partial = TRUE]
                  /\ todo' = Tail(todo)
             ELSE Abort
        BY <1>2, Zenon DEF Fail
    <2> HIDE DEF Abort
    <2>2. CASE Head(todo)[1] = "unadapt"
        BY <2>1, <2>2, Zenon DEF Skips
    <2>3. CASE Head(todo)[1] # "unadapt"
        BY <2>1, <2>3, Zenon DEF Errs
    <2> QED
        BY <2>2, <2>3
<1>3. CASE Finish
    <2>1. cmd' = NoCommand /\ todo' = todo /\ todo = <<>> /\ service' = service
        BY <1>3, Zenon DEF Finish
    <2> QED
        BY <2>1 DEF Ends
<1>4. CASE Kill
    BY <1>4, Zenon DEF Kill, Ends
<1>5. CASE Reboot
    <2>1. cmd' = NoCommand /\ todo' = <<>>
        BY <1>5, Zenon DEF Reboot
    <2> QED
        BY <1>5, <2>1 DEF Ends
<1>6. ASSUME NEW target, Serve(target) PROVE Idles
    <2>1. /\ todo' = todo /\ service' = service
          /\ cmd' = [cmd EXCEPT !.settled = FALSE]
        BY <1>6, Zenon DEF Serve
    <2> QED
        BY <2>1, Zenon DEF Idles
<1>7. CASE StopServing
    <2>1. todo' = todo /\ service' = service /\ cmd' = cmd /\ foreground' = None
        BY <1>7, Zenon DEF StopServing
    <2> QED
        BY <2>1 DEF Idles
<1>8. CASE UNCHANGED vars
    BY <1>8 DEF vars, Idles
<1>9. CASE \E name \in {"install", "start", "stop", "restart", "uninstall",
                        "uninstallAll", "setup"}, target \in Targets : Begin(name, target)
    <2>1. PICK name \in {"install", "start", "stop", "restart", "uninstall",
                         "uninstallAll", "setup"}, target \in Targets : Begin(name, target)
        BY <1>9, Zenon
    <2>2. name \in CommandsAsked
        BY DEF CommandsAsked, CommandNames
    <2> QED
        BY <2>1, <2>2, Zenon
<1>10. ASSUME \E target \in Targets : Serve(target) PROVE Idles
    BY <1>6, <1>10, Zenon
<1> QED
    BY <1>1, <1>2, <1>3, <1>4, <1>5, <1>7, <1>8, <1>9, <1>10, Zenon DEF Next

\* The plans of the commands.
LEMMA PlanScripts ==
    ASSUME platform \in Platforms, NEW name \in CommandsAsked, NEW target
    PROVE  LET s == Plan(name, target)
           IN  IF name \in Uninstalls THEN UninstallScript(s)
               ELSE IF name = "setup" THEN SetupScript(target, s)
               ELSE s \in Seq(StartCalls(target)) /\ Preceded("enable", "define", s)
<1> DEFINE s == Plan(name, target)
<1>1. CASE name = "install"
    <2>1. s = Install(target)
        BY <1>1 DEF Plan
    <2>2. InstallScript(target, Install(target))
        BY InstallPlan
    <2> QED
        BY <1>1, <2>1, <2>2, Lacks DEF InstallScript, Uninstalls
<1>2. CASE name = "start"
    <2>1. s = Start(target)
        BY <1>2 DEF Plan
    <2>2. StartScript(target, Start(target))
        BY StartPlan
    <2> QED
        BY <1>2, <2>1, <2>2 DEF StartScript, Uninstalls
<1>3. CASE name = "stop"
    <2>1. s = <<Call("stop")>>
        BY <1>3 DEF Plan
    <2> DEFINE r == <<Call("stop")>>
    <2>2. r \in Seq(StartCalls(target))
        BY DEF StartCalls, Starting, OnItsPlatform, Windows, Call
    <2>3. Len(r) = 1 /\ r[1][1] = "stop"
        BY DEF Call
    <2> HIDE DEF r
    <2>4. Preceded("enable", "define", r)
        BY <2>3 DEF Preceded
    <2> QED
        BY <1>3, <2>1, <2>2, <2>4 DEF r, Uninstalls
<1>4. CASE name = "restart"
    <2>1. s = restartManagedCollector(target)
        BY <1>4 DEF Plan
    <2>2. StartScript(target, restartManagedCollector(target))
        BY RestartPlan
    <2> QED
        BY <1>4, <2>1, <2>2 DEF StartScript, Uninstalls
<1>5. CASE name = "uninstall"
    <2>1. s = Uninstall
        BY <1>5 DEF Plan
    <2> QED
        BY <1>5, <2>1, UninstallPlans DEF Uninstalls
<1>6. CASE name = "uninstallAll"
    <2>1. s = newUninstallCommand
        BY <1>6 DEF Plan
    <2> QED
        BY <1>6, <2>1, UninstallPlans DEF Uninstalls
<1>7. CASE name = "setup"
    <2>1. s = bootstrapSupportedAdapters(target)
        BY <1>7 DEF Plan
    <2> QED
        BY <1>7, <2>1, SetupPlan DEF Uninstalls
<1> QED
    BY <1>1, <1>2, <1>3, <1>4, <1>5, <1>6, <1>7 DEF CommandsAsked, CommandNames

\* The calls left are those of the same command while it neither fails nor is
\* denied.
LEMMA CallsStay ==
    ASSUME SameTask, cmd'.restoring = cmd.restoring, platform' = platform
    PROVE  CallsLeft' = CallsLeft
BY DEF SameTask, CallsLeft, UninstallCalls, SetupCalls, StartCalls, OnItsPlatform, Windows

LEMMA PlatformStays ==
    ASSUME [Next]_vars
    PROVE  platform' = platform /\ queryable' = queryable
<1>1. CASE Succeed
    BY <1>1, Zenon DEF Succeed, settings
<1>2. CASE Reboot
    BY <1>2, Zenon DEF Reboot, settings
<1>3. ASSUME NEW target, Serve(target) PROVE platform' = platform /\ queryable' = queryable
    BY <1>3, Zenon DEF Serve, settings
<1>4. ASSUME \/ \E name \in {"install", "start", "stop", "restart", "uninstall",
                          "uninstallAll", "setup"}, target \in Targets : Begin(name, target)
             \/ Refuse \/ Fail \/ Deny \/ Finish \/ Kill \/ StopServing \/ UNCHANGED vars
      PROVE  platform' = platform /\ queryable' = queryable
    BY <1>4, ServiceStays
<1> QED
    BY <1>1, <1>2, <1>3, <1>4, Zenon DEF Next

LEMMA CommandTypedStep ==
    ASSUME Typed, [Next]_vars
    PROVE  CommandTyped'
<1>1. /\ cmd \in Commands(TargetOrNone)
      /\ cmd.name = "none" => cmd = NoCommand /\ todo = <<>>
      /\ cmd.name # "none" => cmd.target \in Targets /\ cmd.active \in Targets
      /\ cmd.restore \/ cmd.restoring => cmd.name = "setup"
      /\ todo \in Seq(CallsLeft)
      /\ platform \in Platforms
    BY DEF Typed, CommandTyped, ServiceTyped
<1>2. platform' = platform
    BY PlatformStays
<1> DEFINE P == /\ cmd' \in Commands(TargetOrNone)
                /\ cmd'.name = "none" => cmd' = NoCommand /\ todo' = <<>>
                /\ cmd'.name # "none" => cmd'.target \in Targets /\ cmd'.active \in Targets
                /\ cmd'.restore \/ cmd'.restoring => cmd'.name = "setup"
                /\ todo' \in Seq(CallsLeft')
<1> SUFFICES P
    BY Zenon DEF CommandTyped, TargetOrNone, Commands
<1>3. \A S : <<>> \in Seq(S)
    OBVIOUS
<1> HIDE DEF CallsLeft
<1>4. ASSUME NEW name \in CommandsAsked, NEW target \in Targets, Begin(name, target)
      PROVE  P
    <2>1. /\ cmd' \in Commands(TargetOrNone) /\ todo' = Plan(name, target)
          /\ cmd'.name = name /\ cmd'.target = target
          /\ cmd'.active = resolveManagedCollectorSettings(target)
          /\ ~ cmd'.restore /\ ~ cmd'.restoring
        BY <1>4, Begun
    <2>2. cmd'.active \in Targets
        BY <2>1, ActiveIsTarget DEF Typed
    <2>3. CallsLeft' = IF name \in Uninstalls THEN UninstallCalls
                       ELSE IF name = "setup" THEN SetupCalls(target)
                       ELSE StartCalls(target)
        BY <1>2, <2>1 DEF CallsLeft, SetupCalls, StartCalls, OnItsPlatform, Windows
    <2>4. todo' \in Seq(CallsLeft')
        BY <1>1, <2>1, <2>3, PlanScripts
           DEF UninstallScript, UnixScript, WindowsScript, SetupScript
    <2> QED
        BY <2>1, <2>2, <2>4 DEF CommandsAsked
<1>5. CASE Succeed
    <2>1. /\ todo # <<>> /\ todo' = Tail(todo)
          /\ cmd' \in Commands(TargetOrNone) /\ SameTask
          /\ cmd'.restoring = cmd.restoring
          /\ IF Head(todo)[1] = "quiesce"
             THEN cmd'.restore = stopCollectorForLedgerInitialization
             ELSE IF Head(todo)[1] = "resume" /\ ~ cmd.restoring
             THEN cmd'.restore = FALSE
             ELSE cmd'.restore = cmd.restore
        BY <1>5, Succeeded
    <2>2. /\ cmd.name # "none" /\ Head(todo) \in CallsLeft /\ Tail(todo) \in Seq(CallsLeft)
        BY <2>1, NextCall
    <2>3. CallsLeft' = CallsLeft
        BY <1>2, <2>1, CallsStay
    <2>4. Head(todo)[1] = "quiesce" => cmd.name = "setup"
        BY <2>2 DEF CallsLeft, UninstallCalls, StartCalls, Starting, Installing, Removing
    <2>5. cmd'.name = cmd.name /\ cmd'.target = cmd.target /\ cmd'.active = cmd.active
        BY <2>1 DEF SameTask
    <2> QED
        BY <1>1, <2>1, <2>2, <2>3, <2>4, <2>5
<1>6. CASE Errs
    <2>1. todo # <<>> /\ Abort
        BY <1>6 DEF Errs
    <2>2. /\ cmd' \in Commands(TargetOrNone) /\ SameTask
          /\ cmd'.restore = cmd.restore
          /\ IF cmd.restore /\ ~ cmd.restoring
             THEN /\ cmd'.restoring = TRUE
                  /\ todo' = restartManagedCollector(cmd.active)
             ELSE cmd'.restoring = cmd.restoring /\ todo' = <<>>
        BY <2>1, Aborted
    <2>3. cmd.name # "none"
        BY <2>1, NextCall
    <2>4. cmd'.name = cmd.name /\ cmd'.target = cmd.target /\ cmd'.active = cmd.active
        BY <2>2 DEF SameTask
    <2>5. todo' \in Seq(CallsLeft')
        <3>1. CASE cmd.restore /\ ~ cmd.restoring
            <4>1. CallsLeft' = StartCalls(cmd.active)
                BY <1>1, <1>2, <2>2, <2>4, <3>1
                   DEF CallsLeft, StartCalls, OnItsPlatform, Windows, Uninstalls
            <4>2. StartScript(cmd.active, restartManagedCollector(cmd.active))
                BY <1>1, RestartPlan
            <4> QED
                BY <2>2, <3>1, <4>1, <4>2 DEF StartScript
        <3>2. CASE ~ (cmd.restore /\ ~ cmd.restoring)
            BY <1>3, <2>2, <3>2, Zenon
        <3> QED
            BY <3>1, <3>2
    <2> QED
        BY <1>1, <2>2, <2>3, <2>4, <2>5
<1>7. CASE Skips
    <2>1. /\ todo # <<>> /\ todo' = Tail(todo)
          /\ cmd' \in Commands(TargetOrNone) /\ SameTask
          /\ cmd'.restoring = cmd.restoring /\ cmd'.restore = cmd.restore
        BY <1>7, SkippedCall DEF Skipped
    <2>2. cmd.name # "none" /\ Tail(todo) \in Seq(CallsLeft)
        BY <2>1, NextCall
    <2>3. CallsLeft' = CallsLeft
        BY <1>2, <2>1, CallsStay
    <2>4. cmd'.name = cmd.name /\ cmd'.target = cmd.target /\ cmd'.active = cmd.active
        BY <2>1 DEF SameTask
    <2> QED
        BY <1>1, <2>1, <2>2, <2>3, <2>4
<1>8. CASE Deny
    <2>1. /\ todo # <<>>
          /\ cmd' \in Commands(TargetOrNone) /\ SameTask
          /\ cmd'.restore = cmd.restore /\ cmd'.restoring = cmd.restoring
          /\ \/ /\ cmd.name = "restart" \/ cmd.restoring
                /\ todo' = <<Call("resume")>>
             \/ /\ cmd.name = "setup" /\ ~ cmd.restoring
                /\ todo' = (IF cmd.restore THEN <<Call("resume")>> ELSE <<>>)
                              \o <<Call("adapters")>>
        BY <1>8, DefinitionDenied
    <2>2. cmd.name # "none"
        BY <2>1, NextCall
    <2>3. CallsLeft' = CallsLeft
        BY <1>2, <2>1, CallsStay
    <2>4. cmd'.name = cmd.name /\ cmd'.target = cmd.target /\ cmd'.active = cmd.active
        BY <2>1 DEF SameTask
    <2>5. todo' \in Seq(CallsLeft)
        <3>1. CASE (cmd.name = "restart" \/ cmd.restoring) /\ todo' = <<Call("resume")>>
            <4>1. Call("resume") \in CallsLeft
                BY <1>1, <3>1 DEF CallsLeft, Call, StartCalls, Starting, OnItsPlatform,
                                  Uninstalls
            <4> QED
                BY <3>1, <4>1
        <3>2. CASE /\ cmd.name = "setup" /\ ~ cmd.restoring
                   /\ todo' = (IF cmd.restore THEN <<Call("resume")>> ELSE <<>>)
                                 \o <<Call("adapters")>>
            <4> DEFINE r == Call("resume")
                       a == Call("adapters")
            <4>1. r \in CallsLeft /\ a \in CallsLeft
                BY <3>2 DEF CallsLeft, Call, SetupCalls, StartCalls, Starting,
                            Initializing, OnItsPlatform, Uninstalls
            <4> HIDE DEF r, a
            <4>2. <<r>> \in Seq(CallsLeft) /\ <<a>> \in Seq(CallsLeft)
                  /\ <<>> \in Seq(CallsLeft)
                BY <4>1
            <4>3. <<r>> \o <<a>> \in Seq(CallsLeft) /\ <<>> \o <<a>> \in Seq(CallsLeft)
                BY <4>2, ConcatElements
            <4> QED
                BY <3>2, <4>3, Zenon DEF r, a
        <3> QED
            BY <2>1, <3>1, <3>2
    <2> QED
        BY <1>1, <2>1, <2>2, <2>3, <2>4, <2>5
<1>9. CASE Ends
    <2>1. cmd' = NoCommand /\ todo' = <<>>
        BY <1>9 DEF Ends
    <2>2. NoCommand \in Commands(TargetOrNone) /\ NoCommand.name = "none"
          /\ ~ NoCommand.restore /\ ~ NoCommand.restoring
        BY DEF NoCommand, Commands, CommandNames, TargetOrNone
    <2> QED
        BY <1>3, <2>1, <2>2, Zenon
<1>10. CASE Idles
    <2>1. /\ todo' = todo /\ cmd' \in {cmd, [cmd EXCEPT !.settled = FALSE]}
          /\ cmd' \in Commands(TargetOrNone) /\ SameTask
          /\ cmd'.restore = cmd.restore /\ cmd'.restoring = cmd.restoring
        BY <1>10, IdleStep DEF Idles, Idled
    <2>2. CallsLeft' = CallsLeft
        BY <1>2, <2>1, CallsStay
    <2>3. cmd'.name = cmd.name /\ cmd'.target = cmd.target /\ cmd'.active = cmd.active
        BY <2>1 DEF SameTask
    <2>4. cmd.name = "none" => cmd' = NoCommand
        BY <1>1, <2>1 DEF NoCommand
    <2> QED
        BY <1>1, <2>1, <2>2, <2>3, <2>4
<1> QED
    BY <1>4, <1>5, <1>6, <1>7, <1>8, <1>9, <1>10, StepKinds, Zenon

\* Every variable keeps the values of its declaration, through every failure,
\* denial, kill and reboot.
THEOREM TypeCorrectness == Spec => []TypeOK
<1>1. Init => Typed
    BY InitTyped
<1>2. Typed /\ [Next]_vars => Typed'
    BY ServiceTypedStep, CommandTypedStep DEF Typed
<1>3. Typed => TypeOK
    BY TypedIsTypeOK
<1> QED
    BY <1>1, <1>2, <1>3, PTL DEF Spec

-----------------------------------------------------------------------------
(* What an uninstall leaves, and the order in which it removes things.     *)

\* Whatever happened before, something starts what runs, and what starts it
\* is on record.
ServiceSound ==
    /\ service.running # None => service.legacy \/ service.def # None
    /\ service.legacy => service.fallback # None
    /\ service.enabled => service.def # None
    /\ platform # "linux" => ~ service.enabled
    /\ ~ Windows => service.fallback = None /\ ~ service.runKey /\ ~ service.legacy
    /\ Windows => service.trees = {}

\* Only an uninstall removes definitions, and nothing is enabled before it is
\* defined.
DefinedFirst ==
    cmd.name \notin Uninstalls =>
        service.def # None \/ Preceded("enable", "define", todo)

UnixOrder ==
    /\ service.running = None \/ Preceded("undefine", "stop", todo)
    /\ ~ service.enabled \/ Preceded("undefine", "disable", todo)
    /\ service.saved \notin service.trees \/ Preceded("unsave", "removeTree", todo)

WindowsOrder ==
    /\ ~ service.legacy \/ /\ Preceded("stop", "stopFallback", todo)
                           /\ Preceded("unsave", "stopFallback", todo)
    /\ service.running = None \/ service.legacy \/ Preceded("undefine", "stop", todo)
    /\ Past("undefine", "stop", todo) /\ Past("unsave", "stop", todo)
    /\ Has(todo, "stop") =>
          service.def # None /\ (queryable \/ service.saved # None)

\* What is still there is still to be removed.
NothingForgotten ==
    ~ cmd.failed =>
        /\ cmd.known => service.def = None \/ Has(todo, "undefine")
        /\ (service.saved = None /\ service.fallback = None) \/ Has(todo, "unsave")
        /\ ~ service.runKey \/ Has(todo, "unregister")

UninstallOrder ==
    cmd.name \in Uninstalls =>
        /\ IF Windows THEN WindowsOrder ELSE UnixOrder
        /\ NothingForgotten

Removal == ServiceSound /\ DefinedFirst /\ UninstallOrder

\* What the status of the service says.
LEMMA StatusSays ==
    ASSUME platform \in Platforms
    PROVE  /\ Status.installed <=>
                 service.def # None /\ (Windows => queryable \/ service.saved # None)
           /\ Status.fallback <=>
                 /\ Windows /\ ~ Status.installed
                 /\ service.fallback # None /\ service.runKey
           /\ Status.home = IF Status.fallback THEN service.fallback ELSE service.saved
           /\ ~ Windows => (Status.running <=>
                               service.def # None /\ service.running # None)
<1>1. CASE platform = "linux"
    <2>1. Status = LinuxStatus
        BY <1>1 DEF Status, Windows
    <2> QED
        BY <1>1, <2>1 DEF LinuxStatus, Windows
<1>2. CASE platform = "darwin"
    <2>1. Status = DarwinStatus
        BY <1>2 DEF Status, Windows
    <2> QED
        BY <1>2, <2>1 DEF DarwinStatus, Windows
<1>3. CASE platform = "windows"
    <2>1. Status = windowsCollectorStatus
        BY <1>3 DEF Status, Windows
    <2> QED
        BY <1>3, <2>1 DEF windowsCollectorStatus, windowsCollectorFallbackRegistered, Windows
<1> QED
    BY <1>1, <1>2, <1>3 DEF Platforms

\* What a stop ends.
LEMMA StopsSays ==
    ASSUME platform \in Platforms
    PROVE  /\ ~ Windows => (Stops <=> service.running # None)
           /\ Windows => (Stops <=>
                 /\ service.running # None
                 /\ IF Status.fallback THEN service.fallback # None /\ service.legacy
                    ELSE Status.installed /\ ~ service.legacy)
<1>1. CASE platform = "linux"
    BY <1>1 DEF Stops, LinuxStops, Windows
<1>2. CASE platform = "darwin"
    BY <1>2 DEF Stops, DarwinStops, Windows
<1>3. CASE platform = "windows"
    <2> HIDE DEF Status
    <2> QED
        BY <1>3 DEF Stops, WindowsStops, windowsCollectorFallbackRunning, Windows
<1> QED
    BY <1>1, <1>2, <1>3 DEF Platforms

\* The service after a call that succeeded.
LEMMA CallMade ==
    ASSUME Typed, Succeed
    PROVE  LET call == Head(todo)
           IN  /\ todo # <<>> /\ todo' = Tail(todo) /\ ~ Refused(call)
               /\ call[1] \in Names
               /\ call[1] \in {"makeTree", "define", "save", "check"} =>
                     call[2] \in Targets
               /\ call[1] = "makeTree" => ~ Windows
               /\ call[1] = "enable" => platform = "linux"
               /\ service'.def = (IF call[1] = "define" THEN call[2]
                                  ELSE IF call[1] = "undefine" THEN None
                                  ELSE service.def)
               /\ service'.saved = (IF call[1] = "save" THEN call[2]
                                    ELSE IF call[1] = "unsave" THEN None
                                    ELSE service.saved)
               /\ service'.enabled = (IF call[1] = "enable" THEN TRUE
                                      ELSE IF call[1] = "disable"
                                      THEN service.enabled /\ service.def = None
                                      ELSE service.enabled)
               /\ service'.running = (IF StartsIt(call) THEN service.def
                                      ELSE IF StopsIt(call) THEN None
                                      ELSE service.running)
               /\ service'.trees = (IF call[1] = "makeTree"
                                    THEN service.trees \union {call[2]}
                                    ELSE IF call[1] = "removeTree"
                                    THEN service.trees \ {service.saved}
                                    ELSE service.trees)
               /\ service'.fallback = (IF call[1] = "unsave" THEN None
                                       ELSE service.fallback)
               /\ service'.runKey = (IF call[1] = "unregister" THEN FALSE
                                     ELSE service.runKey)
               /\ service'.legacy = (IF StopsIt(call) THEN FALSE ELSE service.legacy)
<1> DEFINE call == Head(todo)
<1>1. todo # <<>> /\ todo' = Tail(todo) /\ service' = Effect(call) /\ ~ Refused(call)
    BY Succeeded
<1>2. service \in Records(TargetOrNone)
    BY DEF Typed, ServiceTyped
<1>3. /\ call[1] \in Names
      /\ call[1] \in {"makeTree", "define", "save", "check"} => call[2] \in Targets
      /\ call[1] = "makeTree" => ~ Windows
      /\ call[1] = "enable" => platform = "linux"
    BY <1>1, NextCall
<1> HIDE DEF call
<1> QED
    BY <1>1, <1>2, <1>3, EffectOnFields DEF call

\* The names of the calls of an uninstall and of the other commands.
LEMMA NextName ==
    ASSUME Typed, todo # <<>>
    PROVE  IF cmd.name \in Uninstalls THEN Head(todo)[1] \in Removing
           ELSE Head(todo)[1] \in Installing \union Starting \union Initializing
                                   \union {"check"}
<1>1. Head(todo) \in CallsLeft
    BY NextCall
<1> QED
    BY <1>1 DEF CallsLeft, UninstallCalls, SetupCalls, StartCalls

\* When a definition is removed, what it started has been stopped and
\* disabled; when the settings are, what they name has been removed.
LEMMA ReadyToRemove ==
    ASSUME Typed, Removal, todo # <<>>
    PROVE  /\ Head(todo)[1] = "undefine" =>
                 /\ service.running = None \/ service.legacy
                 /\ ~ service.enabled
           /\ Head(todo)[1] = "unsave" =>
                 ~ service.legacy /\ service.saved \notin service.trees
           /\ Head(todo)[1] = "enable" => service.def # None
<1>1. todo \in Seq(CallsLeft)
    BY DEF Typed, CommandTyped
<1> HIDE DEF CallsLeft
<1>2. ASSUME NEW x, NEW y, x # y, Preceded(x, y, todo)
      PROVE  Head(todo)[1] # x
    BY <1>1, <1>2, TailKeeps
<1>3. CASE cmd.name \in Uninstalls
    <2>1. Head(todo)[1] # "enable"
        BY <1>3, NextName DEF Removing
    <2>2. CASE Windows
        <3>1. WindowsOrder
            BY <1>3, <2>2 DEF Removal, UninstallOrder
        <3> QED
            BY <1>2, <2>1, <2>2, <3>1 DEF WindowsOrder, Removal, ServiceSound, Windows
    <2>3. CASE ~ Windows
        <3>1. UnixOrder
            BY <1>3, <2>3 DEF Removal, UninstallOrder
        <3> QED
            BY <1>2, <2>1, <2>3, <3>1 DEF UnixOrder, Removal, ServiceSound
    <2> QED
        BY <2>2, <2>3
<1>4. CASE cmd.name \notin Uninstalls
    <2>1. Head(todo)[1] # "undefine" /\ Head(todo)[1] # "unsave"
        BY <1>4, NextName DEF Installing, Starting, Initializing
    <2>2. service.def # None \/ Preceded("enable", "define", todo)
        BY <1>4 DEF Removal, DefinedFirst
    <2> QED
        BY <1>2, <2>1, <2>2
<1> QED
    BY <1>3, <1>4

LEMMA ServiceSoundStep ==
    ASSUME Typed, Removal, [Next]_vars
    PROVE  ServiceSound'
<1>1. platform' = platform /\ ServiceSound
    BY PlatformStays DEF Removal
<1>2. CASE Succeed
    <2> DEFINE n == Head(todo)[1]
               t == Head(todo)[2]
    <2>1. /\ n \in {"makeTree", "define", "save", "check"} => t \in Targets
          /\ n = "makeTree" => ~ Windows
          /\ n = "enable" => platform = "linux"
          /\ service'.def = (IF n = "define" THEN t ELSE IF n = "undefine" THEN None
                             ELSE service.def)
          /\ service'.enabled = (IF n = "enable" THEN TRUE
                                 ELSE IF n = "disable"
                                 THEN service.enabled /\ service.def = None
                                 ELSE service.enabled)
          /\ service'.running = (IF StartsIt(Head(todo)) THEN service.def
                                 ELSE IF StopsIt(Head(todo)) THEN None ELSE service.running)
          /\ service'.trees = (IF n = "makeTree" THEN service.trees \union {t}
                               ELSE IF n = "removeTree"
                               THEN service.trees \ {service.saved} ELSE service.trees)
          /\ service'.fallback = (IF n = "unsave" THEN None ELSE service.fallback)
          /\ service'.runKey = (IF n = "unregister" THEN FALSE ELSE service.runKey)
          /\ service'.legacy = (IF StopsIt(Head(todo)) THEN FALSE ELSE service.legacy)
        BY <1>2, CallMade
    <2>2. /\ n = "undefine" => /\ service.running = None \/ service.legacy
                               /\ ~ service.enabled
          /\ n = "unsave" => ~ service.legacy
          /\ n = "enable" => service.def # None
        BY <1>2, Succeeded, ReadyToRemove
    <2>3. /\ StartsIt(Head(todo)) => n \in {"run", "resume"} /\ service.running = None
          /\ StopsIt(Head(todo)) => n \in {"stop", "quiesce", "stopFallback"}
        BY DEF StartsIt, StopsIt
    <2>4. service.legacy => service.running # None
        BY DEF Typed, ServiceTyped
    <2> HIDE DEF n, t
    <2>5. service'.running # None => service'.legacy \/ service'.def # None
        BY <1>1, <2>1, <2>2, <2>3, <2>4, TargetsAssumption DEF ServiceSound
    <2>6. service'.legacy => service'.fallback # None
        BY <1>1, <2>1, <2>2 DEF ServiceSound
    <2>7. service'.enabled => service'.def # None
        BY <1>1, <2>1, <2>2, TargetsAssumption DEF ServiceSound
    <2>8. platform # "linux" => ~ service'.enabled
        BY <1>1, <2>1 DEF ServiceSound
    <2>9. ~ Windows => service'.fallback = None /\ ~ service'.runKey /\ ~ service'.legacy
        BY <1>1, <2>1 DEF ServiceSound
    <2>10. Windows => service'.trees = {}
        BY <1>1, <2>1 DEF ServiceSound
    <2> QED
        BY <1>1, <2>5, <2>6, <2>7, <2>8, <2>9, <2>10 DEF ServiceSound, Windows
<1>3. CASE Reboot
    <2>1. ServiceTyped
        BY DEF Typed
    <2> QED
        BY <1>1, <1>3, <2>1, RebootService DEF ServiceSound, Windows
<1>4. CASE service' = service
    BY <1>1, <1>4 DEF ServiceSound, Windows
<1>5. \/ Succeed \/ Reboot \/ service' = service
    <2>1. ASSUME NEW name \in CommandsAsked, NEW target \in Targets, Begin(name, target)
          PROVE  service' = service
        BY <2>1, Begun
    <2>2. ASSUME Deny PROVE service' = service
        BY <2>2, Zenon DEF Deny
    <2>3. ASSUME Idles PROVE service' = service
        BY <2>3, Zenon DEF Idles
    <2> QED
        BY <2>1, <2>2, <2>3, StepKinds, Zenon
<1> QED
    BY <1>2, <1>3, <1>4, <1>5

LEMMA NoCalls ==
    ASSUME NEW x, NEW y
    PROVE  /\ ~ Has(<<>>, x) /\ Preceded(x, y, <<>>) /\ Followed(x, y, <<>>)
           /\ Past(x, y, <<>>)
<1>1. ~ Has(<<>>, x)
    BY DEF Has
<1> QED
    BY <1>1, Lacks

\* What is left of a command whose task definition was refused.
LEMMA DeniedCalls ==
    ASSUME Typed, Deny
    PROVE  /\ \A x : Has(todo', x) => x \in {"resume", "adapters"}
           /\ cmd.restoring \/ cmd.restore => Has(todo', "resume")
           /\ cmd.name = "setup" /\ ~ cmd.restoring /\ ~ cmd.restore =>
                 ~ Has(todo', "resume")
<1> DEFINE r == <<Call("resume")>>
           a == <<Call("adapters")>>
<1>1. \/ (cmd.name = "restart" \/ cmd.restoring) /\ todo' = r
      \/ /\ cmd.name = "setup" /\ ~ cmd.restoring
         /\ todo' = (IF cmd.restore THEN r ELSE <<>>) \o a
    BY DefinitionDenied
<1>2. cmd.restore \/ cmd.restoring => cmd.name = "setup"
    BY DEF Typed, CommandTyped
<1>3. Len(r) = 1 /\ r[1][1] = "resume" /\ Len(a) = 1 /\ a[1][1] = "adapters"
    BY DEF Call
<1> DEFINE S == {"resume", "adapters"} \X {None}
<1>4. r \in Seq(S) /\ a \in Seq(S) /\ <<>> \in Seq(S)
    BY DEF Call
<1> HIDE DEF r, a, S
<1>5. /\ \A x : Has(r, x) <=> x = "resume"
      /\ \A x : Has(a, x) <=> x = "adapters"
    BY <1>3 DEF Has
<1>6. Has(r \o a, "resume")
    BY <1>4, <1>5, ConcatKeeps
<1>7. ASSUME NEW x, x \notin {"resume", "adapters"} PROVE ~ Has(r \o a, x)
    <2>1. ~ Has(r, x) /\ ~ Has(a, x)
        BY <1>5, <1>7
    <2> QED
        BY <1>4, <2>1, ConcatLacks
<1>8. ASSUME NEW x, x # "adapters" PROVE ~ Has(<<>> \o a, x)
    <2>1. ~ Has(<<>>, x) /\ ~ Has(a, x)
        BY <1>5, <1>8, NoCalls
    <2> QED
        BY <1>4, <2>1, ConcatLacks
<1>9. CASE (cmd.name = "restart" \/ cmd.restoring) /\ todo' = r
    BY <1>2, <1>5, <1>9
<1>10. CASE cmd.name = "setup" /\ ~ cmd.restoring /\ cmd.restore /\ todo' = r \o a
    BY <1>6, <1>7, <1>10
<1>11. CASE cmd.name = "setup" /\ ~ cmd.restoring /\ ~ cmd.restore /\ todo' = <<>> \o a
    BY <1>8, <1>11
<1> QED
    BY <1>1, <1>9, <1>10, <1>11

LEMMA DefinedFirstStep ==
    ASSUME Typed, Removal, [Next]_vars
    PROVE  DefinedFirst'
<1> DEFINE P(s) == service'.def # None \/ Preceded("enable", "define", s)
<1>1. /\ todo \in Seq(CallsLeft)
      /\ cmd.restore \/ cmd.restoring => cmd.name = "setup"
      /\ platform \in Platforms
    BY DEF Typed, CommandTyped, ServiceTyped
<1>2. cmd.name \notin Uninstalls => service.def # None \/ Preceded("enable", "define", todo)
    BY DEF Removal, DefinedFirst
<1> HIDE DEF CallsLeft
<1> SUFFICES ASSUME cmd'.name \notin Uninstalls
             PROVE  service'.def # None \/ Preceded("enable", "define", todo')
    BY DEF DefinedFirst, Uninstalls
<1>3. ASSUME NEW name \in CommandsAsked, NEW target \in Targets, Begin(name, target)
      PROVE  Preceded("enable", "define", todo')
    <2>1. todo' = Plan(name, target) /\ name \notin Uninstalls
        BY <1>3, Begun
    <2> QED
        BY <1>1, <2>1, PlanScripts DEF SetupScript
<1>4. CASE Succeed
    <2>1. cmd'.name = cmd.name
        BY <1>4, Succeeded DEF SameTask
    <2>2. /\ todo # <<>> /\ todo' = Tail(todo)
          /\ Head(todo)[1] = "define" => Head(todo)[2] \in Targets
          /\ service'.def = (IF Head(todo)[1] = "define" THEN Head(todo)[2]
                             ELSE IF Head(todo)[1] = "undefine" THEN None
                             ELSE service.def)
        BY <1>4, CallMade
    <2>3. Head(todo)[1] # "undefine"
        BY <2>1, <2>2, NextName DEF Installing, Starting, Initializing
    <2>4. Preceded("enable", "define", todo) =>
             Head(todo)[1] = "define" \/ Preceded("enable", "define", Tail(todo))
        BY <1>1, <2>2, TailKeeps
    <2> QED
        BY <1>2, <2>1, <2>2, <2>3, <2>4, TargetsAssumption
<1>5. CASE Errs
    <2>1. Abort
        BY <1>5 DEF Errs
    <2>2. \/ todo' = restartManagedCollector(cmd.active)
          \/ todo' = <<>>
        BY <2>1, Aborted
    <2>3. Preceded("enable", "define", restartManagedCollector(cmd.active))
        BY <1>1, RestartPlan DEF StartScript
    <2> QED
        BY <2>2, <2>3, NoCalls
<1>6. CASE Skips /\ service' = service
    <2>1. Skipped
        BY <1>6, SkippedCall
    <2>2. cmd.name \notin Uninstalls /\ todo # <<>> /\ Head(todo)[1] = "unadapt"
        BY <2>1 DEF Skipped, SameTask
    <2> QED
        BY <2>2, NextName DEF Installing, Starting, Initializing
<1>7. CASE Deny
    <2>1. ~ Has(todo', "enable")
        BY <1>7, DeniedCalls
    <2> QED
        BY <2>1, Lacks
<1>8. CASE Ends
    BY <1>8, NoCalls DEF Ends
<1>9. CASE Idles
    <2>1. todo' = todo /\ service' = service /\ cmd'.name = cmd.name
        BY <1>9, IdleStep DEF Idled, SameTask
    <2> QED
        BY <1>2, <2>1
<1> QED
    BY <1>3, <1>4, <1>5, <1>6, <1>7, <1>8, <1>9, StepKinds, Zenon

\* An uninstall as it begins.
LEMMA UninstallBegins ==
    ASSUME Typed, Removal, NEW name \in Uninstalls, NEW target \in Targets,
           Begin(name, target)
    PROVE  UninstallOrder'
<1>1. /\ service' = service /\ platform' = platform /\ queryable' = queryable
      /\ todo' = Plan(name, target)
      /\ cmd'.known <=> service.def = None \/ Status.installed
    <2>1. name \in CommandsAsked
        BY DEF Uninstalls, CommandsAsked, CommandNames
    <2> QED
        BY <2>1, Begun
<1>2. platform \in Platforms
    BY DEF Typed, ServiceTyped
<1> DEFINE s == Plan(name, target)
<1>3. UninstallScript(s)
    <2>1. name \in CommandsAsked
        BY DEF Uninstalls, CommandsAsked, CommandNames
    <2> QED
        BY <1>2, <2>1, PlanScripts
<1>4. /\ Status.installed <=>
            service.def # None /\ (Windows => queryable \/ service.saved # None)
    BY <1>2, StatusSays
<1>5. ServiceSound
    BY DEF Removal
<1> HIDE DEF s
<1>6. CASE Windows
    <2>1. WindowsScript(s)
        BY <1>3, <1>6 DEF UninstallScript
    <2>2. WindowsOrder'
        BY <1>1, <1>4, <1>6, <2>1 DEF WindowsScript, WindowsOrder, s
    <2>3. NothingForgotten'
        BY <1>1, <1>4, <1>6, <2>1 DEF WindowsScript, NothingForgotten, s
    <2> QED
        BY <1>1, <1>6, <2>2, <2>3 DEF UninstallOrder, Windows
<1>7. CASE ~ Windows
    <2>1. UnixScript(s)
        BY <1>3, <1>7 DEF UninstallScript
    <2>2. UnixOrder'
        BY <1>1, <1>2, <1>5, <1>7, <2>1 DEF UnixScript, UnixOrder, ServiceSound, s
    <2>3. NothingForgotten'
        BY <1>1, <1>5, <1>7, <2>1 DEF UnixScript, NothingForgotten, ServiceSound, s
    <2> QED
        BY <1>1, <1>7, <2>2, <2>3 DEF UninstallOrder, Windows
<1> QED
    BY <1>6, <1>7

\* A call of an uninstall on Linux and macOS.
LEMMA UnixOrderStep ==
    ASSUME Typed, ServiceSound, Succeed, cmd.name \in Uninstalls, ~ Windows, UnixOrder
    PROVE  UnixOrder'
<1> DEFINE n == Head(todo)[1]
<1>1. /\ todo # <<>> /\ todo' = Tail(todo)
      /\ service'.saved = (IF n = "save" THEN Head(todo)[2] ELSE IF n = "unsave" THEN None
                           ELSE service.saved)
      /\ service'.enabled = (IF n = "enable" THEN TRUE
                             ELSE IF n = "disable"
                             THEN service.enabled /\ service.def = None
                             ELSE service.enabled)
      /\ service'.running = (IF StartsIt(Head(todo)) THEN service.def
                             ELSE IF StopsIt(Head(todo)) THEN None ELSE service.running)
      /\ service'.trees = (IF n = "makeTree" THEN service.trees \union {Head(todo)[2]}
                           ELSE IF n = "removeTree"
                           THEN service.trees \ {service.saved} ELSE service.trees)
    BY CallMade
<1>2. n \in Removing
    BY <1>1, NextName
<1>3. /\ todo \in Seq(CallsLeft) /\ platform \in Platforms
      /\ service.trees \subseteq Targets
    BY DEF Typed, CommandTyped, ServiceTyped, Records
<1> HIDE DEF CallsLeft
<1>4. ASSUME NEW x, NEW y, Preceded(x, y, todo)
      PROVE  n = y \/ Preceded(x, y, todo')
    BY <1>1, <1>3, <1>4, TailKeeps
<1>5. ~ StartsIt(Head(todo))
    BY <1>2 DEF StartsIt, Removing
<1>6. n = "stop" /\ service.running # None => StopsIt(Head(todo))
    BY <1>3, StopsSays DEF StopsIt
<1> HIDE DEF n
<1>7. service'.running = None \/ Preceded("undefine", "stop", todo')
    BY <1>1, <1>4, <1>5, <1>6 DEF UnixOrder
<1>8. ~ service'.enabled \/ Preceded("undefine", "disable", todo')
    BY <1>1, <1>2, <1>4 DEF UnixOrder, ServiceSound, Removing
<1>9. service'.saved \notin service'.trees \/ Preceded("unsave", "removeTree", todo')
    BY <1>1, <1>2, <1>3, <1>4, TargetsAssumption DEF UnixOrder, Removing
<1> QED
    BY <1>7, <1>8, <1>9 DEF UnixOrder

\* A call of an uninstall on Windows.
LEMMA WindowsOrderStep ==
    ASSUME Typed, ServiceSound, Succeed, cmd.name \in Uninstalls, Windows, WindowsOrder
    PROVE  WindowsOrder'
<1> DEFINE n == Head(todo)[1]
<1>1. /\ todo # <<>> /\ todo' = Tail(todo)
      /\ service'.def = (IF n = "define" THEN Head(todo)[2]
                         ELSE IF n = "undefine" THEN None ELSE service.def)
      /\ service'.saved = (IF n = "save" THEN Head(todo)[2] ELSE IF n = "unsave" THEN None
                           ELSE service.saved)
      /\ service'.running = (IF StartsIt(Head(todo)) THEN service.def
                             ELSE IF StopsIt(Head(todo)) THEN None ELSE service.running)
      /\ service'.legacy = (IF StopsIt(Head(todo)) THEN FALSE ELSE service.legacy)
    BY CallMade
<1>2. n \in Removing
    BY <1>1, NextName
<1>3. /\ todo \in Seq(CallsLeft) /\ platform \in Platforms
    BY DEF Typed, CommandTyped, ServiceTyped
<1>4. queryable' = queryable
    BY Succeeded
<1> HIDE DEF CallsLeft
<1>5. ASSUME NEW x, NEW y
      PROVE  /\ Has(todo, y) => n = y \/ Has(todo', y)
             /\ Has(todo', y) => Has(todo, y)
             /\ Preceded(x, y, todo) => /\ x # y => n # x
                                        /\ n = y \/ Preceded(x, y, todo')
             /\ Past(x, y, todo) => /\ Past(x, y, todo')
                                    /\ n = x => ~ Has(todo', y)
    BY <1>1, <1>3, TailKeeps
<1>6. Head(todo)[1] = n
    OBVIOUS
<1>7. /\ ~ StartsIt(Head(todo))
      /\ StopsIt(Head(todo)) <=>
            \/ n = "stop" /\ Stops
            \/ n = "stopFallback" /\ windowsCollectorFallbackRunning
    BY <1>2 DEF StartsIt, StopsIt, Removing
<1>8. Has(todo, n)
    <2>1. 1 \in 1..Len(todo) /\ todo[1] = Head(todo)
        BY <1>1, <1>3, TailElements
    <2> QED
        BY <2>1 DEF Has
<1> HIDE DEF n
<1>9. n = "stop" => ~ service.legacy
    BY <1>5 DEF WindowsOrder
<1>10. n = "stop" /\ service.running # None => Stops
    BY <1>3, <1>8, <1>9, StatusSays, StopsSays DEF WindowsOrder
<1>11. n = "stopFallback" => ~ service'.legacy
    BY <1>1, <1>7 DEF ServiceSound, windowsCollectorFallbackRunning
<1>12. ~ service'.legacy \/ /\ Preceded("stop", "stopFallback", todo')
                            /\ Preceded("unsave", "stopFallback", todo')
    BY <1>1, <1>5, <1>11 DEF WindowsOrder
<1>13. service'.running = None \/ service'.legacy \/ Preceded("undefine", "stop", todo')
    BY <1>1, <1>5, <1>7, <1>10 DEF WindowsOrder
<1>14. Past("undefine", "stop", todo') /\ Past("unsave", "stop", todo')
    BY <1>5 DEF WindowsOrder
<1>15. Has(todo', "stop") =>
          service'.def # None /\ (queryable' \/ service'.saved # None)
    BY <1>1, <1>2, <1>4, <1>5 DEF WindowsOrder, Removing
<1> QED
    BY <1>12, <1>13, <1>14, <1>15 DEF WindowsOrder

\* What is removed was on the list.
LEMMA NothingForgottenStep ==
    ASSUME Typed, Succeed, cmd.name \in Uninstalls, NothingForgotten
    PROVE  NothingForgotten'
<1> DEFINE n == Head(todo)[1]
<1>1. /\ todo # <<>> /\ todo' = Tail(todo)
      /\ service'.def = (IF n = "define" THEN Head(todo)[2]
                         ELSE IF n = "undefine" THEN None ELSE service.def)
      /\ service'.saved = (IF n = "save" THEN Head(todo)[2] ELSE IF n = "unsave" THEN None
                           ELSE service.saved)
      /\ service'.fallback = (IF n = "unsave" THEN None ELSE service.fallback)
      /\ service'.runKey = (IF n = "unregister" THEN FALSE ELSE service.runKey)
    BY CallMade
<1>2. n \in Removing
    BY <1>1, NextName
<1>3. todo \in Seq(CallsLeft)
    BY DEF Typed, CommandTyped
<1>4. cmd'.failed = cmd.failed /\ cmd'.known = cmd.known
    BY Succeeded DEF SameTask
<1> HIDE DEF CallsLeft
<1>5. \A y : Has(todo, y) => n = y \/ Has(todo', y)
    BY <1>1, <1>3, TailKeeps
<1> HIDE DEF n
<1> QED
    BY <1>1, <1>2, <1>4, <1>5 DEF NothingForgotten, Removing

\* An adapter that stays installed changes nothing of the rest.
LEMMA SkippedOrder ==
    ASSUME Typed, Skips, service' = service, platform' = platform, queryable' = queryable,
           UninstallOrder
    PROVE  UninstallOrder'
<1>1. /\ todo # <<>> /\ Head(todo)[1] = "unadapt" /\ todo' = Tail(todo)
      /\ cmd'.name = cmd.name /\ cmd'.failed = cmd.failed /\ cmd'.known = cmd.known
    BY SkippedCall DEF Skipped, SameTask
<1>2. todo \in Seq(CallsLeft)
    BY DEF Typed, CommandTyped
<1> HIDE DEF CallsLeft
<1>3. ASSUME NEW x, NEW y, y # "unadapt"
      PROVE  /\ Has(todo, y) => Has(todo', y)
             /\ Has(todo', y) => Has(todo, y)
             /\ Preceded(x, y, todo) => Preceded(x, y, todo')
             /\ Past(x, y, todo) => Past(x, y, todo')
    BY <1>1, <1>2, <1>3, TailKeeps
<1>4. ASSUME cmd.name \in Uninstalls, Windows PROVE UninstallOrder'
    <2>1. WindowsOrder /\ NothingForgotten
        BY <1>4 DEF UninstallOrder
    <2>2. WindowsOrder'
        BY <1>3, <2>1 DEF WindowsOrder
    <2>3. NothingForgotten'
        BY <1>1, <1>3, <2>1 DEF NothingForgotten
    <2> QED
        BY <1>1, <1>4, <2>2, <2>3 DEF UninstallOrder, Windows
<1>5. ASSUME cmd.name \in Uninstalls, ~ Windows PROVE UninstallOrder'
    <2>1. UnixOrder /\ NothingForgotten
        BY <1>5 DEF UninstallOrder
    <2>2. UnixOrder'
        BY <1>3, <2>1 DEF UnixOrder
    <2>3. NothingForgotten'
        BY <1>1, <1>3, <2>1 DEF NothingForgotten
    <2> QED
        BY <1>1, <1>5, <2>2, <2>3 DEF UninstallOrder, Windows
<1>6. ASSUME cmd.name \notin Uninstalls PROVE UninstallOrder'
    BY <1>1, <1>6 DEF UninstallOrder, Uninstalls
<1> QED
    BY <1>4, <1>5, <1>6

LEMMA UninstallOrderStep ==
    ASSUME Typed, Removal, [Next]_vars
    PROVE  UninstallOrder'
<1>1. /\ platform' = platform /\ queryable' = queryable
      /\ ServiceSound /\ UninstallOrder
      /\ cmd.restore \/ cmd.restoring => cmd.name = "setup"
    BY PlatformStays DEF Removal, Typed, CommandTyped
<1>2. ASSUME NEW name \in CommandsAsked, NEW target \in Targets, Begin(name, target)
      PROVE  UninstallOrder'
    <2>1. cmd'.name = name
        BY <1>2, Begun
    <2>2. CASE name \in Uninstalls
        BY <1>2, <2>2, UninstallBegins
    <2>3. CASE name \notin Uninstalls
        BY <2>1, <2>3 DEF UninstallOrder, Uninstalls
    <2> QED
        BY <2>2, <2>3
<1>3. CASE Succeed
    <2>1. cmd'.name = cmd.name
        BY <1>3, Succeeded DEF SameTask
    <2>2. CASE cmd.name \notin Uninstalls
        BY <2>1, <2>2 DEF UninstallOrder, Uninstalls
    <2>3. CASE cmd.name \in Uninstalls
        <3>1. NothingForgotten'
            BY <1>1, <1>3, <2>3, NothingForgottenStep DEF UninstallOrder
        <3>2. Windows => WindowsOrder'
            BY <1>1, <1>3, <2>3, WindowsOrderStep DEF UninstallOrder
        <3>3. ~ Windows => UnixOrder'
            BY <1>1, <1>3, <2>3, UnixOrderStep DEF UninstallOrder
        <3> QED
            BY <1>1, <3>1, <3>2, <3>3 DEF UninstallOrder, Windows
    <2> QED
        BY <2>2, <2>3
<1>4. CASE Errs
    <2>1. Abort
        BY <1>4 DEF Errs
    <2>2. /\ cmd'.name = cmd.name /\ cmd'.failed = TRUE
          /\ cmd.name \in Uninstalls => todo' = <<>>
        BY <1>1, <2>1, Aborted DEF SameTask, Uninstalls
    <2>3. ASSUME todo' = <<>> PROVE UnixOrder' /\ WindowsOrder'
        BY <2>3, NoCalls DEF UnixOrder, WindowsOrder
    <2> QED
        BY <1>1, <2>2, <2>3 DEF UninstallOrder, NothingForgotten, Uninstalls
<1>5. CASE Skips /\ service' = service
    BY <1>1, <1>5, SkippedOrder
<1>6. CASE Deny
    <2>1. cmd'.name = cmd.name /\ (cmd.name = "restart" \/ cmd.restoring \/ cmd.name = "setup")
        BY <1>6, DefinitionDenied DEF SameTask
    <2> QED
        BY <1>1, <2>1 DEF UninstallOrder, Uninstalls
<1>7. CASE Ends
    BY <1>7 DEF Ends, NoCommand, UninstallOrder, Uninstalls
<1>8. CASE Idles
    <2>1. /\ todo' = todo /\ service' = service /\ cmd'.name = cmd.name
          /\ cmd'.failed = cmd.failed /\ cmd'.known = cmd.known
        BY <1>8, IdleStep DEF Idled, SameTask
    <2>2. (WindowsOrder <=> WindowsOrder') /\ (UnixOrder <=> UnixOrder')
          /\ (NothingForgotten <=> NothingForgotten')
        BY <1>1, <2>1 DEF WindowsOrder, UnixOrder, NothingForgotten
    <2> QED
        BY <1>1, <2>1, <2>2 DEF UninstallOrder, Windows, Uninstalls
<1> QED
    BY <1>2, <1>3, <1>4, <1>5, <1>6, <1>7, <1>8, StepKinds, Zenon

LEMMA InitRemoval == ASSUME Init PROVE Removal
<1>1. cmd = NoCommand /\ todo = <<>>
    BY Zenon DEF Init
<1>2. ServiceSound
    BY InitialService DEF ServiceSound
<1>3. DefinedFirst
    BY <1>1, NoCalls DEF DefinedFirst
<1>4. UninstallOrder
    BY <1>1 DEF UninstallOrder, NoCommand, Uninstalls
<1> QED
    BY <1>2, <1>3, <1>4 DEF Removal

LEMMA RemovalInvariant == Spec => [](Typed /\ Removal)
<1>1. Init => Typed /\ Removal
    BY InitTyped, InitRemoval
<1>2. Typed /\ Removal /\ [Next]_vars => (Typed /\ Removal)'
    BY ServiceTypedStep, CommandTypedStep, ServiceSoundStep, DefinedFirstStep,
       UninstallOrderStep DEF Typed, Removal
<1> QED
    BY <1>1, <1>2, PTL DEF Spec

\* An uninstall whose collector part returns no error leaves no definition, no
\* settings, no login entry and no collector in the background, on the three
\* platforms, whatever failed, was killed or rebooted before.
THEOREM UninstallIsThorough == Spec => []UninstallLeavesNothing
<1>1. ASSUME Typed, Removal PROVE UninstallLeavesNothing
    <2> SUFFICES ASSUME cmd.name \in Uninstalls, todo = <<>>, ~ cmd.failed, cmd.known
                 PROVE  /\ service.def = None /\ service.saved = None
                        /\ service.running = None
                        /\ ~ service.enabled /\ ~ service.runKey
                        /\ service.fallback = None
        BY DEF UninstallLeavesNothing, Uninstalls
    <2>1. NothingForgotten /\ ServiceSound
        BY <1>1 DEF Removal, UninstallOrder
    <2>2. /\ service.def = None /\ service.saved = None /\ service.fallback = None
          /\ ~ service.runKey
        BY <2>1, NoCalls DEF NothingForgotten
    <2> QED
        BY <2>1, <2>2 DEF ServiceSound
<1> QED
    BY <1>1, RemovalInvariant, PTL

\* The settings are removed only after the files they name, so that an
\* uninstall that stopped half-way finds them again.
THEOREM SettingsAreKept == Spec => SettingsOutliveFiles
<1>1. ASSUME Typed, Removal, [Next]_vars, service.saved # None, service'.saved = None
      PROVE  service.saved \notin service'.trees
    <2>1. CASE Succeed
        <3>1. /\ todo # <<>>
              /\ Head(todo)[1] = "save" => Head(todo)[2] \in Targets
              /\ service'.saved = (IF Head(todo)[1] = "save" THEN Head(todo)[2]
                                   ELSE IF Head(todo)[1] = "unsave" THEN None
                                   ELSE service.saved)
              /\ service'.trees = (IF Head(todo)[1] = "makeTree"
                                   THEN service.trees \union {Head(todo)[2]}
                                   ELSE IF Head(todo)[1] = "removeTree"
                                   THEN service.trees \ {service.saved}
                                   ELSE service.trees)
            BY <1>1, <2>1, CallMade
        <3>2. Head(todo)[1] = "unsave"
            BY <1>1, <3>1, TargetsAssumption
        <3>3. service.saved \notin service.trees
            BY <1>1, <3>1, <3>2, ReadyToRemove
        <3> QED
            BY <3>1, <3>2, <3>3
    <2>2. ASSUME service' = service PROVE FALSE
        BY <1>1, <2>2
    <2>3. ASSUME Reboot PROVE FALSE
        BY <1>1, <2>3, RebootService DEF Typed
    <2>4. ASSUME NEW name \in CommandsAsked, NEW target \in Targets, Begin(name, target)
          PROVE  service' = service
        BY <1>1, <2>4, Begun
    <2>5. ASSUME Deny PROVE service' = service
        BY <2>5, Zenon DEF Deny
    <2>6. ASSUME Idles PROVE service' = service
        BY <2>6, Zenon DEF Idles
    <2> QED
        BY <1>1, <2>1, <2>2, <2>3, <2>4, <2>5, <2>6, StepKinds, Zenon
<1>2. Typed /\ Removal /\ [Next]_vars =>
         [(service.saved # None /\ service'.saved = None)
             => service.saved \notin service'.trees]_vars
    BY <1>1
<1> QED
    BY <1>2, RemovalInvariant, PTL DEF Spec, SettingsOutliveFiles

-----------------------------------------------------------------------------
(* Where a setup installs the collector.                                   *)

\* A setup that found a collector with known settings keeps to them: it works
\* for the same home, or has not looked yet.
Aim ==
    (cmd.name = "setup" /\ cmd.installed) =>
        /\ service.saved # None /\ cmd.active = service.saved
        /\ \/ cmd.target = service.saved
           \/ cmd.restoring
           \/ todo = <<>>
           \/ service.def # None /\ Head(todo) = <<"check", cmd.target>>

\* The settings a command inherits.
LEMMA Inherited ==
    ASSUME Typed, NEW target \in Targets
    PROVE  /\ service.saved # None /\ Status.installed =>
                 resolveManagedCollectorSettings(target) = service.saved
           /\ service.saved = None /\ ~ Status.fallback =>
                 resolveManagedCollectorSettings(target) = target
<1>1. platform \in Platforms
    BY DEF Typed, ServiceTyped
<1>2. /\ Status.fallback => ~ Status.installed
      /\ Status.home = IF Status.fallback THEN service.fallback ELSE service.saved
    BY <1>1, StatusSays
<1> HIDE DEF Status
<1>3. CASE platform = "linux"
    <2>1. resolveManagedCollectorSettings(target) = LinuxSettings(target)
        BY <1>3 DEF resolveManagedCollectorSettings, Windows
    <2> QED
        BY <2>1 DEF LinuxSettings
<1>4. CASE platform = "darwin"
    <2>1. resolveManagedCollectorSettings(target) = DarwinSettings(target)
        BY <1>4 DEF resolveManagedCollectorSettings, Windows
    <2> QED
        BY <2>1 DEF DarwinSettings
<1>5. CASE platform = "windows"
    <2>1. resolveManagedCollectorSettings(target) = WindowsSettings(target)
        BY <1>5 DEF resolveManagedCollectorSettings, Windows
    <2> QED
        BY <1>2, <2>1 DEF WindowsSettings
<1> QED
    BY <1>1, <1>3, <1>4, <1>5 DEF Platforms

\* A setup defines and saves what it was asked for, and while it restores a
\* collector what was active.
LEMMA SetupAims ==
    ASSUME Typed, todo # <<>>, cmd.name = "setup"
    PROVE  /\ Head(todo)[1] \in {"define", "save"} =>
                 Head(todo)[2] = IF cmd.restoring THEN cmd.active ELSE cmd.target
           /\ Head(todo)[1] = "check" => Head(todo) = <<"check", cmd.target>>
           /\ Head(todo)[1] \notin {"undefine", "unsave", "unadapt"}
           /\ cmd.restoring => Head(todo)[1] \notin Initializing \union {"check"}
<1>1. Head(todo) \in CallsLeft
    BY NextCall
<1>2. CASE cmd.restoring
    <2>1. Head(todo) \in StartCalls(cmd.active)
        BY <1>1, <1>2 DEF CallsLeft, Uninstalls
    <2> QED
        BY <1>2, <2>1 DEF StartCalls, Installing, Starting, Initializing
<1>3. CASE ~ cmd.restoring
    <2>1. Head(todo) \in SetupCalls(cmd.target)
        BY <1>1, <1>3 DEF CallsLeft, Uninstalls
    <2> QED
        BY <1>3, <2>1 DEF SetupCalls, StartCalls, Installing, Starting, Initializing
<1> QED
    BY <1>2, <1>3

\* A setup that goes on past its check works for the home it found.
LEMMA CheckPassed ==
    ASSUME Typed, Succeed, cmd.name = "setup",
           Head(todo) = <<"check", cmd.target>>
    PROVE  /\ ~ Status.fallback
           /\ service.def # None /\ service.saved # None => service.saved = cmd.target
<1>1. ~ Refused(Head(todo))
    BY Succeeded
<1>2. ~ SetupRejects(cmd.target)
    BY <1>1 DEF Refused
<1>3. cmd.target \in Targets /\ platform \in Platforms
    BY DEF Typed, CommandTyped, ServiceTyped
<1>4. /\ ~ Status.fallback
      /\ Status.installed => resolveManagedCollectorSettings(cmd.target) = cmd.target
    BY <1>2 DEF SetupRejects, rejectLegacyWindowsFallback, rejectActiveCollectorTargetChange
<1>5. service.def # None /\ service.saved # None => Status.installed
    BY <1>3, StatusSays
<1> QED
    BY <1>3, <1>4, <1>5, Inherited

LEMMA AimStep ==
    ASSUME Typed, Aim, [Next]_vars
    PROVE  /\ Aim'
           /\ (cmd.name = "setup" /\ cmd.installed) =>
                 /\ service'.saved = service.saved
                 /\ service'.def \in {service.def, service.saved}
<1> DEFINE P == /\ service'.saved = service.saved
                /\ service'.def \in {service.def, service.saved}
           On == cmd.name = "setup" /\ cmd.installed
<1>1. cmd.restore \/ cmd.restoring => cmd.name = "setup"
    BY DEF Typed, CommandTyped
<1>2. ASSUME NEW name \in CommandsAsked, NEW target \in Targets, Begin(name, target)
      PROVE  Aim' /\ P
    <2>1. /\ service' = service /\ todo' = Plan(name, target)
          /\ cmd'.name = name /\ cmd'.target = target
          /\ cmd'.installed <=> Status.installed /\ service.saved # None
          /\ cmd'.active = resolveManagedCollectorSettings(target)
        BY <1>2, Begun
    <2>2. ASSUME cmd'.name = "setup", cmd'.installed
          PROVE  /\ service.saved # None /\ cmd'.active = service.saved
                 /\ service.def # None /\ Head(todo') = <<"check", cmd'.target>>
        <3>1. platform \in Platforms
            BY DEF Typed, ServiceTyped
        <3>2. service.def # None
            BY <2>1, <2>2, <3>1, StatusSays
        <3>3. SetupScript(target, todo')
            BY <2>1, <2>2, <3>1, PlanScripts DEF Uninstalls
        <3> QED
            BY <2>1, <2>2, <3>2, <3>3, Inherited DEF SetupScript
    <2> QED
        BY <2>1, <2>2 DEF Aim
<1>3. CASE Succeed
    <2>1. /\ todo # <<>> /\ SameTask /\ cmd'.restoring = cmd.restoring
          /\ todo' = Tail(todo)
        BY <1>3, Succeeded
    <2>2. /\ service'.def = (IF Head(todo)[1] = "define" THEN Head(todo)[2]
                             ELSE IF Head(todo)[1] = "undefine" THEN None
                             ELSE service.def)
          /\ service'.saved = (IF Head(todo)[1] = "save" THEN Head(todo)[2]
                               ELSE IF Head(todo)[1] = "unsave" THEN None
                               ELSE service.saved)
        BY <1>3, CallMade
    <2>3. ASSUME On
          PROVE  P /\ (cmd.target = service.saved \/ cmd.restoring)
        <3>1. CASE Head(todo) = <<"check", cmd.target>>
            <4>1. P
                BY <2>2, <3>1
            <4>2. cmd.restoring \/ todo = <<>> \/ cmd.target = service.saved
                  \/ service.def # None
                BY <2>3 DEF Aim
            <4> QED
                BY <1>3, <2>1, <2>3, <3>1, <4>1, <4>2, CheckPassed DEF Aim
        <3>2. CASE Head(todo) # <<"check", cmd.target>>
            <4>1. cmd.active = service.saved /\ (cmd.target = service.saved \/ cmd.restoring)
                BY <2>1, <2>3, <3>2 DEF Aim
            <4> QED
                BY <2>1, <2>2, <2>3, <4>1, SetupAims
        <3> QED
            BY <3>1, <3>2
    <2> QED
        BY <2>1, <2>3 DEF Aim, SameTask
<1>4. CASE Errs /\ service' = service
    <2>1. Abort
        BY <1>4 DEF Errs
    <2>2. SameTask /\ (cmd'.restoring = TRUE \/ todo' = <<>>)
        BY <2>1, Aborted
    <2> QED
        BY <1>4, <2>2 DEF Aim, SameTask
<1>5. CASE Skips /\ service' = service
    <2>1. Skipped
        BY <1>5, SkippedCall
    <2>2. SameTask /\ todo # <<>> /\ Head(todo)[1] = "unadapt"
        BY <2>1 DEF Skipped
    <2>3. cmd'.name # "setup"
        BY <2>2, SetupAims DEF SameTask
    <2> QED
        BY <1>5, <2>3 DEF Aim
<1>6. CASE Deny
    <2>1. /\ todo # <<>> /\ Head(todo)[1] = "define" /\ SameTask
          /\ cmd'.restoring = cmd.restoring
        BY <1>6, DefinitionDenied
    <2>2. service' = service
        BY <1>6, Zenon DEF Deny
    <2>3. Head(todo) # <<"check", cmd.target>>
        BY <2>1
    <2> QED
        BY <2>1, <2>2, <2>3 DEF Aim, SameTask
<1>7. CASE Ends /\ (Reboot \/ service' = service)
    <2>1. service'.saved = service.saved /\ service'.def = service.def
        BY <1>7, RebootService DEF Typed
    <2>2. cmd'.name # "setup"
        BY <1>7 DEF Ends, NoCommand
    <2> QED
        BY <2>1, <2>2 DEF Aim
<1>8. CASE Idles
    <2>1. /\ todo' = todo /\ service' = service /\ SameTask
          /\ cmd'.restoring = cmd.restoring
        BY <1>8, IdleStep DEF Idled
    <2> QED
        BY <2>1 DEF Aim, SameTask
<1> QED
    BY <1>2, <1>3, <1>4, <1>5, <1>6, <1>7, <1>8, StepKinds, Zenon

\* A setup never redirects an installed collector to another home, not even
\* while it restores one.
THEOREM SetupsStayHome == Spec => SetupNeverRedirects
<1>1. Init => Typed /\ Aim
    <2>1. ASSUME Init PROVE cmd = NoCommand
        BY <2>1, Zenon DEF Init
    <2>2. NoCommand.name # "setup"
        BY DEF NoCommand
    <2> QED
        BY <2>1, <2>2, InitTyped DEF Aim
<1>2. Typed /\ Aim /\ [Next]_vars => (Typed /\ Aim)'
    BY ServiceTypedStep, CommandTypedStep, AimStep DEF Typed
<1>3. Typed /\ Aim /\ [Next]_vars =>
         [(cmd.name = "setup" /\ cmd.installed)
             => /\ service'.saved = service.saved
                /\ service'.def \in {service.def, service.saved}]_vars
    BY AimStep
<1> QED
    BY <1>1, <1>2, <1>3, PTL DEF Spec, SetupNeverRedirects

-----------------------------------------------------------------------------
(* What runs during a setup, when what it found agreed with its definition *)
(* and settings and nobody takes the listener meanwhile.                   *)

\* After the check everything is about one home.
OneHome ==
    /\ {service.def, service.running, cmd.before} \subseteq {None, cmd.target}
    /\ cmd.active = cmd.target

\* Nothing has been touched yet.
Pending ==
    /\ ~ cmd.failed /\ ~ cmd.denied /\ ~ cmd.restoring /\ ~ cmd.restore
    /\ service.def = service.saved /\ service.running = cmd.before
    /\ cmd.before \in {None, service.def}
    /\ Has(todo, "quiesce") /\ Past("quiesce", "quiesce", todo)
    /\ \A x : x \notin BeforeQuiesce => Preceded(x, "quiesce", todo)
    /\ ~ Has(todo, "resume") /\ Preceded("run", "define", todo)
    /\ Followed("stop", "run", todo) /\ Followed("quiesce", "run", todo)
    /\ \/ /\ Head(todo) = <<"check", cmd.target>>
          /\ IF service.saved # None THEN cmd.active = service.saved
             ELSE \/ cmd.active = cmd.target
                  \/ Windows /\ service.fallback # None /\ service.runKey
       \/ OneHome

\* What ran is stopped, and setup will start a collector or fail.
Replacing ==
    /\ ~ cmd.failed /\ ~ cmd.denied /\ ~ cmd.restoring
    /\ OneHome
    /\ cmd.before # None => cmd.restore
    /\ cmd.restore => service.def = cmd.target
    /\ ~ Has(todo, "quiesce") /\ ~ Has(todo, "resume")
    /\ Followed("stop", "run", todo)
    /\ service.def = cmd.target \/ Preceded("run", "define", todo)
    /\ service.running = cmd.target \/ Has(todo, "run")

\* A policy refused the definition, and setup resumes what it stopped.
Declined ==
    /\ ~ cmd.failed /\ cmd.denied /\ ~ cmd.restoring
    /\ OneHome
    /\ cmd.restore => service.def = cmd.target
    /\ \A x : Has(todo, x) => x \in {"resume", "adapters"}
    /\ cmd.before # None => \/ service.running = cmd.target
                            \/ cmd.restore /\ Has(todo, "resume")

\* A later step failed, and setup restarts what it stopped.
Restoring ==
    /\ cmd.failed /\ cmd.restoring
    /\ OneHome
    /\ service.def = cmd.target
    /\ Followed("stop", "run", todo)
    /\ \/ cmd.unrestored \/ service.running = cmd.target
       \/ Has(todo, "run") \/ Has(todo, "resume")

\* It failed with nothing to restart.
Over ==
    /\ cmd.failed /\ ~ cmd.restoring /\ todo = <<>>
    /\ cmd.before # None => service.running = cmd.before

Course ==
    (cmd.name = "setup" /\ cmd.settled) =>
        /\ foreground = None
        /\ Pending \/ Replacing \/ Declined \/ Restoring \/ Over

\* The next call is one of those left.
LEMMA HeadIsLeft ==
    ASSUME Typed, todo # <<>>
    PROVE  Has(todo, Head(todo)[1])
<1>1. todo \in Seq(CallsLeft)
    BY DEF Typed, CommandTyped
<1> HIDE DEF CallsLeft
<1>2. 1 \in 1..Len(todo) /\ todo[1] = Head(todo)
    BY <1>1, TailElements
<1> QED
    BY <1>2 DEF Has

\* What a call keeps of the order of the calls.
LEMMA OrderKept ==
    ASSUME Typed, todo # <<>>, NEW x, NEW y
    PROVE  /\ Has(todo, y) => Head(todo)[1] = y \/ Has(Tail(todo), y)
           /\ Has(Tail(todo), y) => Has(todo, y)
           /\ Preceded(x, y, todo) =>
                 /\ x # y => Head(todo)[1] # x
                 /\ Head(todo)[1] = y \/ Preceded(x, y, Tail(todo))
           /\ Followed(x, y, todo) =>
                 /\ Followed(x, y, Tail(todo))
                 /\ Head(todo)[1] = x => Has(Tail(todo), y)
           /\ Past(x, y, todo) =>
                 /\ Past(x, y, Tail(todo))
                 /\ Head(todo)[1] = x => ~ Has(Tail(todo), y)
<1>1. todo \in Seq(CallsLeft)
    BY DEF Typed, CommandTyped
<1> HIDE DEF CallsLeft
<1> QED
    BY <1>1, TailKeeps

\* A call of a setup: what becomes of the definition and of what runs.
LEMMA SetupCall ==
    ASSUME Typed, Succeed, cmd.name = "setup", foreground = None
    PROVE  LET n == Head(todo)[1]
           IN  /\ todo # <<>> /\ todo' = Tail(todo)
               /\ SameTask
               /\ cmd'.failed = cmd.failed /\ cmd'.denied = cmd.denied
               /\ cmd'.restoring = cmd.restoring /\ cmd'.unrestored = cmd.unrestored
               /\ IF n = "quiesce"
                  THEN cmd'.restore = stopCollectorForLedgerInitialization
                  ELSE IF n = "resume" /\ ~ cmd.restoring THEN cmd'.restore = FALSE
                  ELSE cmd'.restore = cmd.restore
               /\ n \notin {"undefine", "unsave", "unadapt", "stopFallback", "unregister"}
               /\ service'.def = (IF n = "define"
                                  THEN IF cmd.restoring THEN cmd.active ELSE cmd.target
                                  ELSE service.def)
               /\ n \in {"run", "resume"} =>
                     service'.running = (IF service.running = None THEN service.def
                                         ELSE service.running)
               /\ n \in {"stop", "quiesce"} => service'.running \in {None, service.running}
               /\ n \notin {"run", "resume", "stop", "quiesce"} =>
                     service'.running = service.running
<1> DEFINE n == Head(todo)[1]
<1>1. /\ todo # <<>> /\ todo' = Tail(todo)
      /\ service'.def = (IF n = "define" THEN Head(todo)[2]
                         ELSE IF n = "undefine" THEN None ELSE service.def)
      /\ service'.running = (IF StartsIt(Head(todo)) THEN service.def
                             ELSE IF StopsIt(Head(todo)) THEN None ELSE service.running)
    BY CallMade
<1>2. /\ n \in {"define", "save"} =>
            Head(todo)[2] = IF cmd.restoring THEN cmd.active ELSE cmd.target
      /\ n \notin {"undefine", "unsave", "unadapt"}
    BY <1>1, SetupAims
<1>3. n \notin {"undefine", "unsave", "unadapt", "stopFallback", "unregister"}
    BY <1>1, NextName DEF Installing, Starting, Initializing, Uninstalls
<1>4. /\ SameTask
      /\ cmd'.failed = cmd.failed /\ cmd'.denied = cmd.denied
      /\ cmd'.restoring = cmd.restoring /\ cmd'.unrestored = cmd.unrestored
      /\ IF n = "quiesce"
         THEN cmd'.restore = stopCollectorForLedgerInitialization
         ELSE IF n = "resume" /\ ~ cmd.restoring THEN cmd'.restore = FALSE
         ELSE cmd'.restore = cmd.restore
    BY Succeeded
<1>5. /\ StartsIt(Head(todo)) <=> n \in {"run", "resume"} /\ service.running = None
      /\ StopsIt(Head(todo)) => n \in {"stop", "quiesce", "stopFallback"}
    BY DEF StartsIt, StopsIt
<1> HIDE DEF n
<1>6. /\ n \in {"run", "resume"} =>
            service'.running = (IF service.running = None THEN service.def
                                ELSE service.running)
      /\ n \in {"stop", "quiesce"} => service'.running \in {None, service.running}
      /\ n \notin {"run", "resume", "stop", "quiesce"} =>
            service'.running = service.running
    BY <1>1, <1>3, <1>5
<1>7. service'.def = (IF n = "define"
                      THEN IF cmd.restoring THEN cmd.active ELSE cmd.target
                      ELSE service.def)
    BY <1>1, <1>2, <1>3
<1> QED
    BY <1>1, <1>3, <1>4, <1>6, <1>7 DEF n

\* Whether setup has to stop a collector, and afterwards restores it.
LEMMA QuiesceSees ==
    ASSUME Typed, service.def = service.saved, service.running \in {None, service.def},
           foreground = None
    PROVE  stopCollectorForLedgerInitialization <=> service.running # None
<1>1. platform \in Platforms /\ None \notin Targets /\ Default # None
    BY TargetsAssumption DEF Typed, ServiceTyped
<1>2. /\ service.def # None => Status.installed /\ Status.home = service.def
      /\ Status.installed => service.def # None
    BY <1>1, StatusSays
<1>3. CASE service.running # None
    <2>1. service.running = service.def /\ service.def # None
        BY <1>3
    <2>2. Status.installed /\ Status.home = service.running /\ Status.home # None
        BY <1>2, <1>3, <2>1
    <2> HIDE DEF Status
    <2>3. probeCollectorHealth
        BY <2>2 DEF probeCollectorHealth
    <2> QED
        BY <1>3, <2>2, <2>3 DEF stopCollectorForLedgerInitialization
<1>4. CASE service.running = None
    <2>1. ~ Status.running
        <3>1. CASE ~ Windows
            BY <1>1, <1>4, <3>1, StatusSays
        <3>2. CASE Windows
            <4>1. Status = windowsCollectorStatus
                BY <3>2 DEF Status, Windows
            <4>2. ~ service.legacy
                BY <1>4 DEF Typed, ServiceTyped
            <4> QED
                BY <1>4, <4>1, <4>2
                   DEF windowsCollectorStatus, windowsCollectorFallbackRunning
        <3> QED
            BY <3>1, <3>2
    <2> HIDE DEF Status
    <2>2. ~ probeCollectorHealth
        BY <1>1, <1>4 DEF probeCollectorHealth
    <2> QED
        BY <1>4, <2>1, <2>2 DEF stopCollectorForLedgerInitialization
<1> QED
    BY <1>3, <1>4

\* A setup as it begins.
LEMMA SetupBegins ==
    ASSUME Typed, NEW target \in Targets, Begin("setup", target), cmd'.settled
    PROVE  foreground' = None /\ Pending'
<1>1. "setup" \in CommandsAsked
    BY DEF CommandsAsked, CommandNames
<1>2. /\ service' = service /\ platform' = platform /\ queryable' = queryable
      /\ foreground' = foreground
      /\ todo' = Plan("setup", target)
      /\ cmd'.name = "setup" /\ cmd'.target = target
      /\ cmd'.before = service.running
      /\ service.def = service.saved
      /\ service.running \in {None, service.def}
      /\ foreground = None
      /\ cmd'.active = resolveManagedCollectorSettings(target)
      /\ ~ cmd'.restore /\ ~ cmd'.restoring /\ ~ cmd'.failed
      /\ ~ cmd'.unrestored /\ ~ cmd'.denied
    BY <1>1, Begun
<1>3. platform \in Platforms
    BY DEF Typed, ServiceTyped
<1>4. SetupScript(target, todo')
    BY <1>1, <1>2, <1>3, PlanScripts DEF Uninstalls
<1>5. IF service.saved # None THEN cmd'.active = service.saved
      ELSE \/ cmd'.active = target
           \/ Windows /\ service.fallback # None /\ service.runKey
    BY <1>2, <1>3, StatusSays, Inherited
<1> QED
    BY <1>2, <1>4, <1>5 DEF Pending, SetupScript, Windows

\* Before anything is stopped, calls change nothing.
LEMMA PendingCall ==
    ASSUME Typed, Succeed, cmd.name = "setup", foreground = None, Pending
    PROVE  Pending' \/ Replacing'
<1> DEFINE n == Head(todo)[1]
<1>1. /\ todo # <<>> /\ todo' = Tail(todo)
      /\ SameTask
      /\ cmd'.failed = cmd.failed /\ cmd'.denied = cmd.denied
      /\ cmd'.restoring = cmd.restoring
      /\ IF n = "quiesce"
         THEN cmd'.restore = stopCollectorForLedgerInitialization
         ELSE IF n = "resume" /\ ~ cmd.restoring THEN cmd'.restore = FALSE
         ELSE cmd'.restore = cmd.restore
      /\ service'.def = (IF n = "define"
                         THEN IF cmd.restoring THEN cmd.active ELSE cmd.target
                         ELSE service.def)
      /\ n \in {"stop", "quiesce"} => service'.running \in {None, service.running}
    BY SetupCall
<1>2. /\ cmd'.name = cmd.name /\ cmd'.target = cmd.target
      /\ cmd'.before = cmd.before /\ cmd'.active = cmd.active
    BY <1>1 DEF SameTask
<1>3. n \in BeforeQuiesce
    <2>1. n \notin BeforeQuiesce => Preceded(n, "quiesce", todo)
        BY DEF Pending
    <2>2. n # "quiesce" /\ Preceded(n, "quiesce", todo) => Head(todo)[1] # n
        BY <1>1, OrderKept
    <2> QED
        BY <2>1, <2>2 DEF BeforeQuiesce
<1>4. /\ ~ Has(Tail(todo), "resume")
      /\ Preceded("run", "define", Tail(todo))
      /\ Followed("stop", "run", Tail(todo))
    BY <1>1, <1>3, OrderKept DEF Pending, BeforeQuiesce
<1>5. CASE n = "quiesce"
    <2>1. ~ Has(Tail(todo), "quiesce") /\ Has(Tail(todo), "run")
        BY <1>1, <1>5, OrderKept DEF Pending
    <2>2. OneHome
        BY <1>5 DEF Pending
    <2>3. cmd'.restore <=> service.running # None
        BY <1>1, <1>5, QuiesceSees DEF Pending
    <2>4. service'.def = service.def /\ service'.running \in {None, service.running}
        BY <1>1, <1>5
    <2> HIDE DEF n
    <2>5. OneHome'
        BY <1>2, <2>2, <2>4 DEF OneHome
    <2>6. /\ cmd'.before # None => cmd'.restore
          /\ cmd'.restore => service'.def = cmd'.target
        BY <1>2, <2>2, <2>3, <2>4 DEF Pending, OneHome
    <2>7. ~ cmd'.failed /\ ~ cmd'.denied /\ ~ cmd'.restoring
        BY <1>1 DEF Pending
    <2> QED
        BY <1>1, <1>4, <2>1, <2>5, <2>6, <2>7 DEF Replacing
<1>6. CASE n \in {"check", "plan"}
    <2>1. service' = service
        <3>1. service' = Effect(Head(todo))
            BY Succeeded
        <3> QED
            BY <1>6, <3>1 DEF Effect
    <2>2. /\ Has(Tail(todo), "quiesce")
          /\ Past("quiesce", "quiesce", Tail(todo))
          /\ Followed("quiesce", "run", Tail(todo))
        BY <1>1, <1>6, OrderKept DEF Pending
    <2>3. ASSUME NEW x, x \notin BeforeQuiesce PROVE Preceded(x, "quiesce", Tail(todo))
        BY <1>1, <1>6, <2>3, OrderKept DEF Pending
    <2>4. OneHome
        <3>1. CASE n = "check"
            <4>1. Head(todo) = <<"check", cmd.target>>
                BY <1>1, <3>1, SetupAims
            <4>2. /\ ~ Status.fallback
                  /\ service.def # None /\ service.saved # None =>
                        service.saved = cmd.target
                BY <4>1, CheckPassed
            <4>3. platform \in Platforms
                BY DEF Typed, ServiceTyped
            <4>4. service.saved = None =>
                     ~ (Windows /\ service.fallback # None /\ service.runKey)
                BY <4>2, <4>3, StatusSays DEF Pending
            <4> QED
                BY <4>2, <4>4 DEF Pending, OneHome
        <3>2. CASE n = "plan"
            BY <3>2 DEF Pending
        <3> QED
            BY <1>6, <3>1, <3>2
    <2>5. OneHome'
        BY <1>2, <2>1, <2>4 DEF OneHome
    <2>6. ~ cmd'.failed /\ ~ cmd'.denied /\ ~ cmd'.restoring /\ ~ cmd'.restore
        BY <1>1, <1>6 DEF Pending
    <2>7. Pending'
        BY <1>1, <1>2, <1>4, <2>1, <2>2, <2>3, <2>5, <2>6 DEF Pending
    <2> QED
        BY <2>7
<1> QED
    BY <1>3, <1>5, <1>6 DEF BeforeQuiesce

\* Until it has started a collector, setup has still a call that starts one.
LEMMA ReplacingCall ==
    ASSUME Typed, Succeed, cmd.name = "setup", foreground = None, Replacing
    PROVE  Replacing'
<1> DEFINE n == Head(todo)[1]
<1>1. /\ todo # <<>> /\ todo' = Tail(todo)
      /\ SameTask
      /\ cmd'.failed = cmd.failed /\ cmd'.denied = cmd.denied
      /\ cmd'.restoring = cmd.restoring
      /\ IF n = "quiesce"
         THEN cmd'.restore = stopCollectorForLedgerInitialization
         ELSE IF n = "resume" /\ ~ cmd.restoring THEN cmd'.restore = FALSE
         ELSE cmd'.restore = cmd.restore
      /\ service'.def = (IF n = "define"
                         THEN IF cmd.restoring THEN cmd.active ELSE cmd.target
                         ELSE service.def)
      /\ n \in {"run", "resume"} =>
            service'.running = (IF service.running = None THEN service.def
                                ELSE service.running)
      /\ n \in {"stop", "quiesce"} => service'.running \in {None, service.running}
      /\ n \notin {"run", "resume", "stop", "quiesce"} =>
            service'.running = service.running
    BY SetupCall
<1>2. /\ cmd'.name = cmd.name /\ cmd'.target = cmd.target
      /\ cmd'.before = cmd.before /\ cmd'.active = cmd.active
    BY <1>1 DEF SameTask
<1>3. n \notin {"quiesce", "resume"}
    BY <1>1, HeadIsLeft DEF Replacing
<1>4. n = "run" => service.def = cmd.target
    BY <1>1, OrderKept DEF Replacing
<1>5. n = "stop" => Has(todo', "run")
    BY <1>1, OrderKept DEF Replacing
<1>6. /\ ~ Has(todo', "quiesce") /\ ~ Has(todo', "resume")
      /\ Followed("stop", "run", todo')
    BY <1>1, OrderKept DEF Replacing
<1>7. Preceded("run", "define", todo) => n = "define" \/ Preceded("run", "define", todo')
    BY <1>1, OrderKept
<1>8. Has(todo, "run") => n = "run" \/ Has(todo', "run")
    BY <1>1, OrderKept
<1> HIDE DEF n
<1>9. ~ cmd'.failed /\ ~ cmd'.denied /\ ~ cmd'.restoring /\ cmd'.restore = cmd.restore
    BY <1>1, <1>3 DEF Replacing
<1>10. service'.def = IF n = "define" THEN cmd.target ELSE service.def
    BY <1>1 DEF Replacing
<1>11. n = "run" => service'.running = cmd.target
    BY <1>1, <1>4 DEF Replacing, OneHome
<1>12. OneHome'
    BY <1>1, <1>2, <1>3, <1>10, <1>11 DEF Replacing, OneHome
<1>13. service'.def = cmd.target \/ Preceded("run", "define", todo')
    BY <1>7, <1>10 DEF Replacing
<1>14. service'.running = cmd.target \/ Has(todo', "run")
    BY <1>1, <1>3, <1>5, <1>8, <1>11 DEF Replacing
<1>15. /\ cmd'.before # None => cmd'.restore
       /\ cmd'.restore => service'.def = cmd'.target
    BY <1>2, <1>9, <1>10 DEF Replacing
<1> QED
    BY <1>2, <1>6, <1>9, <1>12, <1>13, <1>14, <1>15 DEF Replacing

LEMMA DeclinedCall ==
    ASSUME Typed, Succeed, cmd.name = "setup", foreground = None, Declined
    PROVE  Declined'
<1> DEFINE n == Head(todo)[1]
<1>1. /\ todo # <<>> /\ todo' = Tail(todo)
      /\ SameTask
      /\ cmd'.failed = cmd.failed /\ cmd'.denied = cmd.denied
      /\ cmd'.restoring = cmd.restoring
      /\ IF n = "quiesce"
         THEN cmd'.restore = stopCollectorForLedgerInitialization
         ELSE IF n = "resume" /\ ~ cmd.restoring THEN cmd'.restore = FALSE
         ELSE cmd'.restore = cmd.restore
      /\ service'.def = (IF n = "define"
                         THEN IF cmd.restoring THEN cmd.active ELSE cmd.target
                         ELSE service.def)
      /\ n \in {"run", "resume"} =>
            service'.running = (IF service.running = None THEN service.def
                                ELSE service.running)
      /\ n \notin {"run", "resume", "stop", "quiesce"} =>
            service'.running = service.running
    BY SetupCall
<1>2. /\ cmd'.name = cmd.name /\ cmd'.target = cmd.target
      /\ cmd'.before = cmd.before /\ cmd'.active = cmd.active
    BY <1>1 DEF SameTask
<1>3. n \in {"resume", "adapters"}
    BY <1>1, HeadIsLeft DEF Declined
<1>4. Has(todo, "resume") => n = "resume" \/ Has(todo', "resume")
    BY <1>1, OrderKept
<1>5. ASSUME NEW x, Has(todo', x) PROVE x \in {"resume", "adapters"}
    BY <1>1, <1>5, OrderKept DEF Declined
<1> HIDE DEF n
<1>6. service'.def = service.def
    BY <1>1, <1>3
<1>7. OneHome'
    BY <1>1, <1>2, <1>3, <1>6 DEF Declined, OneHome
<1>8. /\ ~ cmd'.failed /\ cmd'.denied /\ ~ cmd'.restoring
      /\ cmd'.restore => service'.def = cmd'.target
    BY <1>1, <1>2, <1>3, <1>6 DEF Declined
<1>9. cmd'.before # None => \/ service'.running = cmd'.target
                            \/ cmd'.restore /\ Has(todo', "resume")
    BY <1>1, <1>2, <1>3, <1>4, <1>6 DEF Declined, OneHome
<1> QED
    BY <1>5, <1>7, <1>8, <1>9 DEF Declined

LEMMA RestoringCall ==
    ASSUME Typed, Succeed, cmd.name = "setup", foreground = None, Restoring
    PROVE  Restoring'
<1> DEFINE n == Head(todo)[1]
<1>1. /\ todo # <<>> /\ todo' = Tail(todo)
      /\ SameTask
      /\ cmd'.failed = cmd.failed /\ cmd'.restoring = cmd.restoring
      /\ cmd'.unrestored = cmd.unrestored
      /\ service'.def = (IF n = "define"
                         THEN IF cmd.restoring THEN cmd.active ELSE cmd.target
                         ELSE service.def)
      /\ n \in {"run", "resume"} =>
            service'.running = (IF service.running = None THEN service.def
                                ELSE service.running)
      /\ n \in {"stop", "quiesce"} => service'.running \in {None, service.running}
      /\ n \notin {"run", "resume", "stop", "quiesce"} =>
            service'.running = service.running
    BY SetupCall
<1>2. /\ cmd'.name = cmd.name /\ cmd'.target = cmd.target
      /\ cmd'.before = cmd.before /\ cmd'.active = cmd.active
    BY <1>1 DEF SameTask
<1>3. n # "quiesce"
    BY <1>1, SetupAims DEF Restoring, Initializing
<1>4. /\ Has(todo, "run") => n = "run" \/ Has(todo', "run")
      /\ Has(todo, "resume") => n = "resume" \/ Has(todo', "resume")
    BY <1>1, OrderKept
<1>5. Followed("stop", "run", todo') /\ (n = "stop" => Has(todo', "run"))
    BY <1>1, OrderKept DEF Restoring
<1> HIDE DEF n
<1>6. service'.def = cmd.target
    BY <1>1 DEF Restoring, OneHome
<1>7. n \in {"run", "resume"} => service'.running = cmd.target
    BY <1>1 DEF Restoring, OneHome
<1>8. OneHome'
    BY <1>1, <1>2, <1>3, <1>6, <1>7 DEF Restoring, OneHome
<1>9. \/ cmd'.unrestored \/ service'.running = cmd'.target
      \/ Has(todo', "run") \/ Has(todo', "resume")
    BY <1>1, <1>2, <1>3, <1>4, <1>5, <1>7 DEF Restoring
<1> QED
    BY <1>1, <1>2, <1>5, <1>6, <1>8, <1>9 DEF Restoring

Phases == Pending \/ Replacing \/ Declined \/ Restoring \/ Over

\* A call that fails ends the setup, or makes it restart what it stopped.
LEMMA SetupErrs ==
    ASSUME Typed, Errs, service' = service, cmd.name = "setup", Phases
    PROVE  Restoring' \/ Over'
<1>1. todo # <<>> /\ Abort
    BY DEF Errs
<1>2. /\ SameTask
      /\ cmd'.denied = cmd.denied /\ cmd'.failed = TRUE
      /\ IF cmd.restore /\ ~ cmd.restoring
         THEN /\ cmd'.restoring = TRUE /\ cmd'.unrestored = cmd.unrestored
              /\ todo' = restartManagedCollector(cmd.active)
         ELSE /\ cmd'.restoring = cmd.restoring
              /\ cmd'.unrestored = cmd.restoring
              /\ todo' = <<>>
    BY <1>1, Aborted
<1>3. /\ cmd'.name = cmd.name /\ cmd'.target = cmd.target
      /\ cmd'.before = cmd.before /\ cmd'.active = cmd.active
    BY <1>2 DEF SameTask
<1>4. OneHome => OneHome'
    BY <1>3 DEF OneHome
<1>5. CASE cmd.restore /\ ~ cmd.restoring
    <2>1. platform \in Platforms
        BY DEF Typed, ServiceTyped
    <2>2. Has(todo', "run") /\ Followed("stop", "run", todo')
        BY <1>2, <1>5, <2>1, RestartPlan DEF StartScript
    <2>3. OneHome /\ service.def = cmd.target
        BY <1>1, <1>5 DEF Phases, Pending, Replacing, Declined, Restoring, Over
    <2> QED
        BY <1>2, <1>3, <1>4, <1>5, <2>2, <2>3 DEF Restoring
<1>6. CASE ~ cmd.restoring /\ ~ cmd.restore
    <2>1. cmd.before # None => service.running = cmd.before
        BY <1>1, <1>6 DEF Phases, Pending, Replacing, Declined, Restoring, Over, OneHome
    <2> QED
        BY <1>2, <1>3, <1>6, <2>1 DEF Over
<1>7. CASE cmd.restoring
    <2>1. Restoring
        BY <1>7 DEF Phases, Pending, Replacing, Declined, Over
    <2>2. Followed("stop", "run", todo') /\ cmd'.unrestored /\ cmd'.restoring
        BY <1>2, <1>7, NoCalls
    <2> QED
        BY <1>2, <1>3, <1>4, <2>1, <2>2 DEF Restoring
<1> QED
    BY <1>5, <1>6, <1>7

\* A definition that is refused.
LEMMA SetupDenied ==
    ASSUME Typed, Deny, cmd.name = "setup", Phases
    PROVE  Declined' \/ Restoring'
<1>1. /\ todo # <<>> /\ Head(todo)[1] = "define"
      /\ SameTask
      /\ cmd'.restore = cmd.restore /\ cmd'.restoring = cmd.restoring
      /\ \/ /\ cmd.name = "restart" \/ cmd.restoring
            /\ cmd'.denied = cmd.denied
            /\ \/ cmd'.failed = cmd.failed /\ cmd'.unrestored = cmd.unrestored
               \/ cmd'.failed = TRUE /\ cmd'.unrestored = cmd.restoring
         \/ /\ cmd.name = "setup" /\ ~ cmd.restoring
            /\ cmd'.denied = TRUE
            /\ cmd'.failed = cmd.failed /\ cmd'.unrestored = cmd.unrestored
    BY DefinitionDenied
<1>2. service' = service
    BY Zenon DEF Deny
<1>3. /\ cmd'.name = cmd.name /\ cmd'.target = cmd.target
      /\ cmd'.before = cmd.before /\ cmd'.active = cmd.active
    BY <1>1 DEF SameTask
<1>4. OneHome => OneHome'
    BY <1>2, <1>3 DEF OneHome
<1>5. /\ \A x : Has(todo', x) => x \in {"resume", "adapters"}
      /\ cmd.restoring \/ cmd.restore => Has(todo', "resume")
    BY DeniedCalls
<1>6. ~ Pending
    <2>1. "define" \notin BeforeQuiesce
        BY DEF BeforeQuiesce
    <2>2. "define" # "quiesce" /\ ~ Preceded("define", "quiesce", todo)
        BY <1>1, OrderKept
    <2> QED
        BY <2>1, <2>2 DEF Pending
<1>7. ~ Declined
    BY <1>1, HeadIsLeft DEF Declined
<1>8. CASE Replacing
    BY <1>1, <1>2, <1>3, <1>4, <1>5, <1>8 DEF Replacing, Declined
<1>9. CASE Restoring
    <2>1. Followed("stop", "run", todo')
        <3>1. ~ Has(todo', "stop")
            BY <1>5
        <3> QED
            BY <3>1, Lacks
    <2>2. cmd'.failed /\ cmd'.restoring /\ Has(todo', "resume")
        BY <1>1, <1>5, <1>9 DEF Restoring
    <2> QED
        BY <1>2, <1>3, <1>4, <1>9, <2>1, <2>2 DEF Restoring
<1> QED
    BY <1>1, <1>6, <1>7, <1>8, <1>9 DEF Phases, Over

LEMMA CourseStep ==
    ASSUME Typed, Course, [Next]_vars
    PROVE  Course'
<1> SUFFICES ASSUME cmd'.name = "setup", cmd'.settled
             PROVE  foreground' = None /\ Phases'
    BY DEF Course, Phases
<1>1. ASSUME cmd.name = "setup", cmd.settled PROVE foreground = None /\ Phases
    BY <1>1 DEF Course, Phases
<1>2. ASSUME NEW name \in CommandsAsked, NEW target \in Targets, Begin(name, target)
      PROVE  foreground' = None /\ Phases'
    <2>1. name = "setup"
        BY <1>2, Begun
    <2> QED
        BY <1>2, <2>1, SetupBegins DEF Phases
<1>3. CASE Succeed
    <2>1. /\ SameTask /\ cmd'.settled = cmd.settled /\ todo # <<>>
          /\ foreground' = foreground
        BY <1>3, Succeeded
    <2>2. cmd.name = "setup" /\ foreground = None /\ Phases
        BY <1>1, <2>1 DEF SameTask
    <2> QED
        BY <1>3, <2>1, <2>2, PendingCall, ReplacingCall, DeclinedCall, RestoringCall
           DEF Phases, Over
<1>4. CASE Errs /\ service' = service /\ foreground' = foreground
    <2>1. Abort
        BY <1>4 DEF Errs
    <2>2. SameTask /\ cmd'.settled = cmd.settled
        BY <2>1, Aborted
    <2>3. cmd.name = "setup" /\ foreground = None /\ Phases
        BY <1>1, <2>2 DEF SameTask
    <2> QED
        BY <1>4, <2>3, SetupErrs DEF Phases
<1>5. CASE Skips
    <2>1. SameTask /\ todo # <<>> /\ Head(todo)[1] = "unadapt"
        BY <1>5, SkippedCall DEF Skipped
    <2>2. cmd.name = "setup"
        BY <2>1 DEF SameTask
    <2> QED
        BY <2>1, <2>2, SetupAims
<1>6. CASE Deny
    <2>1. SameTask /\ cmd'.settled = cmd.settled
        BY <1>6, DefinitionDenied
    <2>2. foreground' = foreground
        BY <1>6, Zenon DEF Deny
    <2>3. cmd.name = "setup" /\ foreground = None /\ Phases
        BY <1>1, <2>1 DEF SameTask
    <2> QED
        BY <1>6, <2>2, <2>3, SetupDenied DEF Phases
<1>7. CASE Ends
    BY <1>7 DEF Ends, NoCommand
<1>8. CASE Idles
    <2>1. /\ todo' = todo /\ service' = service /\ cmd' = cmd
          /\ foreground' \in {foreground, None}
        BY <1>8, IdleStep DEF Idled
    <2>2. foreground = None /\ Phases
        BY <1>1, <2>1
    <2>3. platform' = platform
        BY PlatformStays
    <2> QED
        BY <2>1, <2>2, <2>3 DEF Phases, Pending, Replacing, Declined, Restoring, Over,
                                OneHome, Windows
<1> QED
    BY <1>2, <1>3, <1>4, <1>5, <1>6, <1>7, <1>8, StepKinds, Zenon

\* A setup that fails after it stopped the collector, and could restart it,
\* leaves running what ran before; one that succeeds leaves the collector it
\* was asked for, or after a policy denial the one that ran before.
THEOREM SetupsKeepRunning == Spec => []SetupKeepsCollectorRunning
<1>1. Init => Typed /\ Course
    <2>1. ASSUME Init PROVE cmd = NoCommand
        BY <2>1, Zenon DEF Init
    <2>2. NoCommand.name # "setup"
        BY DEF NoCommand
    <2> QED
        BY <2>1, <2>2, InitTyped DEF Course
<1>2. Typed /\ Course /\ [Next]_vars => (Typed /\ Course)'
    BY ServiceTypedStep, CommandTypedStep, CourseStep DEF Typed
<1>3. ASSUME Course PROVE SetupKeepsCollectorRunning
    <2> SUFFICES ASSUME cmd.name = "setup", todo = <<>>, ~ cmd.unrestored, cmd.settled
                 PROVE  IF cmd.failed \/ cmd.denied
                        THEN cmd.before # None => service.running = cmd.before
                        ELSE service.running = cmd.target
        BY DEF SetupKeepsCollectorRunning, Finished
    <2>1. ~ Has(todo, "quiesce") /\ ~ Has(todo, "run") /\ ~ Has(todo, "resume")
        BY NoCalls
    <2>2. Pending \/ Replacing \/ Declined \/ Restoring \/ Over
        BY <1>3 DEF Course
    <2> QED
        BY <2>1, <2>2 DEF Pending, Replacing, Declined, Restoring, Over, OneHome
<1> QED
    BY <1>1, <1>2, <1>3, PTL DEF Spec

=============================================================================
