------------------------------ MODULE HostProofs ------------------------------
(***************************************************************************)
(* Proofs about the parts of MCHost, for all values of their constants.    *)
(***************************************************************************)
EXTENDS MCHost, SequenceTheorems, FiniteSetTheorems, WellFoundedInduction, TLAPS

-----------------------------------------------------------------------------
(* Settings: what a command knows of the file it is to rewrite.            *)

ConfigType == [exists : BOOLEAN, sid : Nat, of : Wants, form : [Domains -> Forms]]
Updating == Domains \cup {"replace"}
Begun == Updating \cup {"reload", "apply", "failed"}
ShellPlaces == {"idle", "lock", "inside", "identify", "refused"} \cup Begun
ShellType ==
  [at : ShellPlaces, wants : Wants, left : SUBSET Domains, found : ConfigType,
   read : ConfigType, runs : BOOLEAN, alone : BOOLEAN]

\* The lock of init: one process at a time looks for an identity and writes one.
InitLocked ==
  \A c, x \in Shells :
    shell[c].at \in {"inside", "identify"} /\ shell[x].at \in {"inside", "identify"} => c = x

\* Who is about to write an identity has seen that there is none; who rewrites an interval has
\* read the one there is, and has been asked for nothing that does not parse.
Knows(c) ==
  /\ ShellAt(c, "identify") => minted = 0
  /\ shell[c].at \in Updating \cup {"reload"} => minted = 1
  /\ shell[c].at \in Domains => shell[c].at = NextOf(shell[c].left)
  /\ ShellAt(c, "replace") => shell[c].read.sid = 1 /\ shell[c].left # {}
  /\ ShellAt(c, "reload") => shell[c].left = {}
  /\ shell[c].at \in Begun =>
       /\ shell[c].left \subseteq Asked(shell[c].wants)
       /\ \A d \in Domains : shell[c].wants[d] # "bad"

\* What becomes of the form of an interval that is rewritten.
Reformed(form) == CASE form = "none" -> "table" [] form = "inline" -> "doubled" [] OTHER -> form

\* The file now is the file then, in which the intervals of those domains were rewritten.
RewrittenIn(now, then, domains, wants) ==
  /\ Parses(then) /\ now.exists = then.exists /\ now.sid = then.sid
  /\ \A d \in Domains :
       /\ now.of[d] = IF d \in domains THEN wants[d] ELSE then.of[d]
       /\ now.form[d] = IF d \in domains THEN Reformed(then.form[d]) ELSE then.form[d]

\* While nobody else writes, the file is what the command found with what it has written.
KeepsWhatItFound(c) ==
  shell[c].alone =>
    /\ ShellAt(c, "refused") => config = shell[c].found
    /\ shell[c].at \in Begun =>
         /\ RewrittenIn(config, shell[c].found, Written(c), shell[c].wants)
         /\ "collection" \in shell[c].left => Written(c) = {}
    /\ ShellAt(c, "replace") => shell[c].read = config
    /\ ShellAt(c, "apply") => shell[c].left = {} /\ Parses(config)

SettingsInv ==
  /\ shell \in [Shells -> ShellType] /\ config \in ConfigType
  /\ minted \in {0, 1} /\ config.sid = minted
  /\ InitLocked /\ \A c \in Shells : Knows(c) /\ KeepsWhatItFound(c)

\* Nothing has been generated, and no command is in progress.
LEMMA SettingsBegin == SettingsInit => SettingsInv
  <1> SUFFICES ASSUME SettingsInit PROVE SettingsInv
    OBVIOUS
  <1>1. Absent \in ConfigType /\ Absent.sid = 0 /\ NoWants \in Wants
    BY SettingsAssumption DEF Absent, ConfigType, Wants, NoWants, Forms
  <1>2. config \in ConfigType /\ config.sid = 0
    <2>1. \A f \in [Domains -> {"none", "inline"}] : f \in [Domains -> Forms]
      BY DEF Forms
    <2> HIDE DEF Absent
    <2>2. \A f \in [Domains -> {"none", "inline"}] :
            LET its == [Absent EXCEPT !.exists = TRUE, !.form = f]
            IN  its \in ConfigType /\ its.sid = 0
      BY <1>1, <2>1 DEF ConfigType
    <2>3. CASE config # Absent
      <3>1. PICK f \in [Domains -> {"none", "inline"}] :
              config = [Absent EXCEPT !.exists = TRUE, !.form = f]
        BY <2>3 DEF SettingsInit
      <3> QED
        BY <2>2, <3>1
    <2> QED
      BY <1>1, <2>3
  <1>3. Quiet \in ShellType /\ Quiet.at = "idle" /\ ~Quiet.alone
    BY <1>1 DEF Quiet, ShellType, ShellPlaces
  <1> HIDE DEF Quiet, Absent
  <1> QED
    BY <1>2, <1>3
       DEF SettingsInit, SettingsInv, InitLocked, Knows, KeepsWhatItFound, ShellAt, Begun, Updating,
           Domains

\* Nothing has been asked for, or read.
LEMMA QuietIs == Quiet \in ShellType /\ Quiet.at = "idle" /\ ~Quiet.alone /\ Absent \in ConfigType
  <1>1. Absent \in ConfigType /\ NoWants \in Wants
    BY SettingsAssumption DEF Absent, ConfigType, Wants, NoWants, Forms
  <1> HIDE DEF Absent, NoWants
  <1> QED
    BY <1>1 DEF Quiet, ShellType, ShellPlaces

\* Who is disturbed stays where it is, and is no longer alone.
LEMMA DisturbedIs ==
  ASSUME NEW x \in Shells, shell[x] \in ShellType
  PROVE  /\ Disturbed(x) \in ShellType /\ ~Disturbed(x).alone
         /\ Disturbed(x).at = shell[x].at /\ Disturbed(x).wants = shell[x].wants
         /\ Disturbed(x).left = shell[x].left /\ Disturbed(x).read = shell[x].read
  <1>1. Absent \in ConfigType
    BY QuietIs
  <1> HIDE DEF Absent
  <1> QED
    BY <1>1 DEF Disturbed, ShellType

\* A command that takes a step without touching the file disturbs no other.
LEMMA ShellStep ==
  ASSUME SettingsInv, NEW c \in Shells, NEW new \in ShellType, UNCHANGED <<config, minted>>,
         \/ shell' = [shell EXCEPT ![c] = new]
         \/ shell' = [x \in Shells |-> IF x = c THEN new ELSE Disturbed(x)],
         new.at \in {"inside", "identify"} =>
           \A x \in Shells \ {c} : shell[x].at \notin {"inside", "identify"},
         shell'[c] = new => Knows(c)' /\ KeepsWhatItFound(c)'
  PROVE  SettingsInv'
  <1>1. shell'[c] = new /\ shell' \in [Shells -> ShellType]
    <2>1. \A x \in Shells : Disturbed(x) \in ShellType
      BY DisturbedIs DEF SettingsInv
    <2>2. shell \in [Shells -> ShellType]
      BY DEF SettingsInv
    <2> QED
      BY <2>1, <2>2
  <1>2. ASSUME NEW x \in Shells \ {c}
        PROVE  /\ shell'[x].at = shell[x].at /\ shell'[x].wants = shell[x].wants
               /\ shell'[x].left = shell[x].left /\ shell'[x].read = shell[x].read
               /\ shell'[x].alone => shell'[x] = shell[x]
    BY DisturbedIs DEF SettingsInv
  <1>3. \A x \in Shells \ {c} : Knows(x)' /\ KeepsWhatItFound(x)'
    <2>1. ASSUME NEW x \in Shells \ {c} PROVE Knows(x)'
      BY <1>2 DEF SettingsInv, Knows, ShellAt
    <2>2. ASSUME NEW x \in Shells \ {c} PROVE KeepsWhatItFound(x)'
      <3> SUFFICES ASSUME shell'[x].alone PROVE KeepsWhatItFound(x)'
        BY DEF KeepsWhatItFound
      <3>1. shell'[x] = shell[x] /\ UNCHANGED config /\ KeepsWhatItFound(x)
        BY <1>2 DEF SettingsInv
      <3> QED
        BY <3>1 DEF KeepsWhatItFound, ShellAt, Written
    <2> QED
      BY <2>1, <2>2
  <1>4. InitLocked'
    BY <1>1, <1>2 DEF SettingsInv, InitLocked
  <1> QED
    BY <1>1, <1>3, <1>4 DEF SettingsInv

\* A command that writes the file takes note of it for all: no other is alone any more.
LEMMA WriteStep ==
  ASSUME SettingsInv, NEW c \in Shells, NEW new \in ShellType,
         config' \in ConfigType, minted' \in {0, 1}, config'.sid = minted', minted' >= minted,
         shell' = [x \in Shells |-> IF x = c THEN new ELSE Disturbed(x)],
         new.at \notin {"inside", "identify"},
         minted' # minted => \A x \in Shells \ {c} : ~ShellAt(x, "identify"),
         shell'[c] = new => Knows(c)' /\ KeepsWhatItFound(c)'
  PROVE  SettingsInv'
  <1>1. shell'[c] = new /\ shell' \in [Shells -> ShellType]
    <2>1. \A x \in Shells : Disturbed(x) \in ShellType
      BY DisturbedIs DEF SettingsInv
    <2> QED
      BY <2>1
  <1>2. ASSUME NEW x \in Shells \ {c}
        PROVE  /\ shell'[x].at = shell[x].at /\ shell'[x].wants = shell[x].wants
               /\ shell'[x].left = shell[x].left /\ shell'[x].read = shell[x].read
               /\ ~shell'[x].alone
    BY DisturbedIs DEF SettingsInv
  <1>3. \A x \in Shells \ {c} : Knows(x)' /\ KeepsWhatItFound(x)'
    <2>1. ASSUME NEW x \in Shells \ {c} PROVE Knows(x)'
      BY <1>2 DEF SettingsInv, Knows, ShellAt
    <2>2. ASSUME NEW x \in Shells \ {c} PROVE KeepsWhatItFound(x)'
      BY <1>2 DEF KeepsWhatItFound
    <2> QED
      BY <2>1, <2>2
  <1>4. InitLocked'
    BY <1>1, <1>2 DEF SettingsInv, InitLocked
  <1> QED
    BY <1>1, <1>3, <1>4 DEF SettingsInv

\* Both commands begin with nothing read, and an update only of a file with an identity.
LEMMA BeginsStep ==
  ASSUME SettingsInv, NEW c \in Shells,
         \/ BeginSetup(c)
         \/ \E wants \in Wants, runs \in BOOLEAN : BeginUpdate(c, wants, runs)
  PROVE  SettingsInv'
  <1>1. Quiet \in ShellType /\ Absent \in ConfigType /\ UNCHANGED <<config, minted>>
    BY QuietIs DEF BeginSetup, BeginUpdate
  <1>2. CASE BeginSetup(c)
    <2> DEFINE new == [Quiet EXCEPT !.at = "lock"]
    <2>1. new \in ShellType /\ new.at = "lock" /\ ~new.alone
      BY <1>1, QuietIs DEF ShellType, ShellPlaces
    <2>2. shell' = [x \in Shells |-> IF x = c THEN new ELSE Disturbed(x)]
      BY <1>2 DEF BeginSetup, Disturbs
    <2> HIDE DEF new
    <2> QED
      BY <1>1, <2>1, <2>2, ShellStep DEF Knows, KeepsWhatItFound, ShellAt, Begun, Updating, Domains
  <1>3. ASSUME NEW wants \in Wants, NEW runs \in BOOLEAN, BeginUpdate(c, wants, runs)
        PROVE  SettingsInv'
    <2> DEFINE place(available) ==
                 IF ~(Loads(wants) /\ available) THEN "refused"
                 ELSE IF Asked(wants) = {} THEN "apply" ELSE NextOf(Asked(wants))
               new(available, alone) ==
                 [Quiet EXCEPT !.at = place(available), !.wants = wants, !.left = Asked(wants),
                               !.runs = runs, !.found = IF alone THEN config ELSE Absent,
                               !.alone = alone]
    <2>1. PICK available \in BOOLEAN, alone \in BOOLEAN :
            shell' = [x \in Shells |-> IF x = c THEN new(available, alone) ELSE Disturbed(x)]
      <3> DEFINE alone == \A x \in Shells : ShellAt(x, "idle")
      <3>1. PICK available \in {TRUE, runs \/ Asked(wants) = {}} :
              shell' = [x \in Shells |-> IF x = c THEN new(available, alone) ELSE Disturbed(x)]
        BY <1>3 DEF BeginUpdate, Disturbs
      <3> HIDE DEF new
      <3>2. alone \in BOOLEAN /\ available \in BOOLEAN
        OBVIOUS
      <3> QED
        BY <3>1, <3>2
    <2> DEFINE at == place(available)
               it == new(available, alone)
    <2>2. config \in ConfigType /\ Asked(wants) \in SUBSET Domains
      BY DEF SettingsInv, Asked
    <2>3. at \in ShellPlaces \ {"inside", "identify", "replace", "reload", "failed"}
      BY <2>2 DEF NextOf, ShellPlaces, Updating, Begun, Domains
    <2>4. /\ at \in Begun => Loads(wants)
          /\ at \in Domains => at = NextOf(Asked(wants))
          /\ at = "apply" => Asked(wants) = {}
      BY DEF NextOf, Begun, Updating, Domains
    <2>5. /\ it \in ShellType /\ it.at = at /\ it.wants = wants /\ it.left = Asked(wants)
          /\ it.found = (IF alone THEN config ELSE Absent) /\ it.alone = alone
      <3> HIDE DEF place, Quiet, Absent
      <3>1. place(available) \in ShellPlaces
        BY <2>3
      <3> QED
        BY <1>1, <2>2, <3>1 DEF ShellType
    <2> HIDE DEF place, new, at, it
    <2>6. shell'[c] = it => Knows(c)' /\ KeepsWhatItFound(c)'
      <3> SUFFICES ASSUME shell'[c] = it PROVE Knows(c)' /\ KeepsWhatItFound(c)'
        OBVIOUS
      <3>1. Loads(wants) => minted = 1 /\ Parses(config) /\ \A d \in Domains : wants[d] # "bad"
        BY DEF Loads, SettingsInv
      <3>2. Knows(c)'
        BY <1>1, <2>3, <2>4, <2>5, <3>1 DEF Knows, ShellAt, Updating, Begun
      <3>3. Written(c)' = {}
        BY <2>5 DEF Written
      <3>4. it.at \in Begun => RewrittenIn(config, config, {}, wants)
        BY <2>4, <2>5, <3>1 DEF RewrittenIn
      <3>5. KeepsWhatItFound(c)'
        BY <1>1, <2>3, <2>4, <2>5, <3>1, <3>3, <3>4 DEF KeepsWhatItFound, ShellAt, Begun
      <3> QED
        BY <3>2, <3>5
    <2>7. shell' = [x \in Shells |-> IF x = c THEN it ELSE Disturbed(x)]
      BY <2>1 DEF it
    <2>8. it.at \notin {"inside", "identify"}
      BY <2>3, <2>5
    <2> QED
      BY <1>1, <2>5, <2>6, <2>7, <2>8, ShellStep
  <1> QED
    BY <1>2, <1>3, SMTT(30)

\* Under the lock, a file without an identity gets the only one.
LEMMA SetupSteps ==
  ASSUME SettingsInv, NEW c \in Shells, LocksSetup(c) \/ ReadsForSetup(c) \/ Identifies(c)
  PROVE  SettingsInv'
  <1>1. shell[c] \in ShellType /\ config \in ConfigType /\ c \in DOMAIN shell
    BY DEF SettingsInv
  <1>2. CASE LocksSetup(c)
    <2> DEFINE new == [shell[c] EXCEPT !.at = "inside"]
    <2>1. new \in ShellType /\ new.at = "inside" /\ shell[c].at = "lock" /\ new.alone = shell[c].alone
      BY <1>1, <1>2 DEF ShellType, ShellPlaces, LocksSetup, ShellAt
    <2>2. shell' = [shell EXCEPT ![c] = new] /\ UNCHANGED <<config, minted>>
      BY <1>2 DEF LocksSetup
    <2>3. \A x \in Shells \ {c} : shell[x].at \notin {"inside", "identify"}
      BY <1>2 DEF LocksSetup
    <2> HIDE DEF new
    <2> QED
      BY <2>1, <2>2, <2>3, ShellStep DEF Knows, KeepsWhatItFound, ShellAt, Begun, Updating, Domains
  <1>3. CASE ReadsForSetup(c)
    <2>1. UNCHANGED <<config, minted>> /\ shell[c].at = "inside"
          /\ \A x \in Shells \ {c} : shell[x].at \notin {"inside", "identify"}
      BY <1>3 DEF ReadsForSetup, SettingsInv, InitLocked, ShellAt
    <2>2. CASE config.sid # 0 \/ ~Parses(config)
      <3>1. shell' = [shell EXCEPT ![c] = Quiet]
        BY <1>3, <2>2 DEF ReadsForSetup
      <3> QED
        BY <2>1, <3>1, QuietIs, ShellStep
           DEF Knows, KeepsWhatItFound, ShellAt, Begun, Updating, Domains
    <2>3. CASE ~(config.sid # 0 \/ ~Parses(config))
      <3> DEFINE new == [shell[c] EXCEPT !.at = "identify", !.read = config]
      <3>1. new \in ShellType /\ new.at = "identify"
        BY <1>1 DEF ShellType, ShellPlaces
      <3>2. shell' = [shell EXCEPT ![c] = new]
        BY <1>3, <2>3 DEF ReadsForSetup
      <3>3. minted = 0
        BY <2>3 DEF SettingsInv
      <3> HIDE DEF new
      <3> QED
        BY <2>1, <3>1, <3>2, <3>3, ShellStep
           DEF Knows, KeepsWhatItFound, ShellAt, Begun, Updating, Domains
    <2> QED
      BY <2>2, <2>3
  <1>4. CASE Identifies(c)
    <2>1. shell[c].at = "identify" /\ minted = 0 /\ minted' = 1
      BY <1>4 DEF Identifies, ShellAt, SettingsInv, Knows
    <2> DEFINE content == [shell[c].read EXCEPT !.exists = TRUE, !.sid = minted']
    <2>2. content \in ConfigType /\ content.sid = 1
      BY <1>1, <2>1 DEF ConfigType, ShellType
    <2>3. config' = content
          /\ shell' = [x \in Shells |-> IF x = c THEN Quiet ELSE Disturbed(x)]
      BY <1>4 DEF Identifies, Replace, Disturbs
    <2> HIDE DEF content
    <2>4. \A x \in Shells \ {c} : ~ShellAt(x, "identify")
      BY <2>1 DEF SettingsInv, InitLocked, ShellAt
    <2>5. shell'[c] = Quiet => Knows(c)' /\ KeepsWhatItFound(c)'
      BY QuietIs DEF Knows, KeepsWhatItFound, ShellAt, Begun, Updating, Domains
    <2>6. config' \in ConfigType /\ config'.sid = minted' /\ minted' \in {0, 1} /\ minted' >= minted
      BY <2>1, <2>2, <2>3
    <2>7. Quiet.at \notin {"inside", "identify"}
      BY QuietIs
    <2> QED
      BY <2>3, <2>4, <2>5, <2>6, <2>7, QuietIs, WriteStep
  <1> QED
    BY <1>2, <1>3, <1>4

\* A command goes on to another place, with what it has, or with the file it has just read.
LEMMA GoesOn ==
  ASSUME SettingsInv, NEW c \in Shells, UNCHANGED <<config, minted>>, shell[c].at \in Begun,
         NEW at \in {"replace", "apply", "failed"}, NEW read \in {config, shell[c].read},
         shell' = [shell EXCEPT ![c] = [@ EXCEPT !.at = at, !.read = read]],
         at = "replace" => shell[c].at \in Domains /\ read = config,
         at = "apply" => shell[c].left = {} /\ Parses(config)
  PROVE  SettingsInv'
  <1> DEFINE new == [shell[c] EXCEPT !.at = at, !.read = read]
  <1>1. shell[c] \in ShellType /\ config \in ConfigType /\ c \in DOMAIN shell
        /\ Knows(c) /\ KeepsWhatItFound(c) /\ config.sid = minted
    BY DEF SettingsInv
  <1>2. /\ new \in ShellType /\ new.at = at /\ new.wants = shell[c].wants
        /\ new.left = shell[c].left /\ new.found = shell[c].found
        /\ new.read = read /\ new.alone = shell[c].alone
    BY <1>1 DEF ShellType, ShellPlaces, Begun, Updating
  <1>3. shell' = [shell EXCEPT ![c] = new]
    OBVIOUS
  <1> HIDE DEF new
  <1>4. at \in Begun /\ at \notin {"inside", "identify", "refused", "reload"} \cup Domains
    BY DEF Begun, Updating, Domains
  <1>5. shell'[c] = new => Knows(c)'
    <2>1. at = "replace" => shell[c].left # {} /\ minted = 1
      BY <1>1 DEF Knows, NextOf, Begun, Updating, Domains
    <2> QED
      BY <1>1, <1>2, <1>4, <2>1 DEF Knows, ShellAt, Updating, Begun
  <1>6. shell'[c] = new => KeepsWhatItFound(c)'
    BY <1>1, <1>2, <1>4 DEF KeepsWhatItFound, ShellAt, Written
  <1> QED
    BY <1>2, <1>3, <1>4, <1>5, <1>6, ShellStep

\* What was read is rewritten in one domain more.
LEMMA RewritesOne ==
  ASSUME NEW now, NEW then, NEW domains, NEW d \in Domains \ domains, NEW wants,
         now \in ConfigType, RewrittenIn(now, then, domains, wants)
  PROVE  RewrittenIn(Rewritten(now, d, wants[d]), then, domains \cup {d}, wants)
  <1> DEFINE next == Rewritten(now, d, wants[d])
  <1>1. /\ next.exists = now.exists /\ next.sid = now.sid
        /\ \A e \in Domains :
             /\ next.of[e] = IF e = d THEN wants[d] ELSE now.of[e]
             /\ next.form[e] = IF e = d THEN Reformed(now.form[d]) ELSE now.form[e]
    BY DEF Rewritten, ConfigType, Wants, Reformed
  <1> HIDE DEF next
  <1>2. ASSUME NEW e \in Domains
        PROVE  /\ next.of[e] = IF e \in domains \cup {d} THEN wants[e] ELSE then.of[e]
               /\ next.form[e] = IF e \in domains \cup {d} THEN Reformed(then.form[e])
                                 ELSE then.form[e]
    <2>1. /\ now.of[e] = IF e \in domains THEN wants[e] ELSE then.of[e]
          /\ now.form[e] = IF e \in domains THEN Reformed(then.form[e]) ELSE then.form[e]
      BY DEF RewrittenIn
    <2> QED
      BY <1>1, <2>1
  <1>3. Parses(then) /\ next.exists = then.exists /\ next.sid = then.sid
    BY <1>1 DEF RewrittenIn
  <1> HIDE DEF RewrittenIn
  <1>4. RewrittenIn(next, then, domains \cup {d}, wants)
    BY <1>2, <1>3 DEF RewrittenIn
  <1> QED
    BY <1>4 DEF next

\* What was rewritten parses, but for what was given inline.
LEMMA RewrittenParses ==
  ASSUME NEW now, NEW then, NEW domains \in SUBSET Domains, NEW wants,
         RewrittenIn(now, then, domains, wants)
  PROVE  Parses(now) <=> \A d \in domains : then.form[d] # "inline"
  BY DEF RewrittenIn, Parses, Reformed

\* One domain after the other is read and written, with what was asked for.
LEMMA UpdateSteps ==
  ASSUME SettingsInv, NEW c \in Shells,
         \/ (\E d \in Domains : ReadsToUpdate(c, d)) \/ Updates(c)
         \/ Reloads(c) \/ UpdateFails(c)
  PROVE  SettingsInv'
  <1>1. shell[c] \in ShellType /\ config \in ConfigType /\ c \in DOMAIN shell
        /\ Knows(c) /\ KeepsWhatItFound(c) /\ config.sid = minted
    BY DEF SettingsInv
  <1>2. ASSUME NEW d \in Domains, ReadsToUpdate(c, d) PROVE SettingsInv'
    <2>1. shell[c].at \in Domains /\ UNCHANGED <<config, minted>>
          /\ shell' = [shell EXCEPT ![c] = [@ EXCEPT !.at = "replace", !.read = config]]
      BY <1>2 DEF ReadsToUpdate, ShellAt
    <2> QED
      BY <2>1, GoesOn DEF Begun, Updating
  <1>3. CASE Reloads(c)
    <2> DEFINE at == IF Parses(config) THEN "apply" ELSE "failed"
    <2>1. shell[c].at = "reload" /\ shell[c].left = {} /\ UNCHANGED <<config, minted>>
      BY <1>1, <1>3 DEF Reloads, ShellAt, Knows
    <2>2. shell' = [shell EXCEPT ![c] = [@ EXCEPT !.at = at, !.read = shell[c].read]]
      BY <1>1, <1>3 DEF Reloads, ShellType
    <2>3. at \in {"replace", "apply", "failed"} /\ (at = "apply" => Parses(config)) /\ at # "replace"
      OBVIOUS
    <2> HIDE DEF at
    <2> QED
      BY <2>1, <2>2, <2>3, GoesOn DEF Begun
  <1>4. CASE UpdateFails(c)
    <2>1. shell[c].at \in Begun /\ UNCHANGED <<config, minted>>
      BY <1>4 DEF UpdateFails, Begun, Updating
    <2>2. shell' = [shell EXCEPT ![c] = [@ EXCEPT !.at = "failed", !.read = shell[c].read]]
      BY <1>1, <1>4 DEF UpdateFails, ShellType
    <2> QED
      BY <2>1, <2>2, GoesOn
  <1>5. CASE Updates(c)
    <2> DEFINE d == NextOf(shell[c].left)
               left == shell[c].left \ {d}
               content == Rewritten(shell[c].read, d, shell[c].wants[d])
               new == [shell[c] EXCEPT !.at = NextOf(left), !.left = left]
    <2>1. shell[c].at = "replace" /\ UNCHANGED minted
      BY <1>5 DEF Updates, ShellAt
    <2>2. d \in Domains /\ d \in shell[c].left /\ d \in Asked(shell[c].wants)
      BY <1>1, <2>1 DEF Knows, ShellAt, NextOf, Domains, Updating, Begun, ShellType
    <2>3. config' = content
          /\ shell' = [x \in Shells |-> IF x = c THEN new ELSE Disturbed(x)]
      BY <1>5, <2>2 DEF Updates, Replace, Disturbs
    <2>4. left \in SUBSET Domains
      BY <1>1 DEF ShellType
    <2>5. /\ NextOf(left) \in Domains \cup {"reload"} /\ (NextOf(left) = "reload" <=> left = {})
          /\ "collection" \notin left
      BY <2>4 DEF NextOf, Domains
    <2>6. content \in ConfigType /\ content.sid = shell[c].read.sid
      <3>1. shell[c].wants \in Wants /\ shell[c].read \in ConfigType
        BY <1>1 DEF ShellType
      <3> HIDE DEF d
      <3>2. Reformed(shell[c].read.form[d]) \in Forms /\ shell[c].wants[d] \in Intervals \cup {"keep", "bad"}
        BY <3>1, <2>2 DEF ConfigType, Reformed, Forms, Wants
      <3>3. content = [shell[c].read EXCEPT !.of[d] = shell[c].wants[d],
                                            !.form[d] = Reformed(shell[c].read.form[d])]
        BY <3>1, <2>2 DEF Rewritten, Reformed, ConfigType
      <3> HIDE DEF content
      <3> QED
        BY <3>1, <3>2, <3>3, <2>2 DEF ConfigType, Wants
    <2>7. /\ new \in ShellType /\ new.at = NextOf(left) /\ new.left = left
          /\ new.wants = shell[c].wants /\ new.found = shell[c].found
          /\ new.alone = shell[c].alone
      BY <1>1, <2>4, <2>5 DEF ShellType, ShellPlaces, Updating, Begun
    <2>8. minted = 1 /\ content.sid = 1
      BY <1>1, <2>1, <2>6 DEF Knows, ShellAt, Updating
    <2> HIDE DEF content, new, left, d
    <2>9. left = shell[c].left \ {d}
      BY DEF left, d
    <2>10. shell'[c] = new => Knows(c)'
      <3>1. left \subseteq Asked(shell[c].wants) /\ \A e \in Domains : shell[c].wants[e] # "bad"
        BY <1>1, <2>1, <2>9 DEF Knows, Begun, Updating
      <3> QED
        BY <2>1, <2>5, <2>7, <2>8, <3>1 DEF Knows, ShellAt, Updating, Begun, Domains
    <2>11. shell'[c] = new => KeepsWhatItFound(c)'
      <3> SUFFICES ASSUME shell'[c] = new, new.alone PROVE KeepsWhatItFound(c)'
        BY DEF KeepsWhatItFound
      <3>1. shell[c].read = config /\ RewrittenIn(config, shell[c].found, Written(c), shell[c].wants)
        BY <1>1, <2>1, <2>7 DEF KeepsWhatItFound, ShellAt, Begun, Updating
      <3>2. Written(c)' = Written(c) \cup {d} /\ d \notin Written(c)
        BY <2>2, <2>7, <2>9 DEF Written
      <3>3. RewrittenIn(content, shell[c].found, Written(c) \cup {d}, shell[c].wants)
        BY <1>1, <2>2, <3>1, <3>2, RewritesOne DEF content
      <3>4. new.at \notin {"refused", "replace", "apply"}
        BY <2>5, <2>7 DEF Domains
      <3> QED
        BY <2>3, <2>5, <2>7, <3>2, <3>3, <3>4 DEF KeepsWhatItFound, ShellAt
    <2>12. new.at \notin {"inside", "identify"}
      BY <2>5, <2>7 DEF Domains
    <2>13. config' \in ConfigType /\ config'.sid = minted' /\ minted' \in {0, 1} /\ minted' >= minted
      BY <2>1, <2>3, <2>6, <2>8
    <2> QED
      BY <2>1, <2>3, <2>7, <2>10, <2>11, <2>12, <2>13, WriteStep
  <1> QED
    BY <1>2, <1>3, <1>4, <1>5

\* A step of a command, of the user or of the worker.
LEMMA SettingsSteps == SettingsInv /\ [SettingsNext]_tvars => SettingsInv'
  <1> SUFFICES ASSUME SettingsInv, [SettingsNext]_tvars PROVE SettingsInv'
    OBVIOUS
  <1>1. ASSUME UNCHANGED <<config, minted, shell>> PROVE SettingsInv'
    BY <1>1 DEF SettingsInv, InitLocked, Knows, KeepsWhatItFound, ShellAt, Written
  <1>2. ASSUME NEW c \in Shells, Applies(c) \/ Leave(c) \/ CommandDies(c) PROVE SettingsInv'
    <2>1. shell' = [shell EXCEPT ![c] = Quiet] /\ UNCHANGED <<config, minted>>
      BY <1>2 DEF Applies, Leave, CommandDies
    <2> QED
      BY <2>1, QuietIs, ShellStep DEF Knows, KeepsWhatItFound, ShellAt, Begun, Updating, Domains
  <1>3. CASE UserEdits
    <2>1. PICK d \in Domains, i \in Intervals, f \in {"table", "inline"} :
            config' = [config EXCEPT !.of[d] = i, !.form[d] = f]
      BY <1>3 DEF UserEdits, Replace
    <2>2. config' \in ConfigType /\ config'.sid = config.sid /\ UNCHANGED minted
      BY <1>3, <2>1 DEF UserEdits, SettingsInv, ConfigType, Wants, Forms
    <2>3. shell' = [c \in Shells |-> Disturbed(c)]
      BY <1>3 DEF UserEdits
    <2>4. \A c \in Shells : shell[c] \in ShellType
      BY DEF SettingsInv
    <2>5. \A c \in Shells :
            /\ shell'[c].at = shell[c].at /\ shell'[c].wants = shell[c].wants
            /\ shell'[c].left = shell[c].left /\ shell'[c].read = shell[c].read
            /\ ~shell'[c].alone /\ shell'[c] \in ShellType
      BY <2>3, <2>4, DisturbedIs
    <2>6. shell' \in [Shells -> ShellType]
      BY <2>3, <2>5
    <2> QED
      BY <2>2, <2>5, <2>6 DEF SettingsInv, InitLocked, Knows, KeepsWhatItFound, ShellAt
  <1>4. CASE WorkerStamps \/ WorkerCycles \/ WorkerEnds \/ UNCHANGED tvars
    BY <1>1, <1>4 DEF WorkerStamps, WorkerCycles, WorkerEnds, tvars
  <1> QED
    BY <1>2, <1>3, <1>4, BeginsStep, SetupSteps, UpdateSteps DEF SettingsNext, CommandProceeds

\* The invariant is enough.
LEMMA SettingsHolds == SettingsInv => SettingsHold
  <1> SUFFICES ASSUME SettingsInv PROVE SettingsHold
    OBVIOUS
  <1>1. SourceStands
    BY DEF SettingsInv, SourceStands
  <1>2. ASSUME NEW c \in Shells, shell[c].alone, shell[c].at \in Begun
        PROVE  /\ "bad" \notin {shell[c].wants[d] : d \in Domains}
               /\ "collection" \in shell[c].left => Written(c) = {}
               /\ config.exists = shell[c].found.exists /\ config.sid = shell[c].found.sid
               /\ \A d \in Domains :
                    config.of[d] = IF d \in Written(c) THEN shell[c].wants[d] ELSE shell[c].found.of[d]
               /\ Parses(config) <=> \A d \in Written(c) : shell[c].found.form[d] # "inline"
    <2>1. Knows(c) /\ KeepsWhatItFound(c)
      BY DEF SettingsInv
    <2>2. RewrittenIn(config, shell[c].found, Written(c), shell[c].wants)
      BY <1>2, <2>1 DEF KeepsWhatItFound
    <2>3. Written(c) \in SUBSET Domains
      BY DEF Written, Asked
    <2>4. Parses(config) <=> \A d \in Written(c) : shell[c].found.form[d] # "inline"
      BY <2>2, <2>3, RewrittenParses
    <2> QED
      BY <1>2, <2>1, <2>2, <2>4 DEF Knows, KeepsWhatItFound, RewrittenIn
  <1>3. AskedInOrder
    BY <1>2 DEF AskedInOrder, SettingsInv, KeepsWhatItFound, ShellAt, Begun, Updating
  <1> QED
    BY <1>1, <1>3 DEF SettingsHold

\* The invariant holds in every behaviour.
LEMMA SettingsAlways == SettingsInit /\ [][SettingsNext]_tvars => []SettingsHold
  BY SettingsHolds, SettingsBegin, SettingsSteps, PTL

\* The source gets one identity, however inits, updates and edits overlap, fail or are cut off.
\* A command that is alone writes the intervals it is asked for in order, wherever it fails, and
\* changes nothing else; it is applied once all are written, and the file parses unless one of
\* them was given inline.
THEOREM SettingsAreSafe == SettingsSpec => []SettingsHold
  BY SettingsAlways, PTL DEF SettingsSpec

-----------------------------------------------------------------------------
(* Capture: a pipe that was read to its end, without a failure, is whole.  *)

CaptureTypeOK ==
  /\ process \in {"runs", "exited", "killed"} /\ strays \in BOOLEAN
  /\ written \in [Pipes -> Nat] /\ taken \in [Pipes -> Nat] /\ kept \in [Pipes -> Nat]
  /\ complete \subseteq Pipes /\ torn \subseteq Pipes
  /\ failure \in BOOLEAN /\ cleaning \in BOOLEAN
  /\ capturing \in {"loop", "close", "returned", "raised"}

\* Without a failure all that was read is kept, nothing was killed, and a pipe that has been
\* read to its end is closed, and stays so.
CaptureInv ==
  /\ CaptureTypeOK
  /\ \A p \in Pipes : taken[p] <= written[p]
  /\ cleaning => failure
  /\ process = "killed" => failure
  /\ ~failure =>
       /\ torn = {} /\ \A p \in Pipes : kept[p] = taken[p]
       /\ \A p \in complete : taken[p] = written[p] /\ ~WriterOpen
  /\ capturing = "close" /\ ~failure => complete = Pipes /\ process # "runs"
  /\ capturing = "returned" => ~failure /\ complete = Pipes

\* Nothing is written or read yet.
LEMMA CaptureBegins == CaptureInit => CaptureInv
  <1> SUFFICES ASSUME CaptureInit PROVE CaptureInv
    OBVIOUS
  <1>1. CaptureTypeOK
    BY DEF CaptureInit, CaptureTypeOK
  <1> QED
    BY <1>1 DEF CaptureInit, CaptureInv

\* A step of the command, of its readers or of the deadlines.
LEMMA CaptureSteps == CaptureInv /\ [CaptureNext]_kvars => CaptureInv'
  <1> SUFFICES ASSUME CaptureInv, [CaptureNext]_kvars PROVE CaptureInv'
    OBVIOUS
  <1>1. ASSUME NEW p \in Pipes, Writes(p) PROVE CaptureInv'
    BY <1>1 DEF CaptureInv, CaptureTypeOK, Writes, WriterOpen, ours
  <1>2. CASE Exits
    BY <1>2 DEF CaptureInv, CaptureTypeOK, Exits, WriterOpen, ours
  <1>2a. CASE StraysEnd
    BY <1>2a DEF CaptureInv, CaptureTypeOK, Exits, StraysEnd, WriterOpen, ours
  <1>3. ASSUME NEW p \in Pipes, Reads(p) PROVE CaptureInv'
    <2>1. PICK n \in 1 .. written[p] - taken[p] :
            /\ taken' = [taken EXCEPT ![p] = @ + n]
            /\ kept' = [kept EXCEPT ![p] = IF @ + n > Limit THEN Limit ELSE @ + n]
            /\ failure' = (failure \/ kept[p] + n > Limit)
      BY <1>3 DEF Reads
    <2>2. n \in Nat /\ taken[p] \in Nat /\ written[p] \in Nat /\ kept[p] \in Nat /\ Limit \in Nat
          /\ taken[p] + n <= written[p]
      BY <2>1, CaptureAssumption DEF CaptureInv, CaptureTypeOK
    <2>3. /\ taken' \in [Pipes -> Nat] /\ kept' \in [Pipes -> Nat] /\ failure' \in BOOLEAN
          /\ \A q \in Pipes : taken'[q] <= written[q]
          /\ ~failure' => ~failure /\ \A q \in Pipes : kept'[q] = taken'[q]
      <3>1. taken[p] + n \in Nat /\ (IF kept[p] + n > Limit THEN Limit ELSE kept[p] + n) \in Nat
        BY <2>2
      <3>2. taken \in [Pipes -> Nat] /\ kept \in [Pipes -> Nat]
            /\ \A q \in Pipes : taken[q] <= written[q]
        BY DEF CaptureInv, CaptureTypeOK
      <3>3. taken' \in [Pipes -> Nat] /\ \A q \in Pipes : taken'[q] <= written[q]
        BY <2>1, <2>2, <3>1, <3>2
      <3>4. kept' \in [Pipes -> Nat]
        BY <2>1, <3>1, <3>2
      <3>5. ASSUME ~failure' PROVE ~failure /\ \A q \in Pipes : kept'[q] = taken'[q]
        <4>1. ~failure /\ ~(kept[p] + n > Limit)
          BY <2>1, <3>5
        <4>2. \A q \in Pipes : kept[q] = taken[q]
          BY <4>1 DEF CaptureInv
        <4> QED
          BY <2>1, <3>2, <4>1, <4>2
      <3>6. failure' \in BOOLEAN
        BY <2>1 DEF CaptureInv, CaptureTypeOK
      <3> QED
        BY <3>3, <3>4, <3>5, <3>6
    <2>4. p \notin complete /\ UNCHANGED <<theirs, complete, cleaning, capturing, torn>> /\ capturing = "loop"
      BY <1>3 DEF Reads, Capturing
    <2>5. \A q \in complete : taken'[q] = taken[q]
      BY <2>1, <2>4 DEF CaptureInv, CaptureTypeOK
    <2>6. failure => failure'
      BY <2>1
    <2> QED
      BY <2>3, <2>4, <2>5, <2>6 DEF CaptureInv, CaptureTypeOK, WriterOpen, theirs
  <1>4. ASSUME NEW p \in Pipes, ReadsEnd(p) PROVE CaptureInv'
    BY <1>4 DEF CaptureInv, CaptureTypeOK, ReadsEnd, Capturing, WriterOpen, theirs
  <1>4a. ASSUME NEW p \in Pipes, ReadFails(p) PROVE CaptureInv'
    BY <1>4a DEF CaptureInv, CaptureTypeOK, ReadFails, Capturing, WriterOpen, theirs
  <1>5. CASE StartsCleanup \/ DeadlinePasses \/ CaptureInterrupted
    BY <1>5 DEF CaptureInv, CaptureTypeOK, StartsCleanup, DeadlinePasses, CaptureInterrupted,
                Capturing, Kill, WriterOpen, theirs
  <1>6. CASE CleanupPasses
    BY <1>6 DEF CaptureInv, CaptureTypeOK, CleanupPasses, Capturing, WriterOpen, theirs
  <1>6a. CASE LoopEnds
    BY <1>6a DEF CaptureInv, CaptureTypeOK, LoopEnds, Capturing, Kill, WriterOpen
  <1>6b. CASE Closes
    BY <1>6b DEF CaptureInv, CaptureTypeOK, Closes, WriterOpen, theirs
  <1>7. CASE UNCHANGED kvars
    BY <1>7 DEF CaptureInv, CaptureTypeOK, kvars, WriterOpen
  <1> QED
    BY <1>1, <1>2, <1>3, <1>4, <1>5, <1>6, <1>7, <1>2a, <1>4a, <1>6a, <1>6b DEF CaptureNext, Captures

\* The invariant holds in every behaviour, and is enough.
LEMMA CaptureAlways == CaptureInit /\ [][CaptureNext]_kvars => []ReturnsWhole
  <1>1. CaptureInv => ReturnsWhole
    <2> SUFFICES ASSUME CaptureInv, capturing = "returned" PROVE ReturnsWhole
      BY DEF ReturnsWhole
    <2>1. ~failure /\ complete = Pipes /\ process \in {"runs", "exited", "killed"}
      BY DEF CaptureInv, CaptureTypeOK
    <2>2. \A p \in Pipes : kept[p] = taken[p] /\ taken[p] = written[p] /\ ~WriterOpen
      BY <2>1 DEF CaptureInv
    <2>3. torn = {} /\ process # "killed"
      BY <2>1 DEF CaptureInv
    <2> QED
      BY <2>1, <2>2, <2>3 DEF ReturnsWhole, WriterOpen, Pipes
  <1> QED
    BY <1>1, CaptureBegins, CaptureSteps, PTL

\* What a capture returns is all that was written, by a command that ended by itself.
THEOREM OutputIsWhole == CaptureSpec => []ReturnsWhole
  BY CaptureAlways, PTL DEF CaptureSpec

-----------------------------------------------------------------------------
(* Restore: what an attempt may still do, and what its operator relies on. *)

Before == {"idle", "cleaning", "draining", "inspecting", "preparing"}
Attempting ==
  {"loading", "awaiting", "committing", "settling", "tidying", "tidyingFailed", "drainingLast",
   "drainingFailed"}
RestorePlaces ==
  Before \cup Attempting \cup {"entering", "clearing", "drainingFirst", "staging", "asking"}
DirectPlaces == {"idle", "inspecting", "preparing", "entering", "asking", "awaiting"}

JobType ==
  [kind : {"none", "load", "commit"},
   state : {"none", "sent", "pending", "running", "done", "refused", "failed"},
   since : SUBSET (Snapshots \cup {"compaction"}), lists : SUBSET Attempts]
AttemptType ==
  [snapshot : Snapshots \cup {NoSnapshot}, stage : {"none", "empty", "loaded"}, job : JobType]
OperatorType ==
  [at : RestorePlaces, snapshot : Snapshots \cup {NoSnapshot}, attempt : Attempts \cup {NoAttempt},
   sees : SUBSET Attempts]

RestoreTypeOK ==
  /\ warehouse \in {"duckdb", "motherduck", "bigquery"}
  /\ restored \in [Snapshots -> Nat] /\ receipts \subseteq Snapshots /\ told \subseteq receipts
  /\ compaction \in {"on", "running", "ending", "off"}
  /\ attempt \in [Attempts -> AttemptType] /\ operator \in [Operators -> OperatorType]

\* What is restored while a commit runs was not when it began; on DuckDB nothing is.
JobInv(a) ==
  /\ attempt[a].job.state # "none" => attempt[a].snapshot \in Snapshots
  /\ Job(a, "commit", "done") => attempt[a].snapshot \in receipts
  /\ Job(a, "commit", "running") =>
       receipts \subseteq attempt[a].job.since /\ (warehouse = "duckdb" => receipts = {})
  /\ warehouse # "bigquery" => attempt[a].job.state \notin {"sent", "pending"}

\* The compaction is off before anything is staged, and nobody takes it up again.  The operator
\* awaits a job of its own snapshot, and has seen its commit before it tidies up.
OperatorInv(o) ==
  /\ operator[o].at \in Before => operator[o].attempt = NoAttempt
  /\ operator[o].at \notin Before => compaction = "off"
  /\ ~At(o, "idle") => operator[o].snapshot \in Snapshots
  /\ operator[o].at \in Attempting =>
       /\ operator[o].attempt \in Attempts
       /\ attempt[operator[o].attempt].snapshot = operator[o].snapshot
  /\ At(o, "awaiting") =>
       attempt[operator[o].attempt].job.kind \in
         IF warehouse = "bigquery" THEN {"load", "commit"} ELSE {"commit"}
  /\ operator[o].at \in {"tidying", "drainingLast"} => operator[o].snapshot \in receipts
  /\ warehouse # "bigquery" => operator[o].at \in DirectPlaces

\* The file of DuckDB is open in one command, and what is in progress there is its own.
OneAtATime ==
  warehouse = "duckdb" =>
    /\ \A o, p \in Operators : At(o, "idle") \/ At(p, "idle") \/ o = p
    /\ \A a \in Active : \E o \in Operators : At(o, "awaiting") /\ operator[o].attempt = a

\* The receipts say what is in the tables: nothing, one snapshot, or several with no key in
\* common.
ReceiptsInv ==
  /\ \A s \in Snapshots : restored[s] = IF s \in receipts THEN 1 ELSE 0
  /\ \A s, t \in receipts : s = t \/ (warehouse = "motherduck" /\ {s, t} \notin shared)

RestoreInv ==
  /\ RestoreTypeOK /\ ReceiptsInv /\ OneAtATime
  /\ \A a \in Attempts : JobInv(a)
  /\ \A o \in Operators : OperatorInv(o)

\* Nothing is restored, and nobody at work.
LEMMA RestoreBegins == RestoreInit => RestoreInv
  <1> SUFFICES ASSUME RestoreInit PROVE RestoreInv
    OBVIOUS
  <1>1. NoJob \in JobType /\ NoJob.state = "none" /\ NoJob.kind = "none"
    BY DEF NoJob, JobType
  <1>2. Nothing(NoSnapshot) \in AttemptType /\ Nothing(NoSnapshot).job = NoJob
    BY <1>1 DEF Nothing, AttemptType
  <1>3. IdleOperator \in OperatorType /\ IdleOperator.at = "idle"
        /\ IdleOperator.attempt = NoAttempt
    BY DEF IdleOperator, OperatorType, RestorePlaces, Before
  <1> HIDE DEF NoJob, IdleOperator
  <1>4. \A a \in Attempts : attempt[a].job.state = "none" /\ attempt[a].job.kind = "none"
    BY <1>1, <1>2 DEF RestoreInit
  <1>5. \A o \in Operators : At(o, "idle") /\ operator[o].attempt = NoAttempt
    BY <1>3 DEF RestoreInit, At
  <1>6. RestoreTypeOK
    BY <1>2, <1>3, RestoreAssumption DEF RestoreInit, RestoreTypeOK
  <1>7. ReceiptsInv /\ OneAtATime
    BY <1>4, <1>5 DEF RestoreInit, ReceiptsInv, OneAtATime, Active
  <1>8. \A a \in Attempts : JobInv(a)
    BY <1>4 DEF JobInv, Job
  <1>9. \A o \in Operators : OperatorInv(o)
    BY <1>5 DEF OperatorInv, At, Before, Attempting, DirectPlaces
  <1> QED
    BY <1>6, <1>7, <1>8, <1>9 DEF RestoreInv

\* A step of one operator, with what it does to attempts that are nobody else's.
LEMMA OperatorStep ==
  ASSUME RestoreInv, NEW o \in Operators, UNCHANGED <<warehouse, shared, tables>>,
         operator' \in [Operators -> OperatorType], attempt' \in [Attempts -> AttemptType],
         compaction' \in {"on", "running", "ending", "off"},
         compaction = "off" => compaction' = "off", told' \subseteq receipts,
         \A p \in Operators \ {o} :
           /\ operator'[p].at = operator[p].at /\ operator'[p].snapshot = operator[p].snapshot
           /\ operator'[p].attempt = operator[p].attempt
           /\ operator[p].attempt \in Attempts =>
                /\ attempt'[operator[p].attempt].snapshot = attempt[operator[p].attempt].snapshot
                /\ \/ attempt'[operator[p].attempt].job.kind = attempt[operator[p].attempt].job.kind
                   \/ warehouse = "bigquery"
                      /\ attempt'[operator[p].attempt].job.kind \in {"load", "commit"},
         warehouse = "duckdb" =>
           /\ operator[o].at # "idle"
           /\ \A b \in Active' : operator'[o].at = "awaiting" /\ operator'[o].attempt = b,
         \A b \in Attempts : JobInv(b)', OperatorInv(o)'
  PROVE  RestoreInv'
  <1>1. \A p \in Operators \ {o} : OperatorInv(p)'
    <2> SUFFICES ASSUME NEW p \in Operators \ {o} PROVE OperatorInv(p)'
      OBVIOUS
    <2>1. OperatorInv(p) /\ UNCHANGED <<warehouse, receipts>>
      BY DEF RestoreInv, tables
    <2> QED
      BY <2>1 DEF OperatorInv, At, Attempting, Before
  <1>2. OneAtATime'
    <2> SUFFICES ASSUME warehouse = "duckdb" PROVE OneAtATime'
      BY DEF OneAtATime
    <2>1. \A p \in Operators \ {o} : operator[p].at = "idle" /\ operator'[p].at = "idle"
      BY DEF RestoreInv, OneAtATime, At
    <2> QED
      BY <2>1 DEF OneAtATime, At
  <1>3. RestoreTypeOK' /\ ReceiptsInv'
    BY DEF RestoreInv, RestoreTypeOK, ReceiptsInv, tables
  <1> QED
    BY <1>1, <1>2, <1>3 DEF RestoreInv

\* A step of the warehouse: the jobs go on, of the snapshots they were for.
LEMMA WarehouseStep ==
  ASSUME RestoreInv, UNCHANGED <<warehouse, shared, tables, operator, told>>,
         attempt' \in [Attempts -> AttemptType],
         compaction' \in {"on", "running", "ending", "off"},
         compaction = "off" => compaction' = "off",
         \A b \in Attempts :
           /\ attempt'[b].snapshot = attempt[b].snapshot
           /\ attempt'[b].job.kind = attempt[b].job.kind
           /\ warehouse # "bigquery" /\ b \in Active' => b \in Active
           /\ JobInv(b)'
  PROVE  RestoreInv'
  <1>1. \A p \in Operators : OperatorInv(p)'
    <2> SUFFICES ASSUME NEW p \in Operators PROVE OperatorInv(p)'
      OBVIOUS
    <2>1. OperatorInv(p) /\ UNCHANGED receipts
      BY DEF RestoreInv, tables
    <2> QED
      BY <2>1 DEF OperatorInv, At, Attempting
  <1>2. OneAtATime'
    <2>1. \A a \in Active' : a \in Attempts
      BY DEF Active
    <2> QED
      BY <2>1 DEF OneAtATime, At, RestoreInv
  <1>3. RestoreTypeOK' /\ ReceiptsInv'
    BY DEF RestoreInv, RestoreTypeOK, ReceiptsInv, tables
  <1> QED
    BY <1>1, <1>2, <1>3 DEF RestoreInv

\* On DuckDB nothing is in progress but what the one command awaits.
LEMMA NothingElse ==
  ASSUME RestoreInv, NEW o \in Operators, ~At(o, "idle"), warehouse = "duckdb", NEW b \in Active
  PROVE  At(o, "awaiting") /\ operator[o].attempt = b
  BY DEF RestoreInv, OneAtATime, At

\* An operator who goes on, as far as it has come.
LEMMA GoesStep ==
  ASSUME RestoreInv, NEW o \in Operators, NEW where \in RestorePlaces \ {"idle", "awaiting"},
         NEW sees \in SUBSET Attempts, ~At(o, "idle"),
         operator' = [operator EXCEPT ![o].at = where]
           \/ operator' = [operator EXCEPT ![o].sees = sees, ![o].at = where],
         UNCHANGED <<warehouse, shared, tables>>, told' \subseteq receipts,
         compaction' \in {"on", "running", "ending", "off"},
         compaction = "off" => compaction' = "off",
         warehouse = "duckdb" /\ At(o, "awaiting") => operator[o].attempt \notin Active',
         attempt' \in [Attempts -> AttemptType],
         \A b \in Attempts : attempt'[b].snapshot = attempt[b].snapshot
                             /\ attempt'[b].job.kind = attempt[b].job.kind
                             /\ (b \in Active' => b \in Active) /\ JobInv(b)',
         where \in Before => operator[o].at \in Before,
         where \notin Before => compaction' = "off",
         where \in Attempting => operator[o].at \in Attempting,
         where \in {"tidying", "drainingLast"} => operator[o].snapshot \in receipts,
         warehouse # "bigquery" => where \in DirectPlaces
  PROVE  RestoreInv'
  <1>1. operator[o] \in OperatorType /\ OperatorInv(o) /\ operator \in [Operators -> OperatorType]
    BY DEF RestoreInv, RestoreTypeOK
  <1>2. operator' \in [Operators -> OperatorType]
    BY <1>1 DEF OperatorType
  <1>3. /\ operator'[o].at = where /\ operator'[o].snapshot = operator[o].snapshot
        /\ operator'[o].attempt = operator[o].attempt
        /\ \A p \in Operators \ {o} : operator'[p] = operator[p]
    BY <1>1 DEF OperatorType
  <1>4. OperatorInv(o)'
    BY <1>1, <1>3 DEF OperatorInv, At, tables
  <1>5. \A b \in Active' : b \in Attempts /\ b \in Active
    BY DEF Active
  <1>6. warehouse = "duckdb" => Active' = {}
    BY <1>5, NothingElse
  <1> QED
    BY <1>2, <1>3, <1>4, <1>5, <1>6, OperatorStep DEF At

\* An operator whose command ends.
LEMMA ReturnsStep ==
  ASSUME RestoreInv, NEW o \in Operators, ~At(o, "idle"), Returns(o),
         UNCHANGED <<warehouse, shared, tables>>,
         warehouse = "duckdb" /\ At(o, "awaiting") => operator[o].attempt \notin Active',
         told' \subseteq receipts, compaction' \in {"on", "running", "ending", "off"},
         compaction = "off" => compaction' = "off",
         attempt' \in [Attempts -> AttemptType],
         \A b \in Attempts : attempt'[b].snapshot = attempt[b].snapshot
                             /\ attempt'[b].job.kind = attempt[b].job.kind
                             /\ (b \in Active' => b \in Active) /\ JobInv(b)'
  PROVE  RestoreInv'
  <1>1. IdleOperator \in OperatorType /\ IdleOperator.at = "idle"
        /\ IdleOperator.attempt = NoAttempt
    BY DEF IdleOperator, OperatorType, RestorePlaces, Before
  <1>2. operator \in [Operators -> OperatorType]
    BY DEF RestoreInv, RestoreTypeOK
  <1>3. operator' = [operator EXCEPT ![o] = IdleOperator]
    BY DEF Returns
  <1> HIDE DEF IdleOperator
  <1>4. operator' \in [Operators -> OperatorType] /\ operator'[o] = IdleOperator
        /\ \A p \in Operators \ {o} : operator'[p] = operator[p]
    BY <1>1, <1>2, <1>3
  <1>5. OperatorInv(o)'
    BY <1>1, <1>4 DEF OperatorInv, At, Before, Attempting, DirectPlaces
  <1>6. \A b \in Active' : b \in Attempts /\ b \in Active
    BY DEF Active
  <1>7. warehouse = "duckdb" => Active' = {}
    BY <1>6, NothingElse
  <1> QED
    BY <1>1, <1>4, <1>5, <1>6, <1>7, OperatorStep DEF At

\* When attempts are left alone, what was known of their jobs is.
LEMMA JobsRest ==
  ASSUME RestoreInv, UNCHANGED <<warehouse, shared, tables, attempt>>
  PROVE  /\ attempt' \in [Attempts -> AttemptType]
         /\ \A b \in Attempts : attempt'[b].snapshot = attempt[b].snapshot
                             /\ attempt'[b].job.kind = attempt[b].job.kind
                             /\ (b \in Active' => b \in Active) /\ JobInv(b)'
  BY DEF RestoreInv, RestoreTypeOK, JobInv, Job, Active, tables

\* The command, up to the attempt and after it.
LEMMA CommandSteps ==
  ASSUME RestoreInv, NEW o \in Operators,
         Inspect(o) \/ Prepare(o) \/ Enter(o) \/ Ask(o) \/ ListJobs(o) \/ Await(o) \/ WaitFails(o)
           \/ Settle(o)
  PROVE  RestoreInv'
  <1>1. /\ UNCHANGED <<warehouse, shared, tables, attempt>> /\ told \subseteq receipts
        /\ compaction \in {"on", "running", "ending", "off"} /\ OperatorInv(o)
        /\ operator[o] \in OperatorType /\ warehouse \in {"duckdb", "motherduck", "bigquery"}
    BY DEF Inspect, Prepare, Enter, Ask, ListJobs, Await, WaitFails, Settle, RestoreInv,
           RestoreTypeOK, backend
  <1>2. CASE Inspect(o)
    <2>1. told' \subseteq receipts /\ compaction' = compaction /\ At(o, "inspecting")
          /\ ~At(o, "idle") /\ ~At(o, "awaiting") /\ (Goes(o, "preparing") \/ Returns(o))
      BY <1>1, <1>2 DEF Inspect, At
    <2>2. CASE Returns(o)
      BY <1>1, <2>1, <2>2, JobsRest, ReturnsStep
    <2>3. CASE Goes(o, "preparing")
      <3>1. /\ "preparing" \in RestorePlaces \ {"idle", "awaiting"} /\ ~At(o, "idle")
            /\ "preparing" \in Before => operator[o].at \in Before
            /\ "preparing" \notin Before => compaction' = "off"
            /\ "preparing" \notin Attempting \cup {"tidying", "drainingLast"}
            /\ warehouse # "bigquery" => "preparing" \in DirectPlaces
        BY <1>1, <2>1, <2>3 DEF At, RestorePlaces, Before, Attempting, DirectPlaces
      <3>2. operator' = [operator EXCEPT ![o].at = "preparing"] /\ {} \in SUBSET Attempts
        BY <2>3 DEF Goes
      <3> QED
        BY <1>1, <2>1, <3>1, <3>2, JobsRest, GoesStep
    <2> QED
      BY <2>1, <2>2, <2>3
  <1>3. CASE Prepare(o)
    <2>1. told' = told /\ At(o, "preparing") /\ ~At(o, "idle") /\ ~At(o, "awaiting")
          /\ compaction' \in {"on", "running", "ending", "off"}
          /\ (compaction = "off" => compaction' = "off")
          /\ (Returns(o) \/ (Goes(o, "entering") /\ compaction' = "off"))
      BY <1>1, <1>3 DEF Prepare, At
    <2>2. CASE Returns(o)
      BY <1>1, <2>1, <2>2, JobsRest, ReturnsStep
    <2>3. CASE Goes(o, "entering") /\ compaction' = "off"
      <3>1. /\ "entering" \in RestorePlaces \ {"idle", "awaiting"} /\ ~At(o, "idle")
            /\ "entering" \in Before => operator[o].at \in Before
            /\ "entering" \notin Before => compaction' = "off"
            /\ "entering" \notin Attempting \cup {"tidying", "drainingLast"}
            /\ warehouse # "bigquery" => "entering" \in DirectPlaces
        BY <1>1, <2>1, <2>3 DEF At, RestorePlaces, Before, Attempting, DirectPlaces
      <3>2. operator' = [operator EXCEPT ![o].at = "entering"] /\ {} \in SUBSET Attempts
        BY <2>3 DEF Goes
      <3> QED
        BY <1>1, <2>1, <3>1, <3>2, JobsRest, GoesStep
    <2> QED
      BY <2>1, <2>2, <2>3
  <1>4. CASE Enter(o)
    <2>1. told' \subseteq receipts /\ compaction' = compaction /\ At(o, "entering")
          /\ ~At(o, "idle") /\ ~At(o, "awaiting")
          /\ warehouse = "bigquery" /\ (Returns(o) \/ Goes(o, "asking") \/ Goes(o, "clearing"))
      BY <1>1, <1>4 DEF Enter, At
    <2>2. compaction = "off"
      BY <1>1, <2>1 DEF OperatorInv, At, Before
    <2>3. CASE Returns(o)
      BY <1>1, <2>1, <2>3, JobsRest, ReturnsStep
    <2>4. CASE Goes(o, "asking")
      <3>1. /\ "asking" \in RestorePlaces \ {"idle", "awaiting"} /\ ~At(o, "idle")
            /\ "asking" \in Before => operator[o].at \in Before
            /\ "asking" \notin Before => compaction' = "off"
            /\ "asking" \notin Attempting \cup {"tidying", "drainingLast"}
            /\ warehouse # "bigquery" => "asking" \in DirectPlaces
        BY <1>1, <2>1, <2>2, <2>4 DEF At, RestorePlaces, Before, Attempting, DirectPlaces
      <3>2. operator' = [operator EXCEPT ![o].at = "asking"] /\ {} \in SUBSET Attempts
        BY <2>4 DEF Goes
      <3> QED
        BY <1>1, <2>1, <3>1, <3>2, JobsRest, GoesStep
    <2>5. CASE Goes(o, "clearing")
      <3>1. /\ "clearing" \in RestorePlaces \ {"idle", "awaiting"} /\ ~At(o, "idle")
            /\ "clearing" \in Before => operator[o].at \in Before
            /\ "clearing" \notin Before => compaction' = "off"
            /\ "clearing" \notin Attempting \cup {"tidying", "drainingLast"}
            /\ warehouse # "bigquery" => "clearing" \in DirectPlaces
        BY <1>1, <2>1, <2>2, <2>5 DEF At, RestorePlaces, Before, Attempting, DirectPlaces
      <3>2. operator' = [operator EXCEPT ![o].at = "clearing"] /\ {} \in SUBSET Attempts
        BY <2>5 DEF Goes
      <3> QED
        BY <1>1, <2>1, <3>1, <3>2, JobsRest, GoesStep
    <2> QED
      BY <2>1, <2>3, <2>4, <2>5
  <1>5. CASE Ask(o)
    <2>1. /\ told' \subseteq receipts /\ compaction' = compaction /\ Returns(o)
          /\ ~At(o, "idle") /\ ~At(o, "awaiting")
      BY <1>1, <1>5 DEF Ask, At
    <2> QED
      BY <1>1, <2>1, JobsRest, ReturnsStep
  <1>6. CASE ListJobs(o)
    <2> DEFINE where == CASE At(o, "cleaning") -> "draining"
                          [] At(o, "clearing") -> "drainingFirst"
                          [] At(o, "tidying") -> "drainingLast"
                          [] OTHER -> "drainingFailed"
    <2>1. operator' = [operator EXCEPT ![o].sees = Active, ![o].at = where]
          /\ told' = told /\ compaction' = compaction
      BY <1>6 DEF ListJobs
    <2>2. operator[o].at \in {"cleaning", "clearing", "tidying", "tidyingFailed"}
      BY <1>6 DEF ListJobs
    <2>3. <<operator[o].at, where>> \in
            {<<"cleaning", "draining">>, <<"clearing", "drainingFirst">>,
             <<"tidying", "drainingLast">>, <<"tidyingFailed", "drainingFailed">>}
      BY <2>2 DEF At
    <2> HIDE DEF where
    <2>4. Active \in SUBSET Attempts
      BY DEF Active
    <2>5. /\ where \in RestorePlaces \ {"idle", "awaiting"} /\ ~At(o, "idle")
          /\ where \in Before => operator[o].at \in Before
          /\ where \notin Before => compaction = "off"
          /\ where \in Attempting => operator[o].at \in Attempting
          /\ where \in {"tidying", "drainingLast"} => operator[o].snapshot \in receipts
          /\ warehouse = "bigquery" /\ ~At(o, "awaiting")
      BY <1>1, <2>3 DEF OperatorInv, At, RestorePlaces, Before, Attempting, DirectPlaces
    <2> QED
      BY <1>1, <2>1, <2>4, <2>5, JobsRest, GoesStep
  <1>7. CASE Await(o)
    <2>1. PICK where \in {"asking", "tidyingFailed", "committing", "tidying"} :
            /\ Goes(o, where) /\ told' = told /\ compaction' = compaction
            /\ At(o, "awaiting") /\ warehouse = "bigquery"
            /\ where = "tidying" => attempt[operator[o].attempt].job.kind # "load"
                                    /\ attempt[operator[o].attempt].job.state = "done"
      BY <1>7 DEF Await
    <2>2. /\ operator[o].attempt \in Attempts /\ compaction = "off"
          /\ attempt[operator[o].attempt].snapshot = operator[o].snapshot
          /\ attempt[operator[o].attempt].job.kind \in {"load", "commit"}
      BY <1>1, <2>1 DEF OperatorInv, At, Attempting, Before
    <2>3. where = "tidying" => operator[o].snapshot \in receipts
      BY <2>1, <2>2 DEF RestoreInv, JobInv, Job
    <2> QED
      BY <1>1, <2>1, <2>2, <2>3, JobsRest, GoesStep
         DEF Goes, At, RestorePlaces, Before, Attempting, DirectPlaces
  <1>8. CASE WaitFails(o) \/ Settle(o)
    <2>1. PICK where \in {"settling", "asking"} :
            /\ Goes(o, where) /\ told' = told /\ compaction' = compaction
            /\ operator[o].at \in {"awaiting", "settling"}
            /\ where = "settling" => warehouse = "bigquery"
      BY <1>8 DEF WaitFails, Settle, At
    <2>2. compaction = "off" /\ warehouse = "bigquery"
      BY <1>1, <1>8, <2>1 DEF WaitFails, Settle, At, OperatorInv, Before, DirectPlaces
    <2> QED
      BY <1>1, <2>1, <2>2, JobsRest, GoesStep
         DEF Goes, At, RestorePlaces, Before, Attempting, DirectPlaces
  <1> QED
    BY <1>2, <1>3, <1>4, <1>5, <1>6, <1>7, <1>8

\* What a step leaves of an attempt, the properties of its job among it, when at most its stage
\* goes.
LEMMA StagesGo ==
  ASSUME RestoreInv, NEW as \in SUBSET Attempts, UNCHANGED <<warehouse, shared, tables>>,
         attempt' = WithoutStages(as)
  PROVE  /\ attempt' \in [Attempts -> AttemptType]
         /\ \A b \in Attempts : attempt'[b].snapshot = attempt[b].snapshot
                             /\ attempt'[b].job.kind = attempt[b].job.kind
                             /\ (b \in Active' => b \in Active) /\ JobInv(b)'
  <1>1. \A b \in Attempts : attempt[b] \in AttemptType
    BY DEF RestoreInv, RestoreTypeOK
  <1>2. \A b \in Attempts :
          /\ attempt'[b] \in AttemptType
          /\ attempt'[b].snapshot = attempt[b].snapshot /\ attempt'[b].job = attempt[b].job
    BY <1>1 DEF WithoutStages, AttemptType
  <1>3. attempt' \in [Attempts -> AttemptType]
    BY <1>2 DEF WithoutStages
  <1>4. \A b \in Attempts : JobInv(b)'
    BY <1>2 DEF RestoreInv, JobInv, Job, tables
  <1> QED
    BY <1>2, <1>3, <1>4 DEF Active

\* A job whose state alone changes, to one that is no success and no start.
LEMMA JobEnds ==
  ASSUME RestoreInv, NEW a \in Attempts, NEW state \in {"refused", "failed"},
         attempt' = [attempt EXCEPT ![a].job.state = state], UNCHANGED <<warehouse, shared, tables>>,
         attempt[a].job.state # "none"
  PROVE  /\ attempt' \in [Attempts -> AttemptType] /\ a \notin Active'
         /\ \A b \in Attempts : attempt'[b].snapshot = attempt[b].snapshot
                             /\ attempt'[b].job.kind = attempt[b].job.kind
                             /\ (b \in Active' => b \in Active) /\ JobInv(b)'
  <1>1. attempt \in [Attempts -> AttemptType] /\ attempt[a] \in AttemptType
    BY DEF RestoreInv, RestoreTypeOK
  <1>2. [attempt[a].job EXCEPT !.state = state] \in JobType
    BY <1>1 DEF AttemptType, JobType
  <1> DEFINE new == [attempt[a] EXCEPT !.job = [attempt[a].job EXCEPT !.state = state]]
  <1>3. /\ new \in AttemptType /\ new.snapshot = attempt[a].snapshot
        /\ new.job.state = state /\ new.job.kind = attempt[a].job.kind
    BY <1>1, <1>2 DEF AttemptType, JobType
  <1>4. attempt' = [attempt EXCEPT ![a] = new]
    BY <1>1
  <1> HIDE DEF new
  <1>5. attempt' \in [Attempts -> AttemptType] /\ attempt'[a] = new
        /\ \A b \in Attempts \ {a} : attempt'[b] = attempt[b]
    BY <1>1, <1>3, <1>4
  <1>6. \A b \in Attempts : JobInv(b)'
    BY <1>3, <1>5 DEF RestoreInv, JobInv, Job, tables
  <1>7. a \notin Active' /\ \A b \in Attempts : b \in Active' => b \in Active
    BY <1>3, <1>5 DEF Active
  <1> QED
    BY <1>3, <1>5, <1>6, <1>7

\* Stages are deleted and jobs cancelled.
LEMMA CleanSteps ==
  ASSUME RestoreInv, NEW o \in Operators, Cancel(o) \/ Discard(o) \/ Tidy(o)
  PROVE  RestoreInv'
  <1>1. /\ UNCHANGED <<warehouse, shared, tables, compaction>> /\ told \subseteq receipts
        /\ compaction \in {"on", "running", "ending", "off"} /\ OperatorInv(o)
        /\ operator[o] \in OperatorType
    BY DEF Cancel, Discard, Tidy, RestoreInv, RestoreTypeOK, backend
  <1>2. CASE Cancel(o)
    <2>1. PICK a \in Active : attempt' = [attempt EXCEPT ![a].job.state = "failed"]
      BY <1>2 DEF Cancel
    <2>2. a \in Attempts /\ attempt[a].job.state # "none" /\ UNCHANGED <<operator, told>>
      BY <1>2 DEF Active, Cancel
    <2> QED
      BY <1>1, <2>1, <2>2, JobEnds, WarehouseStep
  <1>3. CASE Discard(o)
    <2>1. PICK where \in {"inspecting", "staging"} :
            /\ Goes(o, where) /\ told' = told
            /\ where = "inspecting" => At(o, "draining")
            /\ where = "staging" => At(o, "drainingFirst")
      BY <1>3 DEF Discard, At
    <2>2. attempt' = WithoutStages(Staged) /\ Staged \in SUBSET Attempts
      BY <1>3 DEF Discard, Staged
    <2>3. /\ where \in RestorePlaces \ {"idle", "awaiting"} /\ ~At(o, "idle")
          /\ where \in Before => operator[o].at \in Before
          /\ where \notin Before => compaction' = "off"
          /\ where \notin Attempting \cup {"tidying", "drainingLast"}
          /\ warehouse = "bigquery" /\ ~At(o, "awaiting")
      BY <1>1, <2>1 DEF OperatorInv, At, RestorePlaces, Before, Attempting, DirectPlaces
    <2>4. operator' = [operator EXCEPT ![o].at = where] /\ {} \in SUBSET Attempts
      BY <2>1 DEF Goes
    <2> QED
      BY <1>1, <2>1, <2>2, <2>3, <2>4, StagesGo, GoesStep
  <1>4. CASE Tidy(o)
    <2>1. /\ operator[o].at \in {"drainingLast", "drainingFailed"}
          /\ attempt' = WithoutStages({operator[o].attempt})
      BY <1>4 DEF Tidy
    <2>2. {operator[o].attempt} \in SUBSET Attempts /\ compaction = "off"
          /\ ~At(o, "idle") /\ ~At(o, "awaiting")
      BY <1>1, <2>1 DEF OperatorInv, Attempting, Before, At
    <2>3. CASE At(o, "drainingLast")
      <3>1. Returns(o) /\ told' = told \cup {operator[o].snapshot}
        BY <1>4, <2>3 DEF Tidy
      <3>2. operator[o].snapshot \in receipts
        BY <1>1, <2>3 DEF OperatorInv, At
      <3> QED
        BY <1>1, <2>1, <2>2, <3>1, <3>2, StagesGo, ReturnsStep
    <2>4. CASE ~At(o, "drainingLast")
      <3>1. Goes(o, "asking") /\ told' = told
        BY <1>4, <2>4 DEF Tidy
      <3>2. /\ "asking" \in RestorePlaces \ {"idle", "awaiting"} /\ ~At(o, "idle")
            /\ "asking" \notin Before /\ "asking" \notin Attempting \cup {"tidying", "drainingLast"}
            /\ "asking" \in DirectPlaces
        BY <2>1 DEF At, RestorePlaces, Before, Attempting, DirectPlaces
      <3>3. operator' = [operator EXCEPT ![o].at = "asking"] /\ {} \in SUBSET Attempts
        BY <3>1 DEF Goes
      <3> QED
        BY <1>1, <2>1, <2>2, <3>1, <3>2, <3>3, StagesGo, GoesStep
    <2> QED
      BY <2>3, <2>4
  <1> QED
    BY <1>2, <1>3, <1>4

\* A command begins; on DuckDB, when no other is in progress.
LEMMA CommandStep == ASSUME RestoreInv, NEW o \in Operators, Command(o) PROVE RestoreInv'
  <1>1. PICK s \in Snapshots, where \in {"cleaning", "inspecting"} :
          /\ operator' = [operator EXCEPT ![o].snapshot = s, ![o].at = where]
          /\ warehouse # "bigquery" => where = "inspecting"
    BY DEF Command
  <1>2. /\ UNCHANGED <<warehouse, shared, tables, compaction, attempt, told>>
        /\ operator \in [Operators -> OperatorType] /\ operator[o].at = "idle"
        /\ operator[o].attempt = NoAttempt
    BY DEF Command, At, RestoreInv, RestoreTypeOK, OperatorInv, Before, backend
  <1>3. where \in Before /\ where # "idle" /\ where \notin Attempting \cup {"tidying", "drainingLast"}
        /\ (where = "inspecting" => where \in DirectPlaces) /\ where # "awaiting"
    BY DEF Before, Attempting, DirectPlaces
  <1>4. operator' \in [Operators -> OperatorType]
    BY <1>1, <1>2, <1>3 DEF OperatorType, RestorePlaces
  <1>5. /\ operator'[o].at = where /\ operator'[o].snapshot = s /\ operator'[o].attempt = NoAttempt
        /\ \A p \in Operators \ {o} : operator'[p] = operator[p]
    BY <1>1, <1>2 DEF OperatorType
  <1>6. ASSUME NEW p \in Operators PROVE OperatorInv(p)'
    <2>1. CASE p = o
      BY <1>1, <1>2, <1>3, <1>5, <2>1 DEF OperatorInv, At
    <2>2. CASE p # o
      <3>1. OperatorInv(p) /\ operator'[p] = operator[p]
        BY <1>5, <2>2 DEF RestoreInv
      <3> QED
        BY <1>2, <3>1 DEF OperatorInv, At, tables
    <2> QED
      BY <2>1, <2>2
  <1>7. OneAtATime'
    <2> SUFFICES ASSUME warehouse = "duckdb" PROVE OneAtATime'
      BY <1>2 DEF OneAtATime
    <2>1. \A p \in Operators : At(p, "idle")
      BY DEF Command
    <2>2. Active' = {}
      BY <1>2, <2>1 DEF Active, RestoreInv, OneAtATime, At
    <2> QED
      BY <1>5, <2>1, <2>2 DEF OneAtATime, At
  <1>8. RestoreTypeOK' /\ ReceiptsInv'
    BY <1>2, <1>4 DEF RestoreInv, RestoreTypeOK, ReceiptsInv, tables
  <1> QED
    BY <1>2, <1>6, <1>7, <1>8, JobsRest DEF RestoreInv

\* An identifier that is used again is nobody's.
LEMMA FreshIs ==
  ASSUME NEW a \in Fresh
  PROVE  a \in Attempts /\ Unused(a) /\ a \notin Active
  <1> DEFINE free == {b \in Attempts : Unused(b)}
  <1>1. free # {} /\ a = CHOOSE b \in free : TRUE
    BY DEF Fresh
  <1>2. a \in free
    BY <1>1
  <1> QED
    BY <1>2 DEF Unused, Active

\* An attempt begins: with a stage on BigQuery, with its transaction otherwise.
LEMMA AttemptBegins ==
  ASSUME RestoreInv, NEW o \in Operators, NEW a \in Fresh,
         NEW new \in AttemptType, new.snapshot = operator[o].snapshot,
         NEW where \in {"loading", "awaiting"}, operator[o].at \notin {"idle", "awaiting"},
         compaction = "off",
         attempt' = [attempt EXCEPT ![a] = new],
         operator' = [operator EXCEPT ![o].at = where, ![o].attempt = a],
         where = "loading" => new.job.state = "none" /\ warehouse = "bigquery",
         where = "awaiting" =>
           new.job.kind = "commit" /\ new.job.state = "running" /\ EmptyWarehouse
             /\ warehouse # "bigquery",
         UNCHANGED <<warehouse, shared, tables, compaction>>, told' \subseteq receipts
  PROVE  RestoreInv'
  <1>1. a \in Attempts /\ a \notin Active /\ \A p \in Operators : operator[p].attempt # a
    BY FreshIs DEF Unused
  <1>2. operator \in [Operators -> OperatorType] /\ attempt \in [Attempts -> AttemptType]
        /\ OperatorInv(o)
    BY DEF RestoreInv, RestoreTypeOK
  <1>3. attempt' \in [Attempts -> AttemptType] /\ attempt'[a] = new
        /\ \A b \in Attempts \ {a} : attempt'[b] = attempt[b]
    BY <1>1, <1>2
  <1>4. where \in RestorePlaces /\ where \in Attempting /\ where \notin Before
        /\ (where = "awaiting" => where \in DirectPlaces)
        /\ where \notin {"idle", "tidying", "drainingLast"}
    BY DEF RestorePlaces, Attempting, Before, DirectPlaces
  <1>5. operator' \in [Operators -> OperatorType]
    BY <1>1, <1>2, <1>4 DEF OperatorType
  <1>6. /\ operator'[o].at = where /\ operator'[o].snapshot = operator[o].snapshot
        /\ operator'[o].attempt = a /\ \A p \in Operators \ {o} : operator'[p] = operator[p]
    BY <1>2 DEF OperatorType
  <1>7. OperatorInv(o)'
    BY <1>1, <1>2, <1>3, <1>4, <1>6 DEF OperatorInv, At
  <1>8. operator[o].snapshot \in Snapshots
    BY <1>2 DEF OperatorInv, At
  <1>9. EmptyWarehouse => receipts = {}
    BY DEF EmptyWarehouse, RestoreInv, RestoreTypeOK, ReceiptsInv
  <1>10. ASSUME NEW b \in Attempts PROVE JobInv(b)'
    <2>1. CASE b = a
      BY <1>3, <1>8, <1>9, <2>1 DEF JobInv, Job, tables
    <2>2. CASE b # a
      <3>1. JobInv(b) /\ attempt'[b] = attempt[b]
        BY <1>3, <2>2 DEF RestoreInv
      <3> QED
        BY <3>1 DEF JobInv, Job, tables
    <2> QED
      BY <2>1, <2>2
  <1>11. warehouse = "duckdb" => where = "awaiting" /\ \A b \in Active' : b = a
    <2>1. \A b \in Active' : b \in Active \/ b = a
      BY <1>3 DEF Active
    <2> QED
      BY <2>1, NothingElse DEF At
  <1>12. \A p \in Operators \ {o} :
           /\ operator'[p].at = operator[p].at /\ operator'[p].snapshot = operator[p].snapshot
           /\ operator'[p].attempt = operator[p].attempt
           /\ operator[p].attempt \in Attempts =>
                /\ attempt'[operator[p].attempt].snapshot = attempt[operator[p].attempt].snapshot
                /\ attempt'[operator[p].attempt].job.kind = attempt[operator[p].attempt].job.kind
    BY <1>1, <1>3, <1>6
  <1>13. compaction' \in {"on", "running", "ending", "off"}
         /\ (compaction = "off" => compaction' = "off")
    OBVIOUS
  <1> QED
    BY <1>3, <1>5, <1>6, <1>7, <1>10, <1>11, <1>12, <1>13, OperatorStep

\* A job of the attempt is sent, whether or not its client hears of it.
LEMMA SubmitStep ==
  ASSUME RestoreInv, NEW o \in Operators, SubmitLoad(o) \/ SubmitCommit(o) PROVE RestoreInv'
  <1> DEFINE a == operator[o].attempt
  <1>1. PICK kind \in {"load", "commit"}, from \in {"loading", "committing"},
             lists \in SUBSET Attempts, state \in {"pending", "sent"},
             where \in {"awaiting", "asking"} :
          /\ At(o, from) /\ (where = "awaiting" => state = "pending")
          /\ attempt' = [attempt EXCEPT ![a].job = [kind |-> kind, state |-> state,
                                                    since |-> {}, lists |-> lists]]
          /\ operator' = [p \in Operators |->
               [operator[p] EXCEPT !.sees = @ \ {a}, !.at = IF p = o THEN where ELSE @]]
    <2>1. \A kind \in {"load", "commit"} :
            (IF kind = "commit" THEN Staged \ {a} ELSE {}) \in SUBSET Attempts
      BY DEF Staged
    <2> QED
      BY <2>1 DEF SubmitLoad, SubmitCommit, Submit
  <1>2. UNCHANGED <<warehouse, shared, tables, compaction, told>>
    BY DEF SubmitLoad, SubmitCommit, Submit, backend
  <1>3. OperatorInv(o) /\ \A p \in Operators : operator[p] \in OperatorType
    BY DEF RestoreInv, RestoreTypeOK
  <1>4. /\ a \in Attempts /\ attempt[a].snapshot = operator[o].snapshot /\ compaction = "off"
        /\ operator[o].snapshot \in Snapshots /\ warehouse = "bigquery"
    BY <1>1, <1>3 DEF OperatorInv, At, Attempting, Before, DirectPlaces, RestoreInv, RestoreTypeOK
  <1> HIDE DEF a
  <1> DEFINE posted == [kind |-> kind, state |-> state, since |-> {}, lists |-> lists]
             new == [attempt[a] EXCEPT !.job = posted]
  <1>5. attempt \in [Attempts -> AttemptType]
    BY DEF RestoreInv, RestoreTypeOK
  <1>6. posted \in JobType /\ posted.kind = kind /\ posted.state = state
    BY DEF JobType
  <1> HIDE DEF posted
  <1>7. new \in AttemptType /\ new.snapshot = attempt[a].snapshot /\ new.job = posted
    BY <1>4, <1>5, <1>6 DEF AttemptType
  <1>8. attempt' = [attempt EXCEPT ![a] = new]
    BY <1>1, <1>4, <1>5 DEF posted
  <1> HIDE DEF new
  <1>9. attempt' \in [Attempts -> AttemptType] /\ attempt'[a] = new
        /\ \A b \in Attempts \ {a} : attempt'[b] = attempt[b]
    BY <1>4, <1>5, <1>7, <1>8
  <1>10. \A p \in Operators :
           /\ operator'[p] \in OperatorType /\ operator'[p].snapshot = operator[p].snapshot
           /\ operator'[p].attempt = operator[p].attempt
           /\ operator'[p].at = IF p = o THEN where ELSE operator[p].at
    BY <1>1, <1>3 DEF OperatorType, RestorePlaces, Attempting
  <1>11. operator' \in [Operators -> OperatorType]
    BY <1>1, <1>10
  <1>12. OperatorInv(o)'
    <2>1. operator'[o].at = where /\ operator'[o].attempt = a
      BY <1>10 DEF a
    <2> QED
      BY <1>2, <1>4, <1>6, <1>7, <1>9, <1>10, <2>1
         DEF OperatorInv, At, Before, Attempting
  <1>13. ASSUME NEW b \in Attempts PROVE JobInv(b)'
    <2>1. CASE b = a
      BY <1>2, <1>4, <1>6, <1>7, <1>9, <2>1 DEF JobInv, Job
    <2>2. CASE b # a
      <3>1. JobInv(b) /\ attempt'[b] = attempt[b]
        BY <1>9, <2>2 DEF RestoreInv
      <3> QED
        BY <1>2, <3>1 DEF JobInv, Job, tables
    <2> QED
      BY <2>1, <2>2
  <1>15. \A b \in Attempts :
           /\ attempt'[b].snapshot = attempt[b].snapshot
           /\ attempt'[b].job.kind = attempt[b].job.kind \/ attempt'[b].job.kind \in {"load", "commit"}
    BY <1>6, <1>7, <1>9
  <1>16. \A p \in Operators \ {o} :
           /\ operator'[p].at = operator[p].at /\ operator'[p].snapshot = operator[p].snapshot
           /\ operator'[p].attempt = operator[p].attempt
           /\ operator[p].attempt \in Attempts =>
                /\ attempt'[operator[p].attempt].snapshot = attempt[operator[p].attempt].snapshot
                /\ \/ attempt'[operator[p].attempt].job.kind = attempt[operator[p].attempt].job.kind
                   \/ warehouse = "bigquery"
                      /\ attempt'[operator[p].attempt].job.kind \in {"load", "commit"}
    BY <1>4, <1>10, <1>15
  <1>17. told' \subseteq receipts /\ compaction' \in {"on", "running", "ending", "off"}
         /\ (compaction = "off" => compaction' = "off") /\ operator'[o].snapshot = operator[o].snapshot
    BY <1>2, <1>10 DEF RestoreInv, RestoreTypeOK
  <1> QED
    BY <1>2, <1>4, <1>9, <1>11, <1>12, <1>13, <1>16, <1>17, OperatorStep

\* The attempt, its transaction on a direct backend, and what the operator hears of it.
LEMMA AttemptSteps ==
  ASSUME RestoreInv, NEW o \in Operators,
         CreateStage(o) \/ Begin(o) \/ Answered(o) \/ Expires(o)
  PROVE  RestoreInv'
  <1>1. /\ UNCHANGED <<warehouse, shared, tables, compaction>> /\ told \subseteq receipts
        /\ compaction \in {"on", "running", "ending", "off"} /\ OperatorInv(o)
        /\ operator[o] \in OperatorType
    BY DEF CreateStage, Begin, Answered, Expires, RestoreInv, RestoreTypeOK, backend
  <1>2. CASE CreateStage(o)
    <2>1. PICK a \in Fresh :
            /\ attempt' = [attempt EXCEPT
                 ![a] = [snapshot |-> operator[o].snapshot, stage |-> "empty", job |-> NoJob]]
            /\ operator' = [operator EXCEPT ![o].at = "loading", ![o].attempt = a]
      BY <1>2 DEF CreateStage
    <2> DEFINE new == [snapshot |-> operator[o].snapshot, stage |-> "empty", job |-> NoJob]
    <2>2. operator[o].at = "staging" /\ told' = told
      BY <1>2 DEF CreateStage, At
    <2>3. compaction = "off" /\ warehouse = "bigquery"
      BY <1>1, <2>2 DEF OperatorInv, Before, DirectPlaces
    <2>4. NoJob \in JobType /\ NoJob.state = "none"
      BY DEF NoJob, JobType
    <2> HIDE DEF NoJob
    <2>5. new \in AttemptType /\ new.snapshot = operator[o].snapshot /\ new.job.state = "none"
      BY <1>1, <2>4 DEF AttemptType, OperatorType
    <2>6. attempt' = [attempt EXCEPT ![a] = new]
      BY <2>1
    <2> HIDE DEF new
    <2> DEFINE where == "loading"
    <2>7. operator' = [operator EXCEPT ![o].at = where, ![o].attempt = a]
          /\ where \in {"loading", "awaiting"} /\ where # "awaiting"
      BY <2>1
    <2> HIDE DEF where
    <2> QED
      BY <1>1, <2>2, <2>3, <2>5, <2>6, <2>7, AttemptBegins
  <1>3. CASE Begin(o)
    <2>1. operator[o].at = "entering" /\ warehouse # "bigquery" /\ ~At(o, "idle")
          /\ ~At(o, "awaiting") /\ told' \subseteq receipts
      BY <1>1, <1>3 DEF Begin, At, Direct
    <2>2. compaction = "off"
      BY <1>1, <2>1 DEF OperatorInv, Before
    <2>3. CASE operator[o].snapshot \in receipts
      <3>1. Returns(o) /\ UNCHANGED attempt
        BY <1>3, <2>3 DEF Begin
      <3> QED
        BY <1>1, <2>1, <3>1, JobsRest, ReturnsStep
    <2>4. CASE operator[o].snapshot \notin receipts /\ ~EmptyWarehouse
      <3>1. operator' = [operator EXCEPT ![o].at = "asking"] /\ UNCHANGED attempt
            /\ {} \in SUBSET Attempts
        BY <1>3, <2>4 DEF Begin, Goes
      <3>2. /\ "asking" \in RestorePlaces \ {"idle", "awaiting"}
            /\ "asking" \notin Before /\ "asking" \notin Attempting \cup {"tidying", "drainingLast"}
            /\ "asking" \in DirectPlaces
        BY DEF RestorePlaces, Before, Attempting, DirectPlaces
      <3> QED
        BY <1>1, <2>1, <2>2, <3>1, <3>2, JobsRest, GoesStep
    <2>5. CASE operator[o].snapshot \notin receipts /\ EmptyWarehouse
      <3> DEFINE posted == [kind |-> "commit", state |-> "running", since |-> {}, lists |-> {}]
                 new == [Nothing(operator[o].snapshot) EXCEPT !.job = posted]
      <3>1. PICK a \in Fresh :
              /\ attempt' = [attempt EXCEPT ![a] = new]
              /\ operator' = [operator EXCEPT ![o].at = "awaiting", ![o].attempt = a]
        BY <1>3, <2>5 DEF Begin
      <3>2. posted \in JobType /\ posted.kind = "commit" /\ posted.state = "running"
        BY DEF JobType
      <3> HIDE DEF posted
      <3>3. new \in AttemptType /\ new.snapshot = operator[o].snapshot /\ new.job = posted
        BY <1>1, <3>2 DEF AttemptType, OperatorType, Nothing
      <3> HIDE DEF new
      <3> DEFINE where == "awaiting"
      <3>4. operator' = [operator EXCEPT ![o].at = where, ![o].attempt = a]
            /\ where \in {"loading", "awaiting"} /\ where # "loading"
        BY <3>1
      <3> HIDE DEF where
      <3> QED
        BY <1>1, <2>1, <2>2, <2>5, <3>1, <3>2, <3>3, <3>4, AttemptBegins
    <2> QED
      BY <2>3, <2>4, <2>5
  <1>4. ASSUME Answered(o) \/ Expires(o)
        PROVE  /\ operator[o].at = "awaiting" /\ warehouse # "bigquery" /\ compaction = "off"
               /\ ~At(o, "idle")
               /\ "asking" \in RestorePlaces \ {"idle", "awaiting"} /\ {} \in SUBSET Attempts
               /\ "asking" \notin Before /\ "asking" \notin Attempting \cup {"tidying", "drainingLast"}
               /\ "asking" \in DirectPlaces
    <2>1. operator[o].at = "awaiting" /\ warehouse # "bigquery" /\ ~At(o, "idle")
      BY <1>4 DEF Answered, Expires, At, Direct
    <2> QED
      BY <1>1, <2>1 DEF OperatorInv, RestorePlaces, Before, Attempting, DirectPlaces
  <1>5. CASE Answered(o)
    <2>0. operator[o].attempt \notin Active
      BY <1>5 DEF Answered
    <2>1. CASE attempt[operator[o].attempt].job.state = "done"
      <3>1. Returns(o) /\ told' = told \cup {operator[o].snapshot} /\ UNCHANGED attempt
        BY <1>5, <2>1 DEF Answered
      <3>2. operator[o].snapshot \in receipts
        <4>1. /\ operator[o].attempt \in Attempts
              /\ attempt[operator[o].attempt].snapshot = operator[o].snapshot
              /\ attempt[operator[o].attempt].job.kind = "commit"
          BY <1>1, <1>4, <1>5 DEF OperatorInv, At, Attempting
        <4> QED
          BY <2>1, <4>1 DEF RestoreInv, JobInv, Job
      <3> QED
        BY <1>1, <1>4, <1>5, <2>0, <3>1, <3>2, JobsRest, ReturnsStep DEF Active
    <2>2. CASE attempt[operator[o].attempt].job.state # "done"
      <3>1. operator' = [operator EXCEPT ![o].at = "asking"] /\ UNCHANGED <<attempt, told>>
        BY <1>5, <2>2 DEF Answered, Goes
      <3> QED
        BY <1>1, <1>4, <1>5, <2>0, <3>1, JobsRest, GoesStep DEF Active
    <2> QED
      BY <2>1, <2>2
  <1>6. CASE Expires(o)
    <2>1. operator' = [operator EXCEPT ![o].at = "asking"] /\ UNCHANGED told
      BY <1>6 DEF Expires, Goes
    <2>2. CASE operator[o].attempt \in Active
      <3>1. attempt' = [attempt EXCEPT ![operator[o].attempt].job.state = "failed"]
        BY <1>6, <2>2 DEF Expires
      <3>2. operator[o].attempt \in Attempts /\ attempt[operator[o].attempt].job.state # "none"
        BY <2>2 DEF Active
      <3> QED
        BY <1>1, <1>4, <1>6, <2>1, <3>1, <3>2, JobEnds, GoesStep
    <2>3. CASE operator[o].attempt \notin Active
      <3>1. UNCHANGED attempt
        BY <1>6, <2>3 DEF Expires
      <3> QED
        BY <1>1, <1>4, <1>6, <2>1, <2>3, <3>1, JobsRest, GoesStep DEF Active
    <2> QED
      BY <2>2, <2>3
  <1> QED
    BY <1>2, <1>3, <1>5, <1>6

\* A command dies; its jobs go on, but for a transaction of DuckDB.
LEMMA DiesStep == ASSUME RestoreInv, NEW o \in Operators, Dies(o) PROVE RestoreInv'
  <1>1. /\ UNCHANGED <<warehouse, shared, tables, compaction>> /\ told' \subseteq receipts
        /\ compaction \in {"on", "running", "ending", "off"} /\ Returns(o) /\ ~At(o, "idle")
        /\ attempt \in [Attempts -> AttemptType]
    BY DEF Dies, RestoreInv, RestoreTypeOK, backend
  <1> DEFINE its == operator[o].attempt
  <1>2. CASE warehouse = "duckdb" /\ its \in Active
    <2>1. attempt' = [attempt EXCEPT ![its].job.state = "failed"]
      BY <1>1, <1>2 DEF Dies
    <2>2. its \in Attempts /\ attempt[its].job.state # "none"
      BY <1>2 DEF Active
    <2> QED
      BY <1>1, <2>1, <2>2, JobEnds, ReturnsStep
  <1>3. CASE ~(warehouse = "duckdb" /\ its \in Active)
    <2>1. attempt' = attempt
      BY <1>1, <1>3 DEF Dies
    <2> QED
      BY <1>1, <1>3, <2>1, JobsRest, ReturnsStep DEF Active
  <1> QED
    BY <1>2, <1>3

\* A job whose attempt alone changes, to one that keeps its snapshot and the kind of its job.
LEMMA JobStep ==
  ASSUME RestoreInv, NEW a \in Attempts, NEW new \in AttemptType,
         attempt' = [attempt EXCEPT ![a] = new],
         UNCHANGED <<warehouse, shared, tables, operator, told, compaction>>,
         new.snapshot = attempt[a].snapshot, new.job.kind = attempt[a].job.kind,
         new.job.state \in {"pending", "running"} =>
           attempt[a].job.state \in {"sent", "pending", "running"},
         new.job.state # "none" => attempt[a].job.state # "none",
         new.job.kind = "commit" /\ new.job.state = "done" => FALSE,
         new.job.kind = "commit" /\ new.job.state = "running" => receipts = {},
         warehouse # "bigquery" => new.job.state \notin {"sent", "pending"}
  PROVE  RestoreInv'
  <1>1. attempt' \in [Attempts -> AttemptType] /\ attempt'[a] = new
        /\ \A b \in Attempts \ {a} : attempt'[b] = attempt[b]
    BY DEF RestoreInv, RestoreTypeOK
  <1>2. ASSUME NEW b \in Attempts
        PROVE  /\ attempt'[b].snapshot = attempt[b].snapshot
               /\ attempt'[b].job.kind = attempt[b].job.kind
               /\ warehouse # "bigquery" /\ b \in Active' => b \in Active
               /\ JobInv(b)'
    <2>1. JobInv(b)
      BY DEF RestoreInv
    <2>2. CASE b = a
      <3>1. warehouse # "bigquery" => attempt[a].job.state # "sent"
        BY <2>1, <2>2 DEF JobInv
      <3> QED
        BY <1>1, <2>1, <2>2, <3>1 DEF JobInv, Job, Active, tables
    <2>3. CASE b # a
      BY <1>1, <2>1, <2>3 DEF JobInv, Job, Active, tables
    <2> QED
      BY <2>2, <2>3
  <1>3. compaction' \in {"on", "running", "ending", "off"}
        /\ (compaction = "off" => compaction' = "off")
    BY DEF RestoreInv, RestoreTypeOK
  <1> QED
    BY <1>1, <1>2, <1>3, WarehouseStep

\* The jobs of an attempt up to its commit, and the runs of the compaction.
LEMMA JobSteps ==
  ASSUME RestoreInv,
         \/ \E a \in Attempts : Arrives(a) \/ Load(a) \/ StartCommit(a) \/ JobFails(a)
         \/ CompactionRuns \/ CompactionEnds
  PROVE  RestoreInv'
  <1>1. /\ UNCHANGED <<warehouse, shared, tables, operator, told>>
        /\ attempt \in [Attempts -> AttemptType] /\ compaction \in {"on", "running", "ending", "off"}
    BY DEF Arrives, Load, StartCommit, JobFails, CompactionRuns, CompactionEnds, others,
           RestoreInv, RestoreTypeOK, backend
  <1>2. ASSUME NEW a \in Attempts,
               NEW state \in {"pending", "running", "refused", "failed", "done"},
               attempt' = [attempt EXCEPT ![a].job.state = state], UNCHANGED compaction,
               state = "pending" => attempt[a].job.state = "sent",
               state = "running" => attempt[a].job.state = "pending" /\ receipts = {},
               state = "done" => attempt[a].job.kind = "load",
               attempt[a].job.state # "none"
        PROVE  RestoreInv'
    <2> DEFINE posted == [attempt[a].job EXCEPT !.state = state]
               new == [attempt[a] EXCEPT !.job = posted]
    <2>1. posted \in JobType /\ posted.state = state /\ posted.kind = attempt[a].job.kind
      BY <1>1 DEF AttemptType, JobType
    <2>3. attempt' = [attempt EXCEPT ![a] = new]
      BY <1>1, <1>2
    <2> HIDE DEF posted
    <2>2. /\ new \in AttemptType /\ new.snapshot = attempt[a].snapshot
          /\ new.job.state = state /\ new.job.kind = attempt[a].job.kind
      BY <1>1, <2>1 DEF AttemptType
    <2> HIDE DEF new
    <2>4. warehouse # "bigquery" => state # "pending"
      BY <1>2 DEF RestoreInv, JobInv
    <2> QED
      BY <1>1, <1>2, <2>2, <2>3, <2>4, JobStep
  <1>3. ASSUME NEW a \in Attempts, Arrives(a) PROVE RestoreInv'
    BY <1>1, <1>2, <1>3 DEF Arrives, Becomes
  <1>4. ASSUME NEW a \in Attempts, Load(a) PROVE RestoreInv'
    <2>1. CASE a \in Staged
      <3> DEFINE posted == [attempt[a].job EXCEPT !.state = "done"]
                 new == [attempt[a] EXCEPT !.stage = "loaded", !.job = posted]
      <3>1. posted \in JobType /\ posted.state = "done" /\ posted.kind = attempt[a].job.kind
        BY <1>1 DEF AttemptType, JobType
      <3>3. attempt' = [attempt EXCEPT ![a].stage = "loaded", ![a].job.state = "done"]
        BY <1>4, <2>1 DEF Load
      <3>4. attempt' = [attempt EXCEPT ![a] = new]
        BY <1>1, <3>3 DEF AttemptType
      <3> HIDE DEF posted
      <3>2. /\ new \in AttemptType /\ new.snapshot = attempt[a].snapshot
            /\ new.job.state = "done" /\ new.job.kind = attempt[a].job.kind
        BY <1>1, <3>1 DEF AttemptType
      <3>5. attempt[a].job.kind = "load" /\ attempt[a].job.state = "pending" /\ UNCHANGED compaction
        BY <1>4 DEF Load, Job
      <3> HIDE DEF new
      <3> QED
        BY <1>1, <3>2, <3>4, <3>5, JobStep
    <2>2. CASE a \notin Staged
      BY <1>1, <1>2, <1>4, <2>2 DEF Load, Job
    <2> QED
      BY <2>1, <2>2
  <1>5. ASSUME NEW a \in Attempts, StartCommit(a) PROVE RestoreInv'
    <2>1. EmptyWarehouse => receipts = {}
      BY DEF EmptyWarehouse, RestoreInv, RestoreTypeOK, ReceiptsInv
    <2>2. PICK state \in {"failed", "refused", "running"} :
            attempt' = [attempt EXCEPT ![a].job.state = state]
              /\ (state = "running" => EmptyWarehouse)
      BY <1>5 DEF StartCommit, Becomes
    <2>3. attempt[a].job.state = "pending" /\ UNCHANGED compaction
      BY <1>5 DEF StartCommit, Job
    <2> QED
      BY <1>1, <1>2, <2>1, <2>2, <2>3
  <1>6. ASSUME NEW a \in Attempts, JobFails(a) PROVE RestoreInv'
    BY <1>1, <1>2, <1>6 DEF JobFails, Becomes, Active
  <1>7. CASE CompactionRuns
    <2>1. compaction = "on" /\ compaction' = "running" /\ UNCHANGED attempt
      BY <1>7 DEF CompactionRuns
    <2> QED
      BY <1>1, <2>1, JobsRest, WarehouseStep
  <1>8. CASE CompactionEnds
    <2>1. compaction' \in {"on", "running", "ending", "off"}
          /\ (compaction = "off" => compaction' = "off")
      BY <1>8 DEF CompactionEnds
    <2>2. ASSUME NEW b \in Attempts
          PROVE  /\ attempt'[b] \in AttemptType /\ attempt'[b].snapshot = attempt[b].snapshot
                 /\ attempt'[b].job.kind = attempt[b].job.kind
                 /\ attempt'[b].job.state = attempt[b].job.state
                 /\ attempt[b].job.since \subseteq attempt'[b].job.since
      <3>1. attempt[b] \in AttemptType /\ attempt[b].job \in JobType
        BY <1>1 DEF AttemptType
      <3> DEFINE posted == [attempt[b].job EXCEPT !.since = @ \cup {"compaction"}]
                 new == [attempt[b] EXCEPT !.job = posted]
      <3>2. posted \in JobType /\ posted.kind = attempt[b].job.kind
            /\ posted.state = attempt[b].job.state
            /\ attempt[b].job.since \subseteq posted.since
        BY <3>1 DEF JobType
      <3> HIDE DEF posted
      <3>3. new \in AttemptType /\ new.snapshot = attempt[b].snapshot /\ new.job = posted
        BY <3>1, <3>2 DEF AttemptType
      <3>4. attempt'[b] = attempt[b] \/ attempt'[b] = new
        BY <1>8 DEF CompactionEnds, posted
      <3> HIDE DEF new
      <3> QED
        BY <3>1, <3>2, <3>3, <3>4
    <2>3. attempt' \in [Attempts -> AttemptType]
      BY <1>8, <2>2 DEF CompactionEnds
    <2>4. \A b \in Attempts : JobInv(b)'
      BY <1>1, <2>2 DEF RestoreInv, JobInv, Job, tables
    <2>5. \A b \in Active' : b \in Attempts
      BY DEF Active
    <2>6. \A b \in Attempts : b \in Active' => b \in Active
      BY <2>2 DEF Active
    <2> QED
      BY <1>1, <2>1, <2>2, <2>3, <2>4, <2>6, WarehouseStep
  <1> QED
    BY <1>3, <1>4, <1>5, <1>6, <1>7, <1>8

\* A commit takes effect if nothing it conflicts with did since it began, and those that run
\* beside it take note.
LEMMA CommitStep == ASSUME RestoreInv, NEW a \in Attempts, Commit(a) PROVE RestoreInv'
  <1>1. /\ UNCHANGED <<warehouse, shared, operator, told, compaction>>
        /\ attempt \in [Attempts -> AttemptType] /\ JobInv(a) /\ Job(a, "commit", "running")
        /\ warehouse \in {"duckdb", "motherduck", "bigquery"}
    BY DEF Commit, others, backend, RestoreInv, RestoreTypeOK
  <1> DEFINE s == attempt[a].snapshot
  <1>2. CASE \E t \in attempt[a].job.since : Conflicts(s, t)
    <2> DEFINE state == "refused"
    <2>1. attempt' = [attempt EXCEPT ![a].job.state = state] /\ UNCHANGED tables
          /\ state \in {"refused", "failed"}
      BY <1>2 DEF Commit, Becomes
    <2> HIDE DEF state
    <2>2. attempt[a].job.state # "none"
      BY <1>1 DEF Job
    <2>3. compaction \in {"on", "running", "ending", "off"}
      BY DEF RestoreInv, RestoreTypeOK
    <2> QED
      BY <1>1, <2>1, <2>2, <2>3, JobEnds, WarehouseStep
  <1>3. CASE ~ \E t \in attempt[a].job.since : Conflicts(s, t)
    <2>1. /\ restored' = [restored EXCEPT ![s] = @ + 1] /\ receipts' = receipts \cup {s}
          /\ attempt' = [b \in Attempts |->
               IF b = a THEN [attempt[b] EXCEPT !.job.state = "done"]
               ELSE IF Job(b, "commit", "running")
                 THEN [attempt[b] EXCEPT !.job.since = @ \cup {s}]
               ELSE attempt[b]]
      BY <1>3 DEF Commit
    <2>2. s \in Snapshots /\ receipts \subseteq attempt[a].job.since
          /\ (warehouse = "duckdb" => receipts = {})
      BY <1>1 DEF JobInv, Job
    <2>3. \A t \in receipts : warehouse = "motherduck" /\ s # t /\ {s, t} \notin shared
      BY <1>1, <1>3, <2>2 DEF Conflicts
    <2>4. ASSUME NEW b \in Attempts
          PROVE  /\ attempt'[b] \in AttemptType /\ attempt'[b].snapshot = attempt[b].snapshot
                 /\ attempt'[b].job.kind = attempt[b].job.kind
                 /\ \/ b = a /\ attempt'[b].job.state = "done"
                    \/ /\ b # a /\ attempt'[b].job.state = attempt[b].job.state
                       /\ Job(b, "commit", "running") =>
                            attempt'[b].job.since = attempt[b].job.since \cup {s}
      <3>1. attempt[b] \in AttemptType /\ attempt[b].job \in JobType
        BY <1>1 DEF AttemptType
      <3>2. CASE b = a
        <4> DEFINE posted == [attempt[b].job EXCEPT !.state = "done"]
                   new == [attempt[b] EXCEPT !.job = posted]
        <4>1. posted \in JobType /\ posted.kind = attempt[b].job.kind /\ posted.state = "done"
          BY <3>1 DEF JobType
        <4> HIDE DEF posted
        <4>2. new \in AttemptType /\ new.snapshot = attempt[b].snapshot /\ new.job = posted
          BY <3>1, <4>1 DEF AttemptType
        <4>3. attempt'[b] = new
          BY <2>1, <3>2 DEF posted
        <4> QED
          BY <3>2, <4>1, <4>2, <4>3
      <3>3. CASE b # a
        <4> DEFINE posted == [attempt[b].job EXCEPT !.since = @ \cup {s}]
                   new == [attempt[b] EXCEPT !.job = posted]
        <4> HIDE DEF s
        <4>1. /\ posted \in JobType /\ posted.kind = attempt[b].job.kind
              /\ posted.state = attempt[b].job.state
              /\ posted.since = attempt[b].job.since \cup {s}
          BY <2>2, <3>1 DEF JobType
        <4> HIDE DEF posted
        <4>2. new \in AttemptType /\ new.snapshot = attempt[b].snapshot /\ new.job = posted
          BY <3>1, <4>1 DEF AttemptType
        <4>3. attempt'[b] = IF Job(b, "commit", "running") THEN new ELSE attempt[b]
          BY <2>1, <3>3 DEF posted
        <4> HIDE DEF new
        <4> QED
          BY <3>1, <3>3, <4>1, <4>2, <4>3
      <3> QED
        BY <3>2, <3>3
    <2>5. attempt' \in [Attempts -> AttemptType]
      BY <2>1, <2>4
    <2>6. s = attempt[a].snapshot /\ s \in receipts' /\ receipts \subseteq receipts'
      BY <2>1
    <2> HIDE DEF s
    <2>7. \A b \in Active' : b \in Active /\ b \in Attempts /\ b # a
      BY <2>4 DEF Active
    <2>8. warehouse = "duckdb" => Active' = {}
      <3> SUFFICES ASSUME warehouse = "duckdb", NEW b \in Active' PROVE FALSE
        OBVIOUS
      <3>1. a \in Active /\ b \in Active /\ b # a
        BY <1>1, <2>7 DEF Active, Job
      <3>2. PICK o \in Operators : At(o, "awaiting") /\ operator[o].attempt = a
        BY <3>1 DEF RestoreInv, OneAtATime
      <3> QED
        BY <3>1, <3>2, NothingElse DEF At
    <2>9. \A b \in Attempts : JobInv(b)'
      <3> SUFFICES ASSUME NEW b \in Attempts PROVE JobInv(b)'
        OBVIOUS
      <3>1. JobInv(b)
        BY DEF RestoreInv
      <3>2. CASE b = a
        <4>1. attempt'[b].snapshot \in receipts' /\ attempt'[b].snapshot \in Snapshots
          BY <2>2, <2>4, <2>6, <3>2
        <4> QED
          BY <2>4, <3>2, <4>1 DEF JobInv, Job
      <3>3. CASE b # a
        <4>1. receipts' = receipts \cup {s}
          BY <2>1
        <4>2. Job(b, "commit", "running")' =>
                /\ receipts' \subseteq attempt'[b].job.since
                /\ warehouse # "duckdb"
          <5>1. Job(b, "commit", "running")' => Job(b, "commit", "running") /\ b \in Active'
            BY <2>4, <3>3 DEF Job, Active
          <5> QED
            BY <2>4, <2>8, <3>1, <3>3, <4>1, <5>1 DEF JobInv
        <4> QED
          BY <1>1, <2>4, <2>6, <3>1, <3>3, <4>2 DEF JobInv, Job
      <3> QED
        BY <3>2, <3>3
    <2>10. \A p \in Operators : OperatorInv(p)'
      <3> SUFFICES ASSUME NEW p \in Operators PROVE OperatorInv(p)'
        OBVIOUS
      <3>1. OperatorInv(p) /\ receipts \subseteq receipts'
        BY <2>1 DEF RestoreInv
      <3> QED
        BY <1>1, <2>4, <3>1 DEF OperatorInv, At, Attempting
    <2>11. OneAtATime'
      BY <1>1, <2>8 DEF OneAtATime, At, RestoreInv
    <2>12. restored \in [Snapshots -> Nat]
      BY DEF RestoreInv, RestoreTypeOK
    <2>13. ReceiptsInv' /\ restored' \in [Snapshots -> Nat]
      <3>1. ReceiptsInv /\ s \notin receipts /\ restored[s] = 0
        BY <2>2, <2>3 DEF RestoreInv, ReceiptsInv
      <3>2. /\ restored' \in [Snapshots -> Nat]
            /\ \A t \in Snapshots : restored'[t] = IF t \in receipts' THEN 1 ELSE 0
        BY <2>1, <2>2, <2>12, <3>1 DEF ReceiptsInv
      <3>3. \A t, u \in receipts' : t = u \/ (warehouse = "motherduck" /\ {t, u} \notin shared)
        <4>1. \A t \in receipts : {t, s} = {s, t}
          OBVIOUS
        <4> QED
          BY <2>1, <2>3, <3>1, <4>1 DEF ReceiptsInv
      <3> QED
        BY <1>1, <3>2, <3>3 DEF ReceiptsInv
    <2>14. RestoreTypeOK'
      BY <1>1, <2>1, <2>2, <2>5, <2>13 DEF RestoreInv, RestoreTypeOK
    <2> QED
      BY <2>9, <2>10, <2>11, <2>13, <2>14 DEF RestoreInv
  <1> QED
    BY <1>2, <1>3

\* A step of the operators, the jobs or the compaction.
LEMMA RestoreSteps == RestoreInv /\ [RestoreNext]_rvars => RestoreInv'
  <1> SUFFICES ASSUME RestoreInv, [RestoreNext]_rvars PROVE RestoreInv'
    OBVIOUS
  <1>1. CASE UNCHANGED rvars
    <2>1. UNCHANGED <<warehouse, shared, tables, attempt, operator, told, compaction>>
      BY <1>1 DEF rvars, tables, backend
    <2>2. compaction \in {"on", "running", "ending", "off"}
      BY DEF RestoreInv, RestoreTypeOK
    <2> QED
      BY <2>1, <2>2, JobsRest, WarehouseStep
  <1> QED
    BY <1>1, CommandSteps, CleanSteps, CommandStep, SubmitStep, AttemptSteps, DiesStep, JobSteps,
       CommitStep DEF RestoreNext, Restores, Proceeds

\* The invariant holds in every behaviour, and is enough.
LEMMA RestoreAlways == RestoreInit /\ [][RestoreNext]_rvars => []RestoresOnce
  <1>1. RestoreInv => RestoresOnce
    <2> SUFFICES ASSUME RestoreInv PROVE RestoresOnce
      OBVIOUS
    <2>2. RestoredWhole
      BY DEF RestoreInv, RestoreTypeOK, ReceiptsInv, JobInv, RestoredWhole
    <2>3. CompactionIsQuiet
      BY DEF RestoreInv, OperatorInv, CompactionIsQuiet
    <2> QED
      BY <2>2, <2>3 DEF RestoresOnce
  <1> QED
    BY <1>1, RestoreBegins, RestoreSteps, PTL

\* However attempts are cut, repeated or run side by side, of one snapshot or of several, each is
\* restored at most once and named by a receipt, two of them only on MotherDuck and without a
\* common key; success is told of what is there, and no run of the compaction meets an attempt.
THEOREM RestoreIsSafe == RestoreSpec => []RestoresOnce
  BY RestoreAlways, PTL DEF RestoreSpec

-----------------------------------------------------------------------------
(* Worker: who can still be found.                                         *)

WorkerTypeOK ==
  /\ pidFile \in Pids \cup {0}
  /\ worker \in [Pids -> WorkerStates] /\ command \in [Commands -> WorkerCommand]

\* A number that has been given to a process.
Known(p) == p # 0 => worker[p] # "none"

\* What a command knows of the worker it deals with, and of the one it read of: who is about to
\* change the file has read of none that runs.
CommandInv(c) ==
  /\ Known(command[c].pid) /\ Known(command[c].saw)
  /\ Op(c, "record") => command[c].pid \in Pids /\ command[c].saw = 0
  /\ Op(c, "unlink") \/ Op(c, "forget") => ~Runs(command[c].saw)
  /\ Op(c, "signal") \/ Op(c, "await") => command[c].pid \in Pids /\ command[c].saw = command[c].pid

WorkerInv ==
  /\ WorkerTypeOK /\ WorkerRecorded /\ Known(pidFile)
  /\ \A c \in Commands : CommandInv(c)

\* No worker has been started.
LEMMA WorkerBegins == WorkerInit => WorkerInv
  <1> SUFFICES ASSUME WorkerInit PROVE WorkerInv
    OBVIOUS
  <1>1. /\ NoCommand \in WorkerCommand /\ NoCommand.op = "none"
        /\ NoCommand.pid = 0 /\ NoCommand.saw = 0
    BY DEF NoCommand, WorkerCommand
  <1> HIDE DEF NoCommand
  <1>2. WorkerTypeOK
    BY <1>1 DEF WorkerInit, WorkerTypeOK, WorkerStates
  <1>3. WorkerRecorded
    BY DEF WorkerInit, WorkerRecorded, Runs
  <1> QED
    BY <1>1, <1>2, <1>3 DEF WorkerInit, WorkerInv, CommandInv, Known, Op

\* A worker goes its way; none starts by itself.
LEMMA WorkerGoes ==
  ASSUME WorkerInv, worker' \in [Pids -> WorkerStates], UNCHANGED controls,
         \A w \in Pids : (Runs(w)' => Runs(w)) /\ (worker[w] # "none" => worker'[w] # "none")
  PROVE  WorkerInv'
  <1>1. UNCHANGED <<pidFile, command, dismissed, lost>> /\ command \in [Commands -> WorkerCommand]
    BY DEF controls, WorkerInv, WorkerTypeOK
  <1>2. WorkerTypeOK' /\ Known(pidFile)'
    BY <1>1 DEF WorkerInv, WorkerTypeOK, Known
  <1>3. WorkerRecorded'
    BY <1>1 DEF WorkerInv, WorkerRecorded, Op
  <1>4. ASSUME NEW c \in Commands PROVE CommandInv(c)'
    <2>1. CommandInv(c) /\ command[c].saw \in Pids \cup {0} /\ command[c].pid \in Pids \cup {0}
      BY <1>1 DEF WorkerInv, WorkerCommand
    <2>2. Runs(command[c].saw)' => Runs(command[c].saw)
      BY <1>1, <2>1 DEF Runs
    <2>3. Known(command[c].saw)' /\ Known(command[c].pid)'
      BY <1>1, <2>1 DEF CommandInv, Known
    <2> QED
      BY <1>1, <2>1, <2>2, <2>3 DEF CommandInv, Op
  <1> QED
    BY <1>2, <1>3, <1>4 DEF WorkerInv

\* The steps of the main thread and of the snapshot thread.
LEMMA WorkerStepsGo ==
  ASSUME WorkerInv, NEW w \in Pids,
         WorkerStep(w) \/ StartsSnapshots(w) \/ FailsToStart(w) \/ Breaks(w) \/ WorkerDies(w)
  PROVE  WorkerInv'
  <1>1. worker \in [Pids -> WorkerStates]
    BY DEF WorkerInv, WorkerTypeOK
  <1>2. UNCHANGED controls
    BY DEF WorkerStep, StartsSnapshots, FailsToStart, Breaks, WorkerDies, InstallsHandlers, Loops,
           Collects, Wakes, Leaves, Ends, ChecksSnapshots, SnapshotsWake
  <1>3. \/ UNCHANGED worker
        \/ \E to \in WorkerStates \ {"none"} : worker' = [worker EXCEPT ![w] = to] /\ Runs(w)
    BY WorkerAssumption
       DEF WorkerStep, StartsSnapshots, FailsToStart, Breaks, WorkerDies, InstallsHandlers, Loops,
           Collects, Wakes, Leaves, Ends, ChecksSnapshots, SnapshotsWake, Works, Runs, WorkerStates
  <1>4. worker' \in [Pids -> WorkerStates]
    BY <1>1, <1>3
  <1>5. \A x \in Pids : (Runs(x)' => Runs(x)) /\ (worker[x] # "none" => worker'[x] # "none")
    BY <1>1, <1>3 DEF Runs
  <1> QED
    BY <1>2, <1>4, <1>5, WorkerGoes

\* A command goes on: it may start a worker that it is to record, or change the file if the
\* worker it forgets has gone or is lost; and a worker it was to record is recorded or not its
\* any more.
LEMMA CommandGoes ==
  ASSUME WorkerInv, NEW c \in Commands, NEW new \in WorkerCommand,
         command' = [command EXCEPT ![c] = new],
         pidFile' \in Pids \cup {0}, worker' \in [Pids -> WorkerStates],
         dismissed \subseteq dismissed', lost \subseteq lost', Known(pidFile)',
         \A w \in Pids :
           /\ worker[w] # "none" => worker'[w] # "none"
           /\ Runs(w)' => Runs(w) \/ (worker[w] = "none" /\ new.op = "record" /\ new.pid = w),
         pidFile' = pidFile \/ pidFile = 0 \/ ~Runs(pidFile) \/ pidFile \in lost',
         Op(c, "record") =>
           \/ pidFile' = command[c].pid
           \/ command[c].pid \in dismissed' \/ command[c].pid \in lost',
         command'[c] = new => CommandInv(c)'
  PROVE  WorkerInv'
  <1>1. command' \in [Commands -> WorkerCommand] /\ command'[c] = new
        /\ \A d \in Commands \ {c} : command'[d] = command[d]
    BY DEF WorkerInv, WorkerTypeOK
  <1>2. WorkerTypeOK'
    BY <1>1 DEF WorkerTypeOK
  <1>3. ASSUME NEW w \in Pids, Runs(w)'
        PROVE  \/ pidFile' = w \/ w \in dismissed' \/ w \in lost'
               \/ \E d \in Commands : Op(d, "record")' /\ command'[d].pid = w
    <2>1. CASE Runs(w)
      <3>1. \/ pidFile = w \/ w \in dismissed \/ w \in lost
            \/ \E d \in Commands : Op(d, "record") /\ command[d].pid = w
        BY <2>1 DEF WorkerInv, WorkerRecorded
      <3>2. CASE pidFile = w
        BY <1>3, <2>1, <3>2, WorkerAssumption DEF Runs
      <3>3. ASSUME NEW d \in Commands, Op(d, "record"), command[d].pid = w
            PROVE  \/ pidFile' = w \/ w \in dismissed' \/ w \in lost'
                   \/ \E e \in Commands : Op(e, "record")' /\ command'[e].pid = w
        BY <1>1, <3>3 DEF Op
      <3> QED
        BY <3>1, <3>2, <3>3
    <2>2. CASE ~Runs(w)
      BY <1>1, <1>3, <2>2 DEF Op
    <2> QED
      BY <2>1, <2>2
  <1>4. WorkerRecorded'
    BY <1>3 DEF WorkerRecorded
  <1>5. ASSUME NEW d \in Commands PROVE CommandInv(d)'
    <2>1. CASE d = c
      BY <1>1, <2>1
    <2>2. CASE d # c
      <3>1. /\ CommandInv(d) /\ command'[d] = command[d]
            /\ command[d].saw \in Pids \cup {0} /\ command[d].pid \in Pids \cup {0}
        BY <1>1, <2>2 DEF WorkerInv, WorkerTypeOK, WorkerCommand
      <3>2. Runs(command[d].saw)' => Runs(command[d].saw)
        BY <3>1 DEF CommandInv, Known, Runs
      <3>3. Known(command[d].saw)' /\ Known(command[d].pid)'
        BY <3>1 DEF CommandInv, Known
      <3> QED
        BY <3>1, <3>2, <3>3 DEF CommandInv, Op
    <2> QED
      BY <2>1, <2>2
  <1> QED
    BY <1>2, <1>4, <1>5 DEF WorkerInv

\* A signal starts nobody.
LEMMA SignalStep ==
  ASSUME WorkerInv, NEW p \in Pids, Signal(p)
  PROVE  /\ worker' \in [Pids -> WorkerStates]
         /\ \A w \in Pids : (Runs(w)' => Runs(w)) /\ (worker[w] # "none" => worker'[w] # "none")
  <1>1. worker \in [Pids -> WorkerStates]
    BY DEF WorkerInv, WorkerTypeOK
  <1>2. \/ UNCHANGED worker
        \/ worker' = [worker EXCEPT ![p] = "exited"] /\ worker[p] = "starting"
    BY DEF Signal
  <1> QED
    BY <1>1, <1>2 DEF WorkerStates, Runs

\* start and stop, step by step.
LEMMA CommandGoesOn ==
  ASSUME WorkerInv, NEW c \in Commands,
         \/ CheckStart(c) \/ Unlink(c) \/ Spawn(c) \/ SpawnFails(c) \/ Record(c) \/ RecordFails(c)
         \/ CheckStop(c) \/ SendSignal(c) \/ AwaitExit(c) \/ Forget(c) \/ CommandEnds(c)
  PROVE  WorkerInv'
  <1>1. /\ pidFile \in Pids \cup {0} /\ worker \in [Pids -> WorkerStates]
        /\ command[c] \in WorkerCommand /\ CommandInv(c) /\ Known(pidFile)
    BY DEF WorkerInv, WorkerTypeOK
  <1>2. command[c].pid \in Pids \cup {0} /\ command[c].saw \in Pids \cup {0}
    BY <1>1 DEF WorkerCommand
  <1>3. ASSUME UNCHANGED worker
        PROVE  /\ worker' \in [Pids -> WorkerStates]
               /\ \A w \in Pids : (Runs(w)' => Runs(w)) /\ (worker[w] # "none" => worker'[w] # "none")
               /\ \A p : (Known(p) => Known(p)') /\ (Runs(p)' => Runs(p))
    BY <1>1, <1>3 DEF Runs, Known
  <1>4. ASSUME Done(c), worker' \in [Pids -> WorkerStates], pidFile' \in Pids \cup {0},
               \A w \in Pids : (Runs(w)' => Runs(w)) /\ (worker[w] # "none" => worker'[w] # "none"),
               dismissed \subseteq dismissed', lost \subseteq lost', Known(pidFile)',
               pidFile' = pidFile \/ pidFile = 0 \/ ~Runs(pidFile) \/ pidFile \in lost',
               Op(c, "record") =>
                 \/ pidFile' = command[c].pid
                 \/ command[c].pid \in dismissed' \/ command[c].pid \in lost'
        PROVE  WorkerInv'
    <2>1. /\ NoCommand \in WorkerCommand /\ NoCommand.op = "none"
          /\ NoCommand.pid = 0 /\ NoCommand.saw = 0
          /\ command' = [command EXCEPT ![c] = NoCommand]
      BY <1>4 DEF NoCommand, WorkerCommand, Done
    <2> HIDE DEF NoCommand
    <2>2. command'[c] = NoCommand => CommandInv(c)'
      BY <2>1 DEF CommandInv, Op, Known
    <2> QED
      BY <1>4, <2>1, <2>2, CommandGoes
  <1>5. ASSUME NEW op \in {"unlink", "spawn", "signal", "await", "forget"},
               NEW pid \in Pids \cup {0}, NEW saw \in Pids \cup {0}, ~Op(c, "record"),
               CommandBecomes(c, op, pid, saw), worker' \in [Pids -> WorkerStates],
               pidFile' \in Pids \cup {0},
               \A w \in Pids : (Runs(w)' => Runs(w)) /\ (worker[w] # "none" => worker'[w] # "none"),
               dismissed \subseteq dismissed', lost \subseteq lost', Known(pidFile)',
               pidFile' = pidFile \/ pidFile = 0 \/ ~Runs(pidFile) \/ pidFile \in lost',
               Known(pid), Known(saw),
               op \in {"unlink", "forget"} => ~Runs(saw),
               op \in {"signal", "await"} => pid \in Pids /\ saw = pid
        PROVE  WorkerInv'
    <2> DEFINE new == [op |-> op, pid |-> pid, saw |-> saw]
    <2>1. new \in WorkerCommand /\ new.op = op /\ new.pid = pid /\ new.saw = saw
          /\ command' = [command EXCEPT ![c] = new]
      BY <1>5 DEF WorkerCommand, CommandBecomes
    <2> HIDE DEF new
    <2>2. command'[c] = new => CommandInv(c)'
      <3>1. Known(pid)' /\ Known(saw)' /\ (Runs(saw)' => Runs(saw))
        BY <1>5 DEF Known, Runs
      <3> QED
        BY <1>5, <2>1, <3>1 DEF CommandInv, Op, Known
    <2> QED
      BY <1>5, <2>1, <2>2, CommandGoes
  <1>6. CASE CheckStart(c)
    <2>1. UNCHANGED <<pidFile, worker, dismissed, lost>> /\ ~Op(c, "record")
      BY <1>6 DEF CheckStart, Op
    <2>2. CASE Runs(pidFile)
      BY <1>1, <1>3, <1>4, <1>6, <2>1, <2>2 DEF CheckStart
    <2>3. CASE ~Runs(pidFile)
      <3>1. CommandBecomes(c, "unlink", 0, pidFile) /\ Known(0)
        BY <1>6, <2>3 DEF CheckStart, Known
      <3> QED
        BY <1>1, <1>3, <1>5, <2>1, <2>3, <3>1
    <2> QED
      BY <2>2, <2>3
  <1>7. ASSUME Unlink(c) \/ Forget(c) PROVE WorkerInv'
    <2>1. /\ UNCHANGED <<worker, dismissed>> /\ pidFile' = 0 /\ Overlooks(c) /\ ~Op(c, "record")
          /\ CommandBecomes(c, "spawn", 0, 0) \/ Done(c)
          /\ ~Runs(command[c].saw)
      BY <1>1, <1>7 DEF Unlink, Forget, Op, CommandInv
    <2>2. lost \subseteq lost' /\ (pidFile = 0 \/ ~Runs(pidFile) \/ pidFile \in lost')
      BY <2>1 DEF Overlooks
    <2>3. Known(0) /\ Known(pidFile)'
      BY <2>1 DEF Known
    <2> QED
      BY <1>3, <1>4, <1>5, <2>1, <2>2, <2>3
  <1>8. CASE Spawn(c)
    <2>1. PICK w \in Pids : /\ worker[w] = "none" /\ worker' = [worker EXCEPT ![w] = "starting"]
                            /\ CommandBecomes(c, "record", w, 0)
      BY <1>8 DEF Spawn
    <2>2. UNCHANGED <<pidFile, dismissed, lost>> /\ ~Op(c, "record")
      BY <1>8 DEF Spawn, Op
    <2>3. worker' \in [Pids -> WorkerStates] /\ worker'[w] = "starting"
          /\ \A x \in Pids \ {w} : worker'[x] = worker[x]
      BY <1>1, <2>1 DEF WorkerStates
    <2> DEFINE new == [op |-> "record", pid |-> w, saw |-> 0]
    <2>4. new \in WorkerCommand /\ new.op = "record" /\ new.pid = w /\ new.saw = 0
          /\ command' = [command EXCEPT ![c] = new]
      BY <2>1 DEF WorkerCommand, CommandBecomes
    <2> HIDE DEF new
    <2>5. Known(w)' /\ Known(pidFile)' /\ Known(0)'
      BY <1>1, <2>2, <2>3 DEF Known
    <2>6. command'[c] = new => CommandInv(c)'
      BY <2>4, <2>5 DEF CommandInv, Op, Known
    <2>7. \A x \in Pids :
            /\ worker[x] # "none" => worker'[x] # "none"
            /\ Runs(x)' => Runs(x) \/ (worker[x] = "none" /\ new.op = "record" /\ new.pid = x)
      BY <2>1, <2>3, <2>4 DEF Runs
    <2> QED
      BY <1>1, <2>2, <2>3, <2>4, <2>5, <2>6, <2>7, CommandGoes
  <1>9. CASE SpawnFails(c)
    <2>1. UNCHANGED <<pidFile, worker, dismissed, lost>> /\ ~Op(c, "record") /\ Done(c)
      BY <1>9 DEF SpawnFails, Op
    <2> QED
      BY <1>1, <1>3, <1>4, <2>1
  <1>10. CASE Record(c)
    <2>1. /\ UNCHANGED <<worker, dismissed>> /\ pidFile' = command[c].pid /\ Done(c)
          /\ Overlooks(c) /\ command[c].saw = 0 /\ Known(command[c].pid)
      BY <1>1, <1>10 DEF Record, Op, CommandInv
    <2>2. lost \subseteq lost' /\ (pidFile = 0 \/ pidFile \in lost')
      BY <2>1 DEF Overlooks
    <2>3. Known(pidFile)'
      BY <2>1 DEF Known
    <2> QED
      BY <1>2, <1>3, <1>4, <2>1, <2>2, <2>3
  <1>11. CASE RecordFails(c)
    <2>1. command[c].pid \in Pids /\ Done(c) /\ UNCHANGED pidFile
      BY <1>1, <1>11 DEF RecordFails, CommandInv
    <2>2. /\ \/ Signal(command[c].pid) \/ UNCHANGED worker
          /\ command[c].pid \in dismissed' \/ command[c].pid \in lost'
          /\ dismissed \subseteq dismissed' /\ lost \subseteq lost'
      BY <1>11 DEF RecordFails
    <2>3. /\ worker' \in [Pids -> WorkerStates]
          /\ \A w \in Pids : (Runs(w)' => Runs(w)) /\ (worker[w] # "none" => worker'[w] # "none")
      BY <1>3, <2>1, <2>2, SignalStep
    <2>4. Known(pidFile)'
      BY <1>1, <2>1, <2>3 DEF Known
    <2> QED
      BY <1>1, <1>4, <2>1, <2>2, <2>3, <2>4
  <1>12. CASE CheckStop(c)
    <2>1. UNCHANGED <<pidFile, worker, dismissed, lost>> /\ ~Op(c, "record")
          /\ CommandBecomes(c, IF Runs(pidFile) THEN "signal" ELSE "forget", pidFile, pidFile)
      BY <1>12 DEF CheckStop, Op
    <2>2. CASE Runs(pidFile)
      <3>1. CommandBecomes(c, "signal", pidFile, pidFile) /\ pidFile \in Pids
        BY <1>1, <2>1, <2>2 DEF Runs
      <3> QED
        BY <1>1, <1>3, <1>5, <2>1, <3>1
    <2>3. CASE ~Runs(pidFile)
      <3>1. CommandBecomes(c, "forget", pidFile, pidFile)
        BY <2>1, <2>3
      <3> QED
        BY <1>1, <1>3, <1>5, <2>1, <2>3, <3>1
    <2> QED
      BY <2>2, <2>3
  <1>13. CASE SendSignal(c)
    <2>1. /\ command[c].pid \in Pids /\ command[c].saw = command[c].pid /\ Known(command[c].pid)
          /\ Signal(command[c].pid) /\ UNCHANGED <<pidFile, dismissed, lost>> /\ ~Op(c, "record")
          /\ CommandBecomes(c, "await", command[c].pid, command[c].saw)
      BY <1>1, <1>13 DEF SendSignal, CommandInv, Op
    <2>2. /\ worker' \in [Pids -> WorkerStates]
          /\ \A w \in Pids : (Runs(w)' => Runs(w)) /\ (worker[w] # "none" => worker'[w] # "none")
      BY <2>1, SignalStep
    <2>3. Known(pidFile)'
      BY <1>1, <2>1, <2>2 DEF Known
    <2> QED
      BY <1>1, <1>2, <1>5, <2>1, <2>2, <2>3
  <1>14. CASE AwaitExit(c)
    <2>1. /\ UNCHANGED <<pidFile, worker, dismissed, lost>> /\ ~Op(c, "record")
          /\ command[c].saw = command[c].pid /\ Known(command[c].pid)
          /\ \/ Done(c)
             \/ CommandBecomes(c, "forget", command[c].pid, command[c].saw)
                  /\ ~Runs(command[c].saw)
      BY <1>1, <1>14 DEF AwaitExit, CommandInv, Op
    <2> QED
      BY <1>1, <1>2, <1>3, <1>4, <1>5, <2>1
  <1>15. CASE CommandEnds(c)
    <2>1. /\ UNCHANGED <<pidFile, worker, dismissed>> /\ Done(c) /\ lost \subseteq lost'
          /\ Op(c, "record") => command[c].pid \in lost'
      BY <1>15 DEF CommandEnds
    <2> QED
      BY <1>1, <1>3, <1>4, <2>1
  <1> QED
    BY <1>6, <1>7, <1>8, <1>9, <1>10, <1>11, <1>12, <1>13, <1>14, <1>15

\* The invariant holds in every behaviour, and is enough.
LEMMA WorkerAlways == WorkerInit /\ [][WorkerNext]_wvars => []WorkerRecorded
  <1>1. WorkerInv => WorkerRecorded
    BY DEF WorkerInv
  <1>2. WorkerInv /\ [WorkerNext]_wvars => WorkerInv'
    <2>1. ASSUME WorkerInv, UNCHANGED wvars PROVE WorkerInv'
      <3>1. worker' = worker /\ UNCHANGED controls
        BY <2>1 DEF wvars, controls
      <3> QED
        BY <2>1, <3>1, WorkerGoes DEF WorkerInv, WorkerTypeOK, Runs
    <2> QED
      BY <2>1, WorkerStepsGo, CommandGoesOn DEF WorkerNext
  <1> QED
    BY <1>1, <1>2, WorkerBegins, PTL

\* Whatever commands run side by side and are cut off, a worker that runs is in worker.pid, or a
\* start is about to record it or could not and told it to go, or it was lost in one of the ways
\* that the code leaves open.
THEOREM WorkersAreFound == WorkerSpec => []WorkerRecorded
  BY WorkerAlways, PTL DEF WorkerSpec

-----------------------------------------------------------------------------
(* Supervised: while the child lives, what is in the pipes, in its hands    *)
(* and on its timers is the one exchange whose thread has the lock.         *)

ThreadType ==
  [at : {"idle", "locks", "sends", "waits"}, request : 0 .. MaxRequests, kind : Kinds]
ChildType ==
  [does : {"reads", "executes", "stalls", "cancels", "replies", "invalidates", "dead"},
   request : 0 .. MaxRequests, kind : Kinds, ready : BOOLEAN, broken : BOOLEAN]

SupervisedTypeOK ==
  /\ thread \in [Threads -> ThreadType] /\ child \in ChildType /\ shut \in BOOLEAN
  /\ timers \in [Requests -> {"none", "armed", "fires", "done"}]
  /\ answer \in [Requests -> Nat] /\ released \in Nat /\ sent \in Nat

LockInv ==
  \A t \in Threads : /\ thread[t].at \in {"sends", "waits"} => lock = {t}
                     /\ thread[t].at # "idle" => thread[t].request \in Requests

HasRequest == child.does \in {"executes", "stalls", "cancels", "replies", "invalidates"}

\* Whatever is between a thread and the child is of a thread that waits for it.
PipesInv ==
  /\ inbox # <<>> =>
       /\ child.does = "reads" /\ outbox = <<>>
       /\ \E t \in Threads : /\ thread[t].at = "waits"
            /\ inbox = <<[request |-> thread[t].request, kind |-> thread[t].kind]>>
  /\ HasRequest =>
       /\ inbox = <<>> /\ outbox = <<>>
       /\ \E t \in Threads : /\ thread[t].at = "waits" /\ child.request = thread[t].request
                             /\ child.kind = thread[t].kind
  /\ outbox # <<>> =>
       /\ child.does \in {"reads", "dead"} /\ inbox = <<>>
       /\ \E t \in Threads : thread[t].at = "waits" /\ \E how \in {"value", "error", "invalid"} :
            outbox = <<[request |-> thread[t].request, outcome |-> how]>>

\* A timer that may still interrupt is that of the operation the child is at.
TimersInv ==
  child.does # "dead" =>
    \A r \in Requests : timers[r] \in {"armed", "fires"} =>
      /\ child.request = r /\ child.kind # "start"
      /\ child.does \in {"executes", "stalls", "cancels", "invalidates"}
      /\ timers[r] = "armed" => child.does # "invalidates"

ReleaseInv ==
  /\ released <= 1
  /\ released = 1 =>
       \/ child.does = "dead"
       \/ child.kind = "close" /\ child.does \in {"cancels", "replies", "invalidates"}

SupervisedInv ==
  /\ SupervisedTypeOK /\ LockInv /\ PipesInv /\ TimersInv /\ ReleaseInv
  /\ shut => child.does = "dead"
  /\ AnswersOwnRequest /\ InterruptsOwnOperation

\* No thread has made a request.
LEMMA SupervisedBegins == SupervisedInit => SupervisedInv
  <1> SUFFICES ASSUME SupervisedInit PROVE SupervisedInv
    OBVIOUS
  <1>1. Resting \in ThreadType /\ Resting.at = "idle"
    BY SupervisedAssumption DEF Resting, ThreadType, Kinds
  <1>2. child \in ChildType /\ child.does = "reads"
    BY SupervisedAssumption DEF SupervisedInit, ChildType, Kinds
  <1>3. SupervisedTypeOK
    BY <1>1, <1>2, SupervisedAssumption DEF SupervisedInit, SupervisedTypeOK
  <1>4. LockInv
    BY <1>1 DEF SupervisedInit, LockInv
  <1>5. PipesInv
    BY <1>2 DEF SupervisedInit, PipesInv, HasRequest
  <1>6. TimersInv /\ ReleaseInv
    BY <1>2 DEF SupervisedInit, TimersInv, ReleaseInv
  <1>7. AnswersOwnRequest /\ InterruptsOwnOperation
    BY DEF SupervisedInit, AnswersOwnRequest, InterruptsOwnOperation
  <1> QED
    BY <1>3, <1>4, <1>5, <1>6, <1>7 DEF SupervisedInit, SupervisedInv

\* A thread that does not wait moves; the child does not see it.
LEMMA ThreadMoves ==
  ASSUME SupervisedInv, NEW t \in Threads, NEW next \in ThreadType,
         thread' = [thread EXCEPT ![t] = next],
         thread[t].at # "waits", next.at # "waits",
         next.at = "sends" => lock' = {t},
         \A u \in Threads \ {t} : lock = {u} => lock' = {u},
         next.at # "idle" => next.request \in Requests,
         sent' \in Nat, UNCHANGED <<shut, inbox, outbox, child, timers, released, sidecars>>
  PROVE  SupervisedInv'
  <1>1. thread \in [Threads -> ThreadType] /\ thread' \in [Threads -> ThreadType] /\ thread'[t] = next
        /\ \A u \in Threads \ {t} : thread'[u] = thread[u]
    BY DEF SupervisedInv, SupervisedTypeOK
  <1>2. SupervisedTypeOK'
    BY <1>1 DEF SupervisedInv, SupervisedTypeOK, sidecars
  <1>3. LockInv'
    <2> SUFFICES ASSUME NEW u \in Threads
                 PROVE  /\ thread'[u].at \in {"sends", "waits"} => lock' = {u}
                        /\ thread'[u].at # "idle" => thread'[u].request \in Requests
      BY DEF LockInv
    <2> QED
      BY <1>1 DEF SupervisedInv, LockInv
  <1>4. \A u \in Threads : thread[u].at = "waits" => thread'[u] = thread[u]
    BY <1>1
  <1>5. PipesInv'
    BY <1>4 DEF SupervisedInv, PipesInv, HasRequest
  <1> QED
    BY <1>2, <1>3, <1>5 DEF SupervisedInv, TimersInv, ReleaseInv, sidecars, AnswersOwnRequest,
       InterruptsOwnOperation

\* A thread that returns has ended the child, and with it all that is under way.
LEMMA TerminateStep ==
  ASSUME SupervisedInv, NEW t \in Threads, Terminate, ThreadReturns(t),
         lock' = lock \/ lock' = lock \ {t},
         AnswersOwnRequest', answer' \in [Requests -> Nat],
         UNCHANGED <<timers, released, sent, struck>>
  PROVE  SupervisedInv'
  <1>1. Resting \in ThreadType /\ Resting.at = "idle"
    BY SupervisedAssumption DEF Resting, ThreadType, Kinds
  <1>2. /\ thread \in [Threads -> ThreadType] /\ thread' \in [Threads -> ThreadType]
        /\ thread'[t] = Resting /\ \A u \in Threads \ {t} : thread'[u] = thread[u]
    BY <1>1 DEF SupervisedInv, SupervisedTypeOK, ThreadReturns
  <1>3. /\ shut' = TRUE /\ inbox' = <<>> /\ outbox' = <<>>
        /\ child' \in ChildType /\ child'.does = "dead"
    BY DEF SupervisedInv, SupervisedTypeOK, Terminate, ChildType
  <1>4. SupervisedTypeOK'
    BY <1>2, <1>3 DEF SupervisedInv, SupervisedTypeOK
  <1>5. LockInv'
    <2> SUFFICES ASSUME NEW u \in Threads
                 PROVE  /\ thread'[u].at \in {"sends", "waits"} => lock' = {u}
                        /\ thread'[u].at # "idle" => thread'[u].request \in Requests
      BY DEF LockInv
    <2> QED
      BY <1>1, <1>2 DEF SupervisedInv, LockInv
  <1>6. PipesInv' /\ TimersInv'
    BY <1>3 DEF PipesInv, TimersInv, HasRequest
  <1>7. ReleaseInv' /\ InterruptsOwnOperation'
    BY <1>3 DEF SupervisedInv, ReleaseInv, InterruptsOwnOperation
  <1> QED
    BY <1>3, <1>4, <1>5, <1>6, <1>7 DEF SupervisedInv

\* Up to the request that is written.
LEMMA SendSteps ==
  ASSUME SupervisedInv, NEW t \in Threads,
         MakeRequest(t) \/ Acquire(t) \/ AcquireTimesOut(t) \/ Send(t)
  PROVE  SupervisedInv'
  <1>1. thread \in [Threads -> ThreadType] /\ thread[t] \in ThreadType /\ sent \in Nat
        /\ answer \in [Requests -> Nat]
    BY DEF SupervisedInv, SupervisedTypeOK
  <1>2. Resting \in ThreadType /\ Resting.at = "idle"
    BY SupervisedAssumption DEF Resting, ThreadType, Kinds
  <1>3. UNCHANGED sidecars => AnswersOwnRequest' /\ UNCHANGED struck /\ answer' = answer
    BY DEF SupervisedInv, AnswersOwnRequest, sidecars
  <1>4. CASE MakeRequest(t)
    <2>1. PICK kind \in IF sent = 0 THEN {"start"} ELSE {"call", "close"} :
            thread' = [thread EXCEPT ![t] = [at |-> "locks", request |-> sent + 1, kind |-> kind]]
      BY <1>4 DEF MakeRequest
    <2> DEFINE next == [at |-> "locks", request |-> sent + 1, kind |-> kind]
    <2>2. kind \in Kinds /\ sent + 1 \in Requests /\ sent < MaxRequests
      BY <1>1, <1>4, <2>1, SupervisedAssumption DEF MakeRequest, Kinds, Requests
    <2>3. next \in ThreadType /\ next.at = "locks" /\ next.request \in Requests
      BY <2>2, SupervisedAssumption DEF ThreadType, Requests
    <2>4. thread' = [thread EXCEPT ![t] = next]
      BY <2>1
    <2> HIDE DEF next
    <2>5. thread[t].at = "idle" /\ sent' = sent + 1
          /\ UNCHANGED <<lock, shut, inbox, outbox, child, timers, released, sidecars>>
      BY <1>4 DEF MakeRequest, ThreadAt
    <2>6. sent' \in Nat
      BY <1>1, <2>5
    <2> QED
      BY <2>3, <2>4, <2>5, <2>6, ThreadMoves
  <1>5. CASE Acquire(t)
    <2> DEFINE next == [thread[t] EXCEPT !.at = "sends"]
    <2>1. next \in ThreadType /\ next.at = "sends" /\ next.request = thread[t].request
      BY <1>1 DEF ThreadType
    <2>2. thread' = [thread EXCEPT ![t] = next] /\ thread[t].at = "locks" /\ lock = {} /\ lock' = {t}
          /\ UNCHANGED <<shut, inbox, outbox, child, timers, released, sent, sidecars>>
      BY <1>1, <1>5 DEF Acquire, ThreadAt, GoesTo
    <2>3. next.request \in Requests
      BY <2>1, <2>2 DEF SupervisedInv, LockInv
    <2> HIDE DEF next
    <2> QED
      BY <1>1, <2>1, <2>2, <2>3, ThreadMoves
  <1>6. CASE AcquireTimesOut(t)
    <2>1. thread[t].at = "locks" /\ ThreadReturns(t) /\ UNCHANGED <<lock, timers, released, sent, sidecars>>
      BY <1>6 DEF AcquireTimesOut, ThreadAt
    <2>2. CASE thread[t].kind = "close"
      <3>1. Terminate
        BY <1>6, <2>2 DEF AcquireTimesOut
      <3> QED
        BY <1>1, <1>3, <2>1, <3>1, TerminateStep
    <2>3. CASE thread[t].kind # "close"
      <3>1. UNCHANGED <<shut, child, inbox, outbox>>
        BY <1>6, <2>3 DEF AcquireTimesOut
      <3>2. thread' = [thread EXCEPT ![t] = Resting]
        BY <2>1 DEF ThreadReturns
      <3> QED
        BY <1>1, <1>2, <2>1, <3>1, <3>2, ThreadMoves
    <2> QED
      BY <2>2, <2>3
  <1>7. CASE Send(t)
    <2>1. thread[t].at = "sends" /\ UNCHANGED <<owner, timers, released, sent, sidecars>>
      BY <1>7 DEF Send, ThreadAt
    <2>2. CASE shut \/ child.does = "dead"
      <3>1. Terminate /\ ThreadReturns(t) /\ lock' = lock \ {t}
        BY <1>7, <2>2 DEF Send, Release
      <3> QED
        BY <1>1, <1>3, <2>1, <3>1, TerminateStep
    <2>3. CASE ~(shut \/ child.does = "dead")
      <3> DEFINE next == [thread[t] EXCEPT !.at = "waits"]
      <3>1. next \in ThreadType /\ next.at = "waits" /\ next.request = thread[t].request
            /\ next.kind = thread[t].kind
        BY <1>1 DEF ThreadType
      <3>2. /\ inbox' = Append(inbox, [request |-> thread[t].request, kind |-> thread[t].kind])
            /\ thread' = [thread EXCEPT ![t] = next] /\ UNCHANGED <<lock, shut, outbox, child>>
        BY <1>7, <2>3 DEF Send, GoesTo
      <3> HIDE DEF next
      <3>3. lock = {t} /\ thread[t].request \in Requests
        BY <2>1 DEF SupervisedInv, LockInv
      <3>4. \A u \in Threads : thread[u].at # "waits"
        BY <2>1, <3>3 DEF SupervisedInv, LockInv
      <3>5. inbox = <<>> /\ outbox = <<>> /\ child.does = "reads" /\ ~HasRequest
        <4>1. inbox = <<>> /\ outbox = <<>> /\ ~HasRequest
          BY <3>4 DEF SupervisedInv, PipesInv
        <4> QED
          BY <2>3, <4>1 DEF SupervisedInv, SupervisedTypeOK, ChildType, HasRequest
      <3>6. thread' \in [Threads -> ThreadType] /\ thread'[t] = next
            /\ \A u \in Threads \ {t} : thread'[u] = thread[u]
        BY <1>1, <3>1, <3>2
      <3>7. inbox' = <<[request |-> next.request, kind |-> next.kind]>>
        BY <3>1, <3>2, <3>5
      <3>8. PipesInv'
        BY <3>1, <3>2, <3>5, <3>6, <3>7 DEF PipesInv, HasRequest
      <3>9. LockInv'
        <4> SUFFICES ASSUME NEW u \in Threads
                     PROVE  /\ thread'[u].at \in {"sends", "waits"} => lock' = {u}
                            /\ thread'[u].at # "idle" => thread'[u].request \in Requests
          BY DEF LockInv
        <4> QED
          BY <3>1, <3>2, <3>3, <3>6 DEF SupervisedInv, LockInv
      <3>10. SupervisedTypeOK'
        BY <2>1, <3>2, <3>6 DEF SupervisedInv, SupervisedTypeOK, sidecars
      <3> QED
        BY <2>1, <3>2, <3>8, <3>9, <3>10 DEF SupervisedInv, TimersInv, ReleaseInv, sidecars,
           AnswersOwnRequest, InterruptsOwnOperation
    <2> QED
      BY <2>2, <2>3
  <1> QED
    BY <1>4, <1>5, <1>6, <1>7

\* A reply is to the thread that waits, and empties the pipe.
LEMMA ReceiveSteps ==
  ASSUME SupervisedInv, NEW t \in Threads, Receive(t) \/ WaitTimesOut(t)
  PROVE  SupervisedInv'
  <1>1. thread \in [Threads -> ThreadType] /\ thread[t] \in ThreadType
        /\ answer \in [Requests -> Nat] /\ AnswersOwnRequest
    BY DEF SupervisedInv, SupervisedTypeOK
  <1>2. Resting \in ThreadType /\ Resting.at = "idle"
    BY SupervisedAssumption DEF Resting, ThreadType, Kinds
  <1>3. CASE WaitTimesOut(t)
    <2>1. Terminate /\ ThreadReturns(t) /\ lock' = lock \ {t}
          /\ UNCHANGED <<timers, released, struck, answer, sent>>
      BY <1>3 DEF WaitTimesOut, Release, sidecars
    <2>2. AnswersOwnRequest'
      BY <1>1, <2>1 DEF AnswersOwnRequest
    <2> QED
      BY <1>1, <2>1, <2>2, TerminateStep
  <1>4. CASE Receive(t)
    <2>1. /\ thread[t].at = "waits" /\ outbox # <<>>
          /\ answer' = [answer EXCEPT ![thread[t].request] = Head(outbox).request]
          /\ thread' = [thread EXCEPT ![t] = Resting] /\ ThreadReturns(t) /\ lock' = lock \ {t}
          /\ UNCHANGED <<owner, timers, released, sent, struck>>
      BY <1>4 DEF Receive, ThreadAt, ThreadReturns, Release
    <2>2. PICK u \in Threads : thread[u].at = "waits"
            /\ \E how \in {"value", "error", "invalid"} :
                 outbox = <<[request |-> thread[u].request, outcome |-> how]>>
      BY <2>1 DEF SupervisedInv, PipesInv
    <2>3. lock = {t} /\ u = t /\ thread[t].request \in Requests
      BY <2>1, <2>2 DEF SupervisedInv, LockInv
    <2>4. Head(outbox).request = thread[t].request /\ Tail(outbox) = <<>>
      BY <2>2, <2>3
    <2>5. AnswersOwnRequest' /\ answer' \in [Requests -> Nat]
      BY <1>1, <2>1, <2>3, <2>4 DEF AnswersOwnRequest, Requests
    <2>6. CASE Terminate
      BY <2>1, <2>5, <2>6, TerminateStep
    <2>7. CASE outbox' = Tail(outbox) /\ UNCHANGED <<shut, child, inbox>>
      <3>1. outbox' = <<>> /\ inbox' = <<>> /\ ~HasRequest' /\ child' = child
        BY <2>1, <2>4, <2>7 DEF SupervisedInv, PipesInv, HasRequest
      <3>2. PipesInv'
        BY <3>1 DEF PipesInv
      <3>3. thread' \in [Threads -> ThreadType] /\ thread'[t] = Resting
            /\ \A w \in Threads \ {t} : thread'[w] = thread[w]
        BY <1>1, <1>2, <2>1
      <3>4. LockInv'
        <4> SUFFICES ASSUME NEW w \in Threads
                     PROVE  /\ thread'[w].at \in {"sends", "waits"} => lock' = {w}
                            /\ thread'[w].at # "idle" => thread'[w].request \in Requests
          BY DEF LockInv
        <4> QED
          BY <1>2, <2>1, <2>3, <3>3 DEF SupervisedInv, LockInv
      <3>5. SupervisedTypeOK'
        BY <2>1, <2>5, <2>7, <3>3 DEF SupervisedInv, SupervisedTypeOK
      <3> QED
        BY <2>1, <2>5, <2>7, <3>1, <3>2, <3>4, <3>5
           DEF SupervisedInv, TimersInv, ReleaseInv, InterruptsOwnOperation
    <2> QED
      BY <1>4, <2>6, <2>7 DEF Receive
  <1> QED
    BY <1>3, <1>4

\* The child takes a request that is waited for, or works on it.
LEMMA ChildWorks ==
  ASSUME SupervisedInv, TakeRequest \/ Stall \/ Execute \/ CancelTimer
  PROVE  SupervisedInv'
  <1>1. child \in ChildType /\ timers \in [Requests -> {"none", "armed", "fires", "done"}]
        /\ answer \in [Requests -> Nat] /\ released \in Nat
    BY DEF SupervisedInv, SupervisedTypeOK
  <1>2. UNCHANGED <<thread, lock, shut, sent, sidecars>>
    BY DEF TakeRequest, Stall, Execute, CancelTimer
  <1>3. LockInv' /\ AnswersOwnRequest' /\ InterruptsOwnOperation'
    BY <1>2 DEF SupervisedInv, LockInv, AnswersOwnRequest, InterruptsOwnOperation, sidecars
  <1>4. ASSUME child' \in ChildType, child'.does # "dead", ~shut, PipesInv', TimersInv', ReleaseInv',
               timers' \in [Requests -> {"none", "armed", "fires", "done"}], released' \in Nat
        PROVE  SupervisedInv'
    BY <1>2, <1>3, <1>4 DEF SupervisedInv, SupervisedTypeOK, sidecars
  <1>5. ~shut
    BY DEF SupervisedInv, TakeRequest, Stall, Execute, CancelTimer, Doing
  <1>6. ASSUME HasRequest, child'.does # "dead", child'.does # "reads",
               child'.request = child.request, child'.kind = child.kind, UNCHANGED <<inbox, outbox>>
        PROVE  PipesInv'
    BY <1>2, <1>6 DEF SupervisedInv, PipesInv
  <1>7. CASE TakeRequest
    <2>1. child.does = "reads" /\ inbox # <<>>
      BY <1>7 DEF TakeRequest, Doing
    <2>2. PICK t \in Threads : thread[t].at = "waits"
            /\ inbox = <<[request |-> thread[t].request, kind |-> thread[t].kind]>>
      BY <2>1 DEF SupervisedInv, PipesInv
    <2>3. thread[t].request \in Requests /\ thread[t].kind \in Kinds
      BY <2>2 DEF SupervisedInv, LockInv, SupervisedTypeOK, ThreadType
    <2>4. /\ inbox' = <<>> /\ outbox' = <<>> /\ released' = released
          /\ child' \in ChildType /\ child'.does = "executes"
          /\ child'.request = thread[t].request /\ child'.kind = thread[t].kind
          /\ timers' = IF thread[t].kind = "start" THEN timers
                       ELSE [timers EXCEPT ![thread[t].request] = "armed"]
      <3>1. Head(inbox).request = thread[t].request /\ Head(inbox).kind = thread[t].kind
            /\ Tail(inbox) = <<>> /\ outbox = <<>>
        BY <2>1, <2>2 DEF SupervisedInv, PipesInv
      <3>2. child' = [child EXCEPT !.does = "executes", !.request = thread[t].request,
                                   !.kind = thread[t].kind, !.broken = FALSE]
        BY <1>7, <3>1 DEF TakeRequest
      <3>3. child' \in ChildType /\ child'.does = "executes"
            /\ child'.request = thread[t].request /\ child'.kind = thread[t].kind
        <4> DEFINE request == thread[t].request
                   kind == thread[t].kind
        <4>1. request \in 0 .. MaxRequests /\ kind \in Kinds
          BY <2>3, SupervisedAssumption DEF Requests
        <4>2. child' = [child EXCEPT !.does = "executes", !.request = request, !.kind = kind,
                                     !.broken = FALSE]
          BY <3>2
        <4> HIDE DEF request, kind
        <4>3. child' \in ChildType /\ child'.does = "executes" /\ child'.request = request
              /\ child'.kind = kind
          BY <1>1, <4>1, <4>2 DEF ChildType
        <4> QED
          BY <4>3 DEF request, kind
      <3> QED
        BY <1>7, <3>1, <3>3 DEF TakeRequest
    <2>5. \A r \in Requests : timers[r] \notin {"armed", "fires"}
      BY <2>1 DEF SupervisedInv, TimersInv
    <2>6. TimersInv' /\ timers' \in [Requests -> {"none", "armed", "fires", "done"}]
      BY <1>1, <2>3, <2>4, <2>5 DEF TimersInv
    <2>7. PipesInv'
      BY <1>2, <2>2, <2>4 DEF PipesInv, HasRequest
    <2>8. ReleaseInv'
      BY <2>1, <2>4 DEF SupervisedInv, ReleaseInv
    <2> QED
      BY <1>1, <1>4, <1>5, <2>4, <2>6, <2>7, <2>8
  <1>8. CASE Stall
    <2>1. /\ child.does = "executes" /\ HasRequest /\ UNCHANGED <<inbox, outbox, timers, released>>
          /\ child' \in ChildType /\ child'.does = "stalls" /\ child'.request = child.request
          /\ child'.kind = child.kind
      BY <1>1, <1>8 DEF Stall, Doing, ChildDoes, ChildType, HasRequest
    <2>2. TimersInv' /\ ReleaseInv'
      BY <2>1 DEF SupervisedInv, TimersInv, ReleaseInv
    <2> QED
      BY <1>1, <1>4, <1>5, <1>6, <2>1, <2>2
  <1>9. CASE Execute
    <2>1. PICK broken \in BOOLEAN :
            child' = [child EXCEPT !.does = IF child.kind = "start" THEN "replies" ELSE "cancels",
                        !.broken = broken, !.ready = @ \/ (child.kind = "start" /\ ~broken)]
      BY <1>9 DEF Execute
    <2> DEFINE does == IF child.kind = "start" THEN "replies" ELSE "cancels"
               ready == child.ready \/ (child.kind = "start" /\ ~broken)
    <2>2. does \in {"replies", "cancels"} /\ (does = "cancels" <=> child.kind # "start")
      OBVIOUS
    <2>3. ready \in BOOLEAN
      BY <1>1 DEF ChildType
    <2>4. child' = [child EXCEPT !.does = does, !.broken = broken, !.ready = ready]
      BY <2>1
    <2> HIDE DEF does, ready
    <2>5. child' \in ChildType /\ child'.does = does /\ child'.request = child.request
          /\ child'.kind = child.kind
      BY <1>1, <2>2, <2>3, <2>4 DEF ChildType
    <2>6. child.does = "executes" /\ HasRequest /\ UNCHANGED <<inbox, outbox, timers>>
          /\ released' = IF child.kind = "close" THEN released + 1 ELSE released
      BY <1>9 DEF Execute, Doing, HasRequest
    <2>7. TimersInv'
      BY <2>2, <2>5, <2>6 DEF SupervisedInv, TimersInv
    <2>8. released = 0
      BY <1>1, <2>6 DEF SupervisedInv, ReleaseInv
    <2>9. ReleaseInv' /\ released' \in Nat
      BY <2>2, <2>5, <2>6, <2>8 DEF ReleaseInv
    <2> QED
      BY <1>1, <1>4, <1>5, <1>6, <2>2, <2>5, <2>6, <2>7, <2>9
  <1>10. CASE CancelTimer
    <2> DEFINE does == IF timers[child.request] = "fires" THEN "invalidates" ELSE "replies"
    <2>1. /\ child.does = "cancels" /\ HasRequest /\ UNCHANGED <<inbox, outbox, released>>
          /\ timers' = [timers EXCEPT ![child.request] = IF @ = "armed" THEN "done" ELSE @]
          /\ child' = [child EXCEPT !.does = does]
      BY <1>10 DEF CancelTimer, Doing, HasRequest, ChildDoes
    <2>2. child.request \in Requests
      BY <2>1 DEF SupervisedInv, PipesInv, LockInv
    <2>3. does \in {"invalidates", "replies"} /\ (does = "invalidates" <=> timers[child.request] = "fires")
      OBVIOUS
    <2> HIDE DEF does
    <2>4. child' \in ChildType /\ child'.does = does /\ child'.request = child.request
          /\ child'.kind = child.kind
      BY <1>1, <2>1, <2>3 DEF ChildType
    <2>5. /\ timers' \in [Requests -> {"none", "armed", "fires", "done"}]
          /\ timers'[child.request] # "armed"
          /\ timers'[child.request] = "fires" => timers[child.request] = "fires"
          /\ \A r \in Requests \ {child.request} : timers'[r] = timers[r]
      BY <1>1, <2>1, <2>2
    <2>6. \A r \in Requests : timers'[r] \in {"armed", "fires"} =>
            r = child.request /\ timers[r] = "fires" /\ timers'[r] # "armed" /\ child.kind # "start"
      BY <2>1, <2>5 DEF SupervisedInv, TimersInv
    <2>7. TimersInv'
      BY <2>3, <2>4, <2>6 DEF TimersInv
    <2>8. ReleaseInv'
      BY <2>1, <2>3, <2>4 DEF SupervisedInv, ReleaseInv
    <2> QED
      BY <1>1, <1>4, <1>5, <1>6, <2>1, <2>3, <2>4, <2>5, <2>7, <2>8
  <1> QED
    BY <1>7, <1>8, <1>9, <1>10

\* A deadline passes; the interrupt finds the operation it is for, or none.
LEMMA TimerSteps ==
  ASSUME SupervisedInv, NEW r \in Requests, Fire(r) \/ Strike(r)
  PROVE  SupervisedInv'
  <1>1. child \in ChildType /\ timers \in [Requests -> {"none", "armed", "fires", "done"}]
    BY DEF SupervisedInv, SupervisedTypeOK
  <1>2. UNCHANGED <<thread, lock, shut, sent, answer, inbox, outbox, released>> /\ child.does # "dead"
    BY DEF Fire, Strike, sidecars
  <1>3. LockInv' /\ AnswersOwnRequest'
    BY <1>2 DEF SupervisedInv, LockInv, AnswersOwnRequest
  <1>4. ~shut
    BY <1>2 DEF SupervisedInv
  <1>5. CASE Fire(r)
    <2>1. timers[r] = "armed" /\ timers' = [timers EXCEPT ![r] = "fires"] /\ child' = child
          /\ struck' = struck
      BY <1>5 DEF Fire, sidecars
    <2>2. SupervisedTypeOK'
      BY <1>1, <1>2, <2>1 DEF SupervisedInv, SupervisedTypeOK
    <2>3. TimersInv'
      BY <1>1, <1>2, <2>1 DEF SupervisedInv, TimersInv
    <2> QED
      BY <1>2, <1>3, <1>4, <2>1, <2>2, <2>3
         DEF SupervisedInv, PipesInv, HasRequest, ReleaseInv, InterruptsOwnOperation
  <1>6. CASE Strike(r)
    <2>1. timers[r] = "fires" /\ timers' = [timers EXCEPT ![r] = "done"] /\ r = child.request
          /\ child.kind # "start"
      BY <1>2, <1>6 DEF Strike, SupervisedInv, TimersInv
    <2>2. \A q \in Requests : timers'[q] \notin {"armed", "fires"}
      BY <1>1, <1>2, <2>1 DEF SupervisedInv, TimersInv
    <2>3. TimersInv' /\ timers' \in [Requests -> {"none", "armed", "fires", "done"}]
      BY <1>1, <2>1, <2>2 DEF TimersInv
    <2>4. CASE child.does \in {"executes", "stalls"}
      <3>1. struck' = struck \cup {<<r, child.request>>}
            /\ child' = [child EXCEPT !.does = "cancels", !.broken = TRUE]
        BY <1>6, <2>4 DEF Strike
      <3>2. child' \in ChildType /\ child'.does = "cancels" /\ child'.request = child.request
            /\ child'.kind = child.kind
        BY <1>1, <3>1 DEF ChildType
      <3>3. InterruptsOwnOperation'
        BY <2>1, <3>1 DEF SupervisedInv, InterruptsOwnOperation
      <3>4. HasRequest
        BY <2>4 DEF HasRequest
      <3>5. PipesInv'
        BY <1>2, <3>2, <3>4 DEF SupervisedInv, PipesInv
      <3>6. ReleaseInv'
        BY <1>2, <2>4, <3>2 DEF SupervisedInv, ReleaseInv
      <3> QED
        BY <1>2, <1>3, <1>4, <2>3, <3>2, <3>3, <3>5, <3>6 DEF SupervisedInv, SupervisedTypeOK
    <2>5. CASE child.does \notin {"executes", "stalls"}
      <3>1. UNCHANGED <<struck, child>>
        BY <1>6, <2>5 DEF Strike
      <3> QED
        BY <1>2, <1>3, <1>4, <2>3, <3>1 DEF SupervisedInv, SupervisedTypeOK, PipesInv, HasRequest,
           ReleaseInv, InterruptsOwnOperation
    <2> QED
      BY <2>4, <2>5
  <1> QED
    BY <1>5, <1>6

\* The child replies or is orphaned; when it goes, it has closed the resource once at most.
LEMMA ChildEnds ==
  ASSUME SupervisedInv, Respond \/ EndOfRequests
  PROVE  SupervisedInv'
  <1>1. child \in ChildType /\ released \in Nat /\ ~shut
    BY DEF SupervisedInv, SupervisedTypeOK, Respond, EndOfRequests, Doing
  <1>2. UNCHANGED <<thread, lock, shut, sent, timers, inbox, answer, struck>>
    BY DEF Respond, EndOfRequests, sidecars
  <1>3. LockInv' /\ AnswersOwnRequest' /\ InterruptsOwnOperation'
    BY <1>2 DEF SupervisedInv, LockInv, AnswersOwnRequest, InterruptsOwnOperation
  <1>4. /\ \E what \in {"dead", "reads"} : child' = [child EXCEPT !.does = what]
        /\ released' \in {released, released + 1}
    BY DEF Respond, EndOfRequests, ChildLeaves, ChildDoes
  <1>5. child' \in ChildType /\ child'.does \in {"dead", "reads"}
    BY <1>1, <1>4 DEF ChildType
  <1>6. released' \in Nat
    BY <1>1, <1>4
  <1>7. SupervisedTypeOK'
    BY <1>2, <1>5, <1>6 DEF SupervisedInv, SupervisedTypeOK
  <1>8. CASE EndOfRequests
    <2>1. child.does = "reads" /\ inbox = <<>> /\ child'.does = "dead" /\ outbox' = outbox
      BY <1>1, <1>8 DEF EndOfRequests, Doing, ChildLeaves, ChildDoes, ChildType
    <2>2. PipesInv'
      BY <1>2, <2>1 DEF SupervisedInv, PipesInv, HasRequest
    <2>3. released = 0
      BY <1>1, <2>1 DEF SupervisedInv, ReleaseInv
    <2>4. ReleaseInv' /\ TimersInv'
      BY <1>4, <2>1, <2>3 DEF ReleaseInv, TimersInv
    <2> QED
      BY <1>1, <1>2, <1>3, <1>7, <2>2, <2>4 DEF SupervisedInv
  <1>9. CASE Respond
    <2>1. child.does \in {"replies", "invalidates"} /\ HasRequest
      BY <1>9 DEF Respond, HasRequest
    <2>2. PICK t \in Threads : thread[t].at = "waits" /\ child.request = thread[t].request
      BY <2>1 DEF SupervisedInv, PipesInv
    <2>3. inbox = <<>> /\ outbox = <<>>
      BY <2>1 DEF SupervisedInv, PipesInv
    <2> DEFINE how == IF Doing("invalidates") THEN "invalid" ELSE IF child.broken THEN "error" ELSE "value"
    <2>4. how \in {"value", "error", "invalid"}
      OBVIOUS
    <2>5. outbox' = IF owner THEN Append(outbox, [request |-> child.request, outcome |-> how]) ELSE outbox
      BY <1>9 DEF Respond
    <2> HIDE DEF how
    <2>6. outbox' = <<>> \/ outbox' = <<[request |-> thread[t].request, outcome |-> how]>>
      BY <2>2, <2>3, <2>5
    <2>7. PipesInv'
      BY <1>2, <1>5, <2>2, <2>3, <2>4, <2>6 DEF PipesInv, HasRequest
    <2>8. CASE child.kind = "close"
      <3>1. child'.does = "dead" /\ released' = released
        BY <1>1, <1>9, <2>8 DEF Respond, ChildLeaves, ChildDoes, ChildType
      <3>2. ReleaseInv' /\ TimersInv'
        BY <3>1 DEF SupervisedInv, ReleaseInv, TimersInv
      <3> QED
        BY <1>1, <1>2, <1>3, <1>7, <2>7, <3>2 DEF SupervisedInv
    <2>9. CASE child.kind # "close"
      <3>1. released = 0
        BY <1>1, <2>1, <2>9 DEF SupervisedInv, ReleaseInv
      <3>2. child'.does = "dead" \/ (child'.does = "reads" /\ released' = released /\ child.does = "replies")
        BY <1>1, <1>9, <2>1, <2>9 DEF Respond, ChildLeaves, ChildDoes, ChildType, Doing
      <3>3. ReleaseInv'
        BY <1>4, <3>1, <3>2 DEF ReleaseInv
      <3>4. TimersInv'
        BY <1>2, <3>2 DEF SupervisedInv, TimersInv
      <3> QED
        BY <1>1, <1>2, <1>3, <1>7, <2>7, <3>3, <3>4 DEF SupervisedInv
    <2> QED
      BY <2>8, <2>9
  <1> QED
    BY <1>8, <1>9

\* Every step keeps the exchange whole.
LEMMA SupervisedSteps == SupervisedInv /\ [SupervisedNext]_svars => SupervisedInv'
  <1> SUFFICES ASSUME SupervisedInv, [SupervisedNext]_svars PROVE SupervisedInv'
    OBVIOUS
  <1>1. CASE UNCHANGED svars
    BY <1>1 DEF svars, sidecars, SupervisedInv, SupervisedTypeOK, LockInv, PipesInv, HasRequest,
                TimersInv, ReleaseInv, AnswersOwnRequest, InterruptsOwnOperation
  <1>2. CASE OwnerDies
    BY <1>2 DEF OwnerDies, sidecars, SupervisedInv, SupervisedTypeOK, LockInv, PipesInv, HasRequest,
                TimersInv, ReleaseInv, AnswersOwnRequest, InterruptsOwnOperation
  <1> QED
    BY <1>1, <1>2, SendSteps, ReceiveSteps, ChildWorks, TimerSteps, ChildEnds
       DEF SupervisedNext, Exchange, Child, Timers

\* The invariant holds in every behaviour, and is enough.
LEMMA SupervisedAlways == SupervisedInit /\ [][SupervisedNext]_svars => []ExchangesApart
  <1>1. SupervisedInv => ExchangesApart
    BY DEF SupervisedInv, ReleaseInv, ExchangesApart, ReleasedOnce
  <1> QED
    BY <1>1, SupervisedBegins, SupervisedSteps, PTL

\* What threads share in a child stays apart, wherever either stalls, gives up or dies: an
\* answer is to the request it is given for, an interrupt hits the operation whose deadline
\* has passed, and the resource is closed once.
THEOREM ExchangesStayApart == SupervisedSpec => []ExchangesApart
  BY SupervisedAlways, PTL DEF SupervisedSpec

-----------------------------------------------------------------------------
(* Budgets: the operators they are built from.                              *)

\* A set of natural numbers has a least one.
LEMMA LeastNatural ==
  ASSUME NEW S \in SUBSET Nat, S # {}
  PROVE  \E m \in S : \A n \in S : m <= n
  <1>1. PICK x \in S : \A y \in S : <<y, x>> \notin OpToRel(<, Nat)
    BY NatLessThanWellFounded, WFMin
  <1>2. \A y \in S : ~(y < x)
    BY <1>1 DEF OpToRel
  <1> QED
    BY <1>2

\* The lesser of two numbers.
LEMMA Lesser ==
  ASSUME NEW a \in Nat, NEW b \in Nat
  PROVE  Min({a, b}) \in {a, b} /\ Min({a, b}) <= a /\ Min({a, b}) <= b
  <1>1. \E x \in {a, b} : \A y \in {a, b} : x =< y
    BY SMT
  <1> QED
    BY <1>1 DEF Min

\* The deadline around everything that one is in, or the one itself.
Top(id) == IF deadlines[id].within = 0 THEN id ELSE deadlines[id].within

\* Deadlines are made within those that are there: Root finds its way up, and stays in what
\* was outermost.
LEMMA RootIsTop ==
  ASSUME DOMAIN deadlines = 1 .. Len(deadlines), Len(deadlines) \in Nat,
         \A i \in DOMAIN deadlines : deadlines[i].parent \in 0 .. (i - 1),
         \A i \in DOMAIN deadlines :
           deadlines[i].parent # 0 => Top(i) = Top(deadlines[i].parent),
         NEW id \in DOMAIN deadlines
  PROVE  Root(id) \in DOMAIN deadlines /\ deadlines[Root(id)].parent = 0 /\ Top(Root(id)) = Top(id)
  <1> DEFINE N == Len(deadlines)
             Parent(n) == deadlines[n].parent
             Climb(f, n) == IF Parent(n) = 0 THEN n ELSE f[Parent(n)]
             Climbs(k) == \E f : f = [n \in 1 .. k |-> Climb(f, n)]
             up == CHOOSE f : f = [n \in 1 .. N |-> Climb(f, n)]
  <1>1. \A i \in 1 .. N : Parent(i) \in 0 .. (i - 1)
    OBVIOUS
  <1>2. \A i \in 1 .. N : Parent(i) # 0 => Top(i) = Top(Parent(i))
    OBVIOUS
  <1>3. Root(id) = up[id]
    BY DEF Root
  <1>4. N \in Nat /\ id \in 1 .. N
    OBVIOUS
  <1> HIDE DEF N, Parent
  <1>5. ASSUME NEW k \in Nat, k < N, Climbs(k) PROVE Climbs(k + 1)
    <2>1. PICK f : f = [n \in 1 .. k |-> Climb(f, n)]
      BY <1>5
    <2> DEFINE g == [n \in 1 .. (k + 1) |-> IF n <= k THEN f[n] ELSE Climb(f, n)]
    <2>2. ASSUME NEW n \in 1 .. (k + 1) PROVE g[n] = Climb(g, n)
      <3>1. Parent(n) \in 0 .. (n - 1) /\ n <= N
        BY <1>1, <1>4, <1>5
      <3>2. Climb(g, n) = Climb(f, n)
        <4>1. CASE Parent(n) = 0
          BY <4>1
        <4>2. CASE Parent(n) # 0
          <5>1. Parent(n) \in 1 .. (k + 1) /\ Parent(n) <= k
            BY <3>1, <4>2
          <5>2. g[Parent(n)] = f[Parent(n)]
            BY <5>1
          <5> QED
            BY <4>2, <5>2
        <4> QED
          BY <4>1, <4>2
      <3>3. CASE n <= k
        <4>1. f[n] = Climb(f, n)
          BY <2>1, <3>3
        <4> QED
          BY <3>2, <3>3, <4>1
      <3>4. CASE ~(n <= k)
        BY <3>2, <3>4
      <3> QED
        BY <3>3, <3>4
    <2> HIDE DEF Climb
    <2>3. g = [n \in 1 .. (k + 1) |-> Climb(g, n)]
      BY <2>2
    <2> QED
      BY <2>3
  <1>6. Climbs(0)
    <2> DEFINE f == [n \in 1 .. 0 |-> 0]
    <2>1. f = [n \in 1 .. 0 |-> Climb(f, n)]
      OBVIOUS
    <2> QED
      BY <2>1
  <1> HIDE DEF Climbs
  <1>7. Climbs(N)
    <2> DEFINE S == {k \in Nat : k <= N /\ ~Climbs(k)}
    <2> SUFFICES ASSUME ~Climbs(N) PROVE FALSE
      OBVIOUS
    <2>1. S # {} /\ S \in SUBSET Nat
      BY <1>4
    <2>2. PICK m \in S : \A n \in S : m <= n
      BY <2>1, LeastNatural
    <2>3. m \in Nat /\ m <= N /\ ~Climbs(m)
      OBVIOUS
    <2>4. m # 0
      BY <1>6, <2>3
    <2>5. m - 1 \in Nat /\ m - 1 < N /\ (m - 1) + 1 = m
      BY <1>4, <2>3, <2>4
    <2>6. ~Climbs(m - 1)
      BY <1>5, <2>3, <2>5
    <2> QED
      BY <1>4, <2>2, <2>5, <2>6
  <1>8. up = [n \in 1 .. N |-> Climb(up, n)]
    BY <1>7 DEF Climbs
  <1> HIDE DEF up
  <1> DEFINE Good(i) == up[i] \in 1 .. N /\ Parent(up[i]) = 0 /\ Top(up[i]) = Top(i)
  <1>9. ASSUME NEW i \in 1 .. N, \A j \in 1 .. N : j < i => Good(j) PROVE Good(i)
    <2>1. up[i] = Climb(up, i)
      BY <1>8
    <2>2. CASE Parent(i) = 0
      BY <2>1, <2>2
    <2>3. CASE Parent(i) # 0
      <3>1. Parent(i) \in 1 .. N /\ Parent(i) < i /\ up[i] = up[Parent(i)]
        BY <1>1, <1>4, <2>1, <2>3
      <3> QED
        BY <1>2, <1>9, <2>3, <3>1
    <2> QED
      BY <2>2, <2>3
  <1> HIDE DEF Good
  <1>10. Good(id)
    <2> DEFINE S == {k \in 1 .. N : ~Good(k)}
    <2> SUFFICES ASSUME S # {} PROVE FALSE
      BY <1>4
    <2>1. S \in SUBSET Nat
      BY <1>4
    <2>2. PICK m \in S : \A n \in S : m <= n
      BY <2>1, LeastNatural
    <2>3. m \in 1 .. N /\ ~Good(m) /\ \A j \in 1 .. N : j < m => Good(j)
      BY <1>4, <2>2
    <2> QED
      BY <1>9, <2>3
  <1> QED
    BY <1>3, <1>10 DEF Good, N, Parent
-----------------------------------------------------------------------------
(* Budgets: what holds of the deadlines and of the scopes of a thread.      *)

DeadlineType ==
  [expires : Nat, parent : Nat, grace : Nat, within : Nat, cleaning : BOOLEAN]
ScopeType ==
  [kind : {"copied", "operation", "limited", "cleanup"}, id : Nat, raising : BOOLEAN]
TaskType ==
  [at : {"rest", "works", "limits", "waits", "connects"}, scopes : Seq(ScopeType),
   raising : BOOLEAN, until : Nat, seconds : Nat]

BudgetsTypeOK ==
  instant \in Nat /\ deadlines \in Seq(DeadlineType) /\ task \in [Tasks -> TaskType]

\* A deadline is within what is around it: it ends no later than its parent, it is in the same
\* operation, and an operation is cleaned up after within the one deadline for that.
Nested(i) ==
  /\ deadlines[i].parent \in 0 .. (i - 1)
  /\ {deadlines[i].within, deadlines[i].grace} \subseteq 0 .. Len(deadlines)
  /\ deadlines[i].parent # 0 =>
       /\ deadlines[i].expires <= deadlines[deadlines[i].parent].expires
       /\ Top(i) = Top(deadlines[i].parent)
       /\ ~deadlines[i].cleaning
  /\ deadlines[i].parent = 0 => deadlines[i].grace # 0 \/ deadlines[i].within = 0
  /\ deadlines[i].grace # 0 =>
       deadlines[deadlines[i].grace].cleaning /\ Top(deadlines[i].grace) = Top(i)
  /\ deadlines[i].cleaning /\ deadlines[i].within # 0 =>
       deadlines[deadlines[i].within].grace = i

Ids(t) == [i \in DOMAIN task[t].scopes |-> task[t].scopes[i].id]

\* The scopes of a thread are of one operation; one that is not for cleanup ends no later than
\* those around it, up to the cleanup it is in.
Stacked(t) ==
  /\ \A i \in DOMAIN Ids(t) : Ids(t)[i] \in DOMAIN deadlines /\ Top(Ids(t)[i]) = Top(Ids(t)[1])
  /\ \A i, j \in DOMAIN Ids(t) :
       i <= j /\ (\A k \in (i + 1) .. j : ~deadlines[Ids(t)[k]].cleaning)
         => deadlines[Ids(t)[j]].expires <= deadlines[Ids(t)[i]].expires

\* A wait ends in time for the innermost scope.
WaitsInTime(t) ==
  task[t].at \in {"waits", "connects"} =>
    /\ instant <= task[t].until
    /\ task[t].scopes # <<>> =>
         task[t].until + (IF TaskAt(t, "connects") THEN task[t].seconds ELSE 0)
           <= deadlines[Current(t)].expires

BudgetsInv ==
  /\ BudgetsTypeOK
  /\ \A i \in DOMAIN deadlines : Nested(i)
  /\ \A t \in Tasks : Stacked(t) /\ WaitsInTime(t)

\* The innermost scope and the outermost one.
LEMMA CurrentIs ==
  ASSUME BudgetsInv, NEW t \in Tasks
  PROVE  /\ task[t].scopes = <<>> => Current(t) = 0 /\ Outermost(t) = 0
         /\ task[t].scopes # <<>> =>
              /\ Len(task[t].scopes) \in DOMAIN Ids(t) /\ Current(t) = Ids(t)[Len(task[t].scopes)]
              /\ Current(t) \in DOMAIN deadlines /\ Current(t) # 0
              /\ Outermost(t) = Top(Current(t)) /\ Outermost(t) \in DOMAIN deadlines
  <1>1. task[t].scopes \in Seq(ScopeType) /\ Stacked(t)
    BY DEF BudgetsInv, BudgetsTypeOK, TaskType
  <1>2. CASE task[t].scopes = <<>>
    BY <1>2 DEF Current, Outermost
  <1>3. CASE task[t].scopes # <<>>
    <2>1. Len(task[t].scopes) \in DOMAIN Ids(t) /\ 1 \in DOMAIN Ids(t)
      BY <1>1, <1>3 DEF Ids
    <2>2. Current(t) = Ids(t)[Len(task[t].scopes)] /\ Head(task[t].scopes).id = Ids(t)[1]
      BY <1>1, <1>3, <2>1 DEF Current, Last, Ids
    <2>3. Outermost(t) = Top(Ids(t)[1])
      BY <1>3, <2>2 DEF Outermost, Top
    <2>4. Current(t) \in DOMAIN deadlines /\ Top(Current(t)) = Top(Ids(t)[1])
      BY <1>1, <2>1, <2>2 DEF Stacked
    <2>5. deadlines \in Seq(DeadlineType) /\ Nested(Current(t))
      BY <2>4 DEF BudgetsInv, BudgetsTypeOK
    <2>6. Current(t) # 0 /\ Top(Current(t)) \in DOMAIN deadlines
      BY <2>4, <2>5 DEF Nested, Top
    <2> QED
      BY <1>3, <2>1, <2>2, <2>3, <2>4, <2>6
  <1> QED
    BY <1>2, <1>3

\* The first deadline of an operation is found.
LEMMA RootIs ==
  ASSUME BudgetsInv, NEW id \in DOMAIN deadlines
  PROVE  /\ Root(id) \in DOMAIN deadlines /\ deadlines[Root(id)].parent = 0
         /\ Top(Root(id)) = Top(id)
         /\ deadlines[Root(id)].grace = 0 => Root(id) = Top(id)
  <1>1. DOMAIN deadlines = 1 .. Len(deadlines) /\ Len(deadlines) \in Nat
    BY DEF BudgetsInv, BudgetsTypeOK
  <1>2. \A i \in DOMAIN deadlines : deadlines[i].parent \in 0 .. (i - 1)
    BY DEF BudgetsInv, Nested
  <1>3. \A i \in DOMAIN deadlines : deadlines[i].parent # 0 => Top(i) = Top(deadlines[i].parent)
    BY DEF BudgetsInv, Nested
  <1>4. /\ Root(id) \in DOMAIN deadlines /\ deadlines[Root(id)].parent = 0
        /\ Top(Root(id)) = Top(id)
    BY <1>1, <1>2, <1>3, RootIsTop
  <1>5. Nested(Root(id))
    BY <1>4 DEF BudgetsInv
  <1>6. deadlines[Root(id)].grace = 0 => deadlines[Root(id)].within = 0
    BY <1>4, <1>5 DEF Nested
  <1>7. deadlines[Root(id)].within = 0 => Top(Root(id)) = Root(id)
    BY DEF Top
  <1> QED
    BY <1>4, <1>6, <1>7

\* Deadlines do not change, but for the one for cleanup that an operation gets.
Keeps ==
  /\ deadlines' \in Seq(DeadlineType) /\ Len(deadlines) <= Len(deadlines')
  /\ \A i \in DOMAIN deadlines :
       /\ deadlines'[i].expires = deadlines[i].expires /\ deadlines'[i].within = deadlines[i].within
       /\ deadlines'[i].cleaning = deadlines[i].cleaning

\* What a thread's scopes are to each other does not depend on what other threads do.
LEMMA StackStays ==
  ASSUME BudgetsInv, NEW t \in Tasks, Keeps, task'[t].scopes = task[t].scopes
  PROVE  Stacked(t)'
  <1>1. Ids(t)' = Ids(t) /\ Stacked(t)
    BY DEF Ids, BudgetsInv
  <1>2. \A i \in DOMAIN deadlines : i \in DOMAIN deadlines' /\ Top(i)' = Top(i)
    BY DEF Keeps, Top, BudgetsInv, BudgetsTypeOK
  <1>3. \A i \in DOMAIN Ids(t) : Ids(t)[i] \in DOMAIN deadlines
    BY <1>1 DEF Stacked
  <1>4. \A i \in DOMAIN Ids(t) : 1 \in DOMAIN Ids(t)
    BY DEF Ids, BudgetsInv, BudgetsTypeOK, TaskType
  <1>5. \A i \in DOMAIN Ids(t) : Ids(t)[i] \in DOMAIN deadlines' /\ Top(Ids(t)[i])' = Top(Ids(t)[1])'
    BY <1>1, <1>2, <1>3, <1>4 DEF Stacked
  <1>6. \A i \in DOMAIN Ids(t) :
          /\ deadlines'[Ids(t)[i]].expires = deadlines[Ids(t)[i]].expires
          /\ deadlines'[Ids(t)[i]].cleaning = deadlines[Ids(t)[i]].cleaning
    BY <1>3 DEF Keeps
  <1>7. ASSUME NEW i \in DOMAIN Ids(t), NEW j \in DOMAIN Ids(t), i <= j,
               \A k \in (i + 1) .. j : ~deadlines'[Ids(t)[k]].cleaning
        PROVE  deadlines'[Ids(t)[j]].expires <= deadlines'[Ids(t)[i]].expires
    <2>1. \A k \in (i + 1) .. j : k \in DOMAIN Ids(t)
      BY <1>7 DEF Ids, BudgetsInv, BudgetsTypeOK, TaskType
    <2>2. \A k \in (i + 1) .. j : ~deadlines[Ids(t)[k]].cleaning
      BY <1>6, <1>7, <2>1
    <2>3. deadlines[Ids(t)[j]].expires <= deadlines[Ids(t)[i]].expires
      BY <1>1, <1>7, <2>2 DEF Stacked
    <2> QED
      BY <1>6, <2>3
  <1> QED
    BY <1>1, <1>5, <1>7 DEF Stacked

\* A scope is entered whose deadline is of the same operation, and ends no later than the
\* innermost one or is for cleanup.
LEMMA StackGrows ==
  ASSUME BudgetsInv, NEW t \in Tasks, Keeps,
         NEW scope \in ScopeType, task'[t].scopes = Append(task[t].scopes, scope),
         scope.id \in DOMAIN deadlines',
         task[t].scopes # <<>> => Top(scope.id)' = Top(Current(t)),
         task[t].scopes # <<>> =>
           deadlines'[scope.id].cleaning \/ deadlines'[scope.id].expires <= deadlines[Current(t)].expires
  PROVE  Stacked(t)'
  <1> DEFINE n == Len(task[t].scopes)
  <1>0. PICK s : s = Ids(t)'
    OBVIOUS
  <1>1. task[t].scopes \in Seq(ScopeType) /\ n \in Nat /\ Stacked(t)
    BY DEF BudgetsInv, BudgetsTypeOK, TaskType
  <1>2. DOMAIN Ids(t) = 1 .. n /\ DOMAIN s = 1 .. (n + 1)
    BY <1>0, <1>1 DEF Ids
  <1>3. (\A i \in 1 .. n : s[i] = Ids(t)[i]) /\ s[n + 1] = scope.id
    BY <1>0, <1>1, <1>2 DEF Ids
  <1>4. \A i \in DOMAIN deadlines : i \in DOMAIN deadlines' /\ Top(i)' = Top(i)
    BY DEF Keeps, Top, BudgetsInv, BudgetsTypeOK
  <1>5. \A i \in 1 .. n : Ids(t)[i] \in DOMAIN deadlines /\ Top(Ids(t)[i]) = Top(Ids(t)[1])
    BY <1>1, <1>2 DEF Stacked
  <1>6. \A i \in 1 .. n :
          /\ deadlines'[s[i]].expires = deadlines[Ids(t)[i]].expires
          /\ deadlines'[s[i]].cleaning = deadlines[Ids(t)[i]].cleaning
    BY <1>3, <1>5 DEF Keeps
  <1>7. n # 0 => n \in 1 .. n /\ Current(t) = Ids(t)[n] /\ task[t].scopes # <<>>
    BY <1>1, CurrentIs
  <1> HIDE DEF n
  <1>8. \A i \in 1 .. n : 1 \in 1 .. n /\ s[i] \in DOMAIN deadlines' /\ Top(s[i])' = Top(Ids(t)[1])
    BY <1>1, <1>3, <1>4, <1>5
  <1>9. ASSUME NEW i \in 1 .. (n + 1) PROVE s[i] \in DOMAIN deadlines' /\ Top(s[i])' = Top(s[1])'
    <2>1. CASE i = n + 1 /\ n # 0
      <3>1. Top(scope.id)' = Top(Ids(t)[1]) /\ 1 \in 1 .. n
        BY <1>1, <1>5, <1>7, <2>1
      <3> QED
        BY <1>3, <1>8, <2>1, <3>1
    <2>2. CASE i = n + 1 /\ n = 0
      BY <1>3, <2>2
    <2>3. CASE i \in 1 .. n
      BY <1>8, <2>3
    <2> QED
      BY <1>1, <2>1, <2>2, <2>3
  <1>10. ASSUME NEW i \in 1 .. (n + 1), NEW j \in 1 .. (n + 1), i <= j,
                \A k \in (i + 1) .. j : ~deadlines'[s[k]].cleaning
         PROVE  deadlines'[s[j]].expires <= deadlines'[s[i]].expires
    <2>1. ASSUME NEW h \in 1 .. n, h <= j, i <= h
          PROVE  deadlines[Ids(t)[h]].expires <= deadlines[Ids(t)[i]].expires
      <3>1. i \in 1 .. n /\ \A k \in (i + 1) .. h : k \in (i + 1) .. j /\ k \in 1 .. n
        BY <1>1, <1>10, <2>1
      <3>2. \A k \in (i + 1) .. h : ~deadlines[Ids(t)[k]].cleaning
        BY <1>6, <1>10, <3>1
      <3> QED
        BY <1>1, <1>2, <2>1, <3>1, <3>2 DEF Stacked
    <2>2. CASE j <= n
      <3>1. i \in 1 .. n /\ j \in 1 .. n
        BY <1>1, <1>10, <2>2
      <3> QED
        BY <1>6, <1>10, <2>1, <3>1
    <2>3. CASE j = n + 1 /\ i <= n
      <3>1. i \in 1 .. n /\ n \in 1 .. n /\ n # 0 /\ j \in (i + 1) .. j
        BY <1>1, <1>10, <2>3
      <3>2. deadlines[Ids(t)[n]].expires <= deadlines[Ids(t)[i]].expires
        BY <1>1, <1>10, <2>1, <2>3, <3>1
      <3>3. deadlines'[scope.id].expires <= deadlines[Ids(t)[n]].expires
        BY <1>3, <1>7, <1>10, <2>3, <3>1
      <3>4. scope.id \in DOMAIN deadlines' /\ {Ids(t)[n], Ids(t)[i]} \subseteq DOMAIN deadlines
        BY <1>5, <3>1
      <3>5. {deadlines'[scope.id].expires, deadlines[Ids(t)[n]].expires,
             deadlines[Ids(t)[i]].expires} \subseteq Nat
        <4>1. \A h \in DOMAIN deadlines' : deadlines'[h] \in DeadlineType
          BY DEF Keeps
        <4>2. \A h \in DOMAIN deadlines : deadlines[h] \in DeadlineType
          BY DEF BudgetsInv, BudgetsTypeOK
        <4> QED
          BY <3>4, <4>1, <4>2 DEF DeadlineType
      <3>6. deadlines'[scope.id].expires <= deadlines[Ids(t)[i]].expires
        BY <3>2, <3>3, <3>5
      <3> QED
        BY <1>3, <1>6, <2>3, <3>1, <3>6
    <2>4. CASE i = n + 1 /\ j = n + 1
      <3>1. deadlines'[s[i]].expires \in Nat
        <4>1. \A h \in DOMAIN deadlines' : deadlines'[h] \in DeadlineType
          BY DEF Keeps
        <4> QED
          BY <1>9, <4>1 DEF DeadlineType
      <3> QED
        BY <2>4, <3>1
    <2> QED
      BY <1>1, <1>10, <2>2, <2>3, <2>4
  <1> QED
    BY <1>0, <1>2, <1>9, <1>10 DEF Stacked

\* The innermost scope is left.
LEMMA StackShrinks ==
  ASSUME BudgetsInv, NEW t \in Tasks, UNCHANGED deadlines, task[t].scopes # <<>>,
         task'[t].scopes = Front(task[t].scopes)
  PROVE  Stacked(t)'
  <1> DEFINE n == Len(task[t].scopes)
  <1>0. PICK s : s = Ids(t)'
    OBVIOUS
  <1>1. task[t].scopes \in Seq(ScopeType) /\ n \in Nat /\ n # 0 /\ Stacked(t)
    BY DEF BudgetsInv, BudgetsTypeOK, TaskType
  <1>2. DOMAIN Ids(t) = 1 .. n /\ DOMAIN s = 1 .. (n - 1)
    BY <1>0, <1>1 DEF Ids, Front
  <1>3. \A i \in 1 .. (n - 1) : s[i] = Ids(t)[i]
    BY <1>0, <1>1, <1>2 DEF Ids, Front
  <1> HIDE DEF n
  <1>4. \A i : Top(i)' = Top(i)
    BY DEF Top
  <1>5. ASSUME NEW i \in 1 .. (n - 1) PROVE s[i] \in DOMAIN deadlines' /\ Top(s[i])' = Top(s[1])'
    <2>1. i \in 1 .. n /\ 1 \in 1 .. (n - 1)
      BY <1>1
    <2> QED
      BY <1>1, <1>2, <1>3, <1>4, <2>1 DEF Stacked
  <1>6. ASSUME NEW i \in 1 .. (n - 1), NEW j \in 1 .. (n - 1), i <= j,
               \A k \in (i + 1) .. j : ~deadlines'[s[k]].cleaning
        PROVE  deadlines'[s[j]].expires <= deadlines'[s[i]].expires
    <2>1. i \in 1 .. n /\ j \in 1 .. n /\ \A k \in (i + 1) .. j : k \in 1 .. (n - 1)
      BY <1>1
    <2>2. \A k \in (i + 1) .. j : ~deadlines[Ids(t)[k]].cleaning
      BY <1>3, <1>6, <2>1
    <2>3. deadlines[Ids(t)[j]].expires <= deadlines[Ids(t)[i]].expires
      BY <1>1, <1>2, <1>6, <2>1, <2>2 DEF Stacked
    <2> QED
      BY <1>3, <2>3
  <1> QED
    BY <1>0, <1>2, <1>5, <1>6 DEF Stacked

\* A deadline is added whose time is within its parent's.
LEMMA DeadlineAdded ==
  ASSUME BudgetsInv, NEW n \in Nat, n = Len(deadlines), NEW d \in DeadlineType, deadlines' = Append(deadlines, d), d.grace = 0,
         \/ d.parent = 0 /\ d.within = 0
         \/ /\ d.parent \in DOMAIN deadlines /\ ~d.cleaning
            /\ d.expires <= deadlines[d.parent].expires /\ d.within = Top(d.parent)
  PROVE  /\ Keeps /\ \A i \in DOMAIN deadlines' : Nested(i)'
         /\ n + 1 \in DOMAIN deadlines' /\ deadlines'[n + 1] = d
         /\ Top(n + 1)' = IF d.within = 0 THEN n + 1 ELSE d.within
  <1>1. deadlines \in Seq(DeadlineType) /\ n \in Nat /\ DOMAIN deadlines = 1 .. n
    BY DEF BudgetsInv, BudgetsTypeOK
  <1>2. /\ deadlines' \in Seq(DeadlineType) /\ DOMAIN deadlines' = 1 .. (n + 1)
        /\ Len(deadlines') = n + 1 /\ deadlines'[n + 1] = d
        /\ \A i \in 1 .. n : deadlines'[i] = deadlines[i]
    BY <1>1
  <1>3. Keeps
    BY <1>1, <1>2 DEF Keeps
  <1>4. \A i \in 1 .. n : Top(i)' = Top(i)
    BY <1>2 DEF Top
  <1>5. Top(n + 1)' = IF d.within = 0 THEN n + 1 ELSE d.within
    BY <1>2 DEF Top
  <1>6. ASSUME NEW i \in 1 .. n PROVE Nested(i)'
    <2>1. Nested(i) /\ deadlines[i] \in DeadlineType
      BY <1>1 DEF BudgetsInv
    <2>0. PICK p, g, w : <<p, g, w>> = <<deadlines[i].parent, deadlines[i].grace, deadlines[i].within>>
      OBVIOUS
    <2>2. /\ p # 0 => p \in 1 .. n
          /\ g # 0 => g \in 1 .. n
          /\ w # 0 => w \in 1 .. n
      BY <2>0, <1>1, <2>1, SMTT(30) DEF Nested, DeadlineType
    <2>3. /\ deadlines'[i] = deadlines[i] /\ Top(i)' = Top(i)
          /\ p # 0 => deadlines'[p] = deadlines[p] /\ Top(p)' = Top(p)
          /\ g # 0 => deadlines'[g] = deadlines[g] /\ Top(g)' = Top(g)
          /\ w # 0 => deadlines'[w] = deadlines[w]
      BY <2>0, <1>2, <1>4, <2>2
    <2>4. deadlines'[i].parent \in 0 .. (i - 1)
      BY <2>0, <2>1, <2>3 DEF Nested
    <2>5. {deadlines'[i].within, deadlines'[i].grace} \subseteq 0 .. Len(deadlines')
      BY <2>0, <1>1, <1>2, <2>2, <2>3
    <2>6. deadlines'[i].parent # 0 =>
            /\ deadlines'[i].expires <= deadlines'[deadlines'[i].parent].expires
            /\ Top(i)' = Top(deadlines[i].parent)' /\ ~deadlines'[i].cleaning
      BY <2>0, <2>1, <2>3 DEF Nested
    <2>7. deadlines'[i].parent = 0 => deadlines'[i].grace # 0 \/ deadlines'[i].within = 0
      BY <2>0, <2>1, <2>3 DEF Nested
    <2>8. deadlines'[i].grace # 0 =>
            deadlines'[deadlines'[i].grace].cleaning /\ Top(deadlines[i].grace)' = Top(i)'
      BY <2>0, <2>1, <2>3 DEF Nested
    <2>9. deadlines'[i].cleaning /\ deadlines'[i].within # 0 =>
            deadlines'[deadlines'[i].within].grace = i
      BY <2>0, <2>1, <2>3 DEF Nested
    <2> QED
      BY <2>0, <2>3, <2>4, <2>5, <2>6, <2>7, <2>8, <2>9 DEF Nested, Top
  <1>7. Nested(n + 1)'
    <2>1. CASE d.parent = 0 /\ d.within = 0
      BY <1>1, <1>2, <2>1 DEF Nested
    <2>2. CASE /\ d.parent \in DOMAIN deadlines /\ ~d.cleaning
               /\ d.expires <= deadlines[d.parent].expires /\ d.within = Top(d.parent)
      <3>1. d.parent \in 1 .. n /\ d.parent # 0 /\ Nested(d.parent)
        BY <1>1, <2>2 DEF BudgetsInv
      <3>2. d.within \in 1 .. n /\ d.within # 0
        <4>1. d.within = d.parent \/ d.within = deadlines[d.parent].within
          BY <2>2 DEF Top
        <4>2. deadlines[d.parent].within # 0 => deadlines[d.parent].within \in 1 .. n
          BY <1>1, <3>1 DEF Nested
        <4> QED
          BY <2>2, <3>1, <4>1, <4>2 DEF Top
      <3>3. deadlines'[d.parent] = deadlines[d.parent] /\ Top(d.parent)' = Top(d.parent)
        BY <1>2, <1>4, <3>1
      <3>4. Top(n + 1)' = Top(d.parent)'
        BY <1>5, <2>2, <3>2, <3>3
      <3>5. d.parent \in 0 .. ((n + 1) - 1) /\ {d.within, d.grace} \subseteq 0 .. (n + 1)
        BY <1>1, <3>1, <3>2
      <3>6. /\ deadlines'[n + 1].parent \in 0 .. ((n + 1) - 1)
            /\ {deadlines'[n + 1].within, deadlines'[n + 1].grace} \subseteq 0 .. Len(deadlines')
        BY <1>2, <3>5
      <3>7. /\ deadlines'[n + 1].expires <= deadlines'[deadlines'[n + 1].parent].expires
            /\ ~deadlines'[n + 1].cleaning /\ deadlines'[n + 1].parent # 0
            /\ deadlines'[n + 1].grace = 0 /\ deadlines'[n + 1].parent = d.parent
        BY <1>2, <2>2, <3>1, <3>3
      <3> QED
        BY <3>4, <3>6, <3>7 DEF Nested, Top
    <2> QED
      BY <2>1, <2>2
  <1> QED
    BY <1>1, <1>2, <1>3, <1>5, <1>6, <1>7

\* The one deadline for the cleanup of an operation is added.
LEMMA CleanupAdded ==
  ASSUME BudgetsInv, NEW n \in Nat, n = Len(deadlines), NEW d \in DeadlineType, NEW r \in DOMAIN deadlines,
         deadlines' = Append([deadlines EXCEPT ![r].grace = n + 1], d),
         deadlines[r].parent = 0, deadlines[r].grace = 0,
         d.parent = 0, d.cleaning, d.within = r, d.grace = n + 1
  PROVE  /\ Keeps /\ \A i \in DOMAIN deadlines' : Nested(i)'
         /\ n + 1 \in DOMAIN deadlines' /\ deadlines'[n + 1] = d
         /\ Top(n + 1)' = r
  <1> DEFINE D == [deadlines EXCEPT ![r].grace = n + 1]
  <1>1. deadlines \in Seq(DeadlineType) /\ n \in Nat /\ DOMAIN deadlines = 1 .. n
    BY DEF BudgetsInv, BudgetsTypeOK
  <1>2. PICK e : e = [deadlines[r] EXCEPT !.grace = n + 1]
    OBVIOUS
  <1>3. /\ e \in DeadlineType /\ e.expires = deadlines[r].expires /\ e.parent = deadlines[r].parent
        /\ e.within = deadlines[r].within /\ e.cleaning = deadlines[r].cleaning /\ e.grace = n + 1
    <2>1. deadlines[r] \in DeadlineType
      BY <1>1
    <2> QED
      BY <1>1, <1>2, <2>1 DEF DeadlineType
  <1>12. D = [deadlines EXCEPT ![r] = e]
    BY <1>2
  <1>13. D \in Seq(DeadlineType) /\ Len(D) = n
    BY <1>1, <1>3, <1>12, SMTT(30)
  <1>14. \A i \in 1 .. n :
          /\ D[i].expires = deadlines[i].expires /\ D[i].parent = deadlines[i].parent
          /\ D[i].within = deadlines[i].within /\ D[i].cleaning = deadlines[i].cleaning
          /\ D[i].grace = IF i = r THEN n + 1 ELSE deadlines[i].grace
    BY <1>1, <1>3, <1>12
  <1>4. deadlines' = Append(D, d)
    OBVIOUS
  <1> HIDE DEF D
  <1>5. /\ deadlines' \in Seq(DeadlineType) /\ DOMAIN deadlines' = 1 .. (n + 1)
        /\ Len(deadlines') = n + 1 /\ deadlines'[n + 1] = d
        /\ \A i \in 1 .. n : deadlines'[i] = D[i]
    <2>1. \A E \in Seq(DeadlineType) : Len(E) = n =>
            /\ Append(E, d) \in Seq(DeadlineType) /\ Len(Append(E, d)) = n + 1
            /\ DOMAIN Append(E, d) = 1 .. (n + 1) /\ Append(E, d)[n + 1] = d
            /\ \A i \in 1 .. n : Append(E, d)[i] = E[i]
      OBVIOUS
    <2> QED
      BY <1>13, <1>4, <2>1
  <1>6. r \in 1 .. n /\ deadlines[r].within = 0 /\ Nested(r)
    <2>1. r \in 1 .. n /\ Nested(r)
      BY <1>1 DEF BudgetsInv
    <2> QED
      BY <2>1 DEF Nested
  <1>7. Keeps
    BY <1>1, <1>14, <1>5 DEF Keeps
  <1>8. \A i \in 1 .. n : Top(i)' = Top(i)
    BY <1>14, <1>5 DEF Top
  <1>9. Top(n + 1)' = r /\ Top(r) = r /\ r # 0
    BY <1>1, <1>5, <1>6 DEF Top
  <1>10. ASSUME NEW i \in 1 .. n PROVE Nested(i)'
    <2>1. Nested(i) /\ deadlines[i] \in DeadlineType
      BY <1>1 DEF BudgetsInv
    <2>0. PICK p, g, w : <<p, g, w>> = <<deadlines[i].parent, deadlines[i].grace, deadlines[i].within>>
      OBVIOUS
    <2>2. /\ p # 0 => p \in 1 .. n
          /\ g # 0 => g \in 1 .. n
          /\ w # 0 => w \in 1 .. n
      <3>1. {w, g} \subseteq 0 .. n /\ p \in 0 .. (i - 1)
        BY <2>0, <2>1 DEF Nested
      <3> QED
        BY <1>1, <3>1
    <2>3. /\ deadlines'[i].expires = deadlines[i].expires /\ deadlines'[i].parent = p
          /\ deadlines'[i].within = w /\ deadlines'[i].cleaning = deadlines[i].cleaning
          /\ deadlines'[i].grace = IF i = r THEN n + 1 ELSE g
          /\ Top(i)' = Top(i)
      BY <2>0, <1>14, <1>5, <1>8
    <2>4. /\ p # 0 => deadlines'[p].expires = deadlines[p].expires /\ Top(p)' = Top(p)
          /\ g # 0 => deadlines'[g].cleaning = deadlines[g].cleaning /\ Top(g)' = Top(g)
          /\ w # 0 /\ w # r => deadlines'[w].grace = deadlines[w].grace
      BY <2>0, <1>14, <1>5, <1>8, <2>2
    <2>5. deadlines'[i].parent \in 0 .. (i - 1)
      BY <2>0, <2>1, <2>3 DEF Nested
    <2>6. {deadlines'[i].within, deadlines'[i].grace} \subseteq 0 .. Len(deadlines')
      BY <2>0, <1>1, <1>5, <2>2, <2>3
    <2>7. p # 0 => /\ deadlines'[i].expires <= deadlines'[p].expires
                   /\ Top(i)' = Top(p)' /\ ~deadlines'[i].cleaning
      BY <2>0, <2>1, <2>3, <2>4 DEF Nested
    <2>8. p = 0 => deadlines'[i].grace # 0 \/ deadlines'[i].within = 0
      BY <2>0, <1>1, <2>1, <2>3 DEF Nested
    <2>11. PICK k : k = deadlines'[i].grace
      OBVIOUS
    <2>9. deadlines'[i].grace # 0 =>
            deadlines'[k].cleaning /\ Top(k)' = Top(i)'
      <3>1. CASE i = r
        BY <2>0, <1>5, <1>8, <1>9, <2>3, <2>11, <3>1
      <3>2. CASE i # r
        BY <2>0, <2>1, <2>3, <2>4, <2>11, <3>2 DEF Nested
      <3> QED
        BY <2>0, <3>1, <3>2
    <2>10. deadlines'[i].cleaning /\ deadlines'[i].within # 0 =>
             deadlines'[deadlines'[i].within].grace = i
      <3>1. deadlines[i].cleaning /\ w # 0 => deadlines[w].grace = i /\ i # 0
        BY <2>0, <1>1, <2>1 DEF Nested
      <3>2. deadlines[i].cleaning /\ w # 0 => w # r
        BY <2>0, <3>1
      <3> QED
        BY <2>0, <2>3, <2>4, <3>1, <3>2
    <2> QED
      BY <2>0, <2>3, <2>5, <2>6, <2>7, <2>8, <2>9, <2>10, <2>11 DEF Nested, Top
  <1>11. Nested(n + 1)'
    <2>1. deadlines'[r].grace = n + 1
      <3>1. D[r].grace = n + 1 /\ r \in 1 .. n
        BY <1>1, <1>14
      <3> QED
        BY <1>5, <3>1
    <2>2. {r, n + 1} \subseteq 0 .. (n + 1)
      BY <1>1, <1>6
    <2> QED
      BY <1>1, <1>5, <1>9, <2>1, <2>2 DEF Nested
  <1> QED
    BY <1>1, <1>5, <1>7, <1>9, <1>10, <1>11

\* A thread that has one scope, or none, has nothing around it.
LEMMA StackBegins ==
  ASSUME BudgetsInv, NEW t \in Tasks, UNCHANGED deadlines,
         \/ task'[t].scopes = <<>>
         \/ \E scope \in ScopeType :
              scope.id \in DOMAIN deadlines /\ task'[t].scopes = Append(<<>>, scope)
  PROVE  Stacked(t)'
  <1>1. CASE task'[t].scopes = <<>>
    <2>1. DOMAIN Ids(t)' = {}
      BY <1>1 DEF Ids
    <2> QED
      BY <2>1 DEF Stacked
  <1>2. ASSUME NEW scope \in ScopeType, scope.id \in DOMAIN deadlines,
               task'[t].scopes = Append(<<>>, scope)
        PROVE  Stacked(t)'
    <2>1. DOMAIN Ids(t)' = {1} /\ Ids(t)'[1] = scope.id
      BY <1>2 DEF Ids
    <2>2. deadlines[scope.id].expires \in Nat
      <3>1. \A h \in DOMAIN deadlines : deadlines[h] \in DeadlineType
        BY DEF BudgetsInv, BudgetsTypeOK
      <3> QED
        BY <1>2, <3>1 DEF DeadlineType
    <2> QED
      BY <1>2, <2>1, <2>2 DEF Stacked
  <1> QED
    BY <1>1, <1>2

\* What one thread does is to its own scopes and wait, if it leaves deadlines as they are or
\* adds one.
LEMMA OneTask ==
  ASSUME BudgetsInv, NEW t \in Tasks, NEW w \in TaskType, task' = [task EXCEPT ![t] = w],
         UNCHANGED instant, Keeps, \A i \in DOMAIN deadlines' : Nested(i)',
         Stacked(t)', WaitsInTime(t)'
  PROVE  BudgetsInv'
  <1>1. task \in [Tasks -> TaskType]
    BY DEF BudgetsInv, BudgetsTypeOK
  <1>2. ASSUME NEW u \in Tasks PROVE Stacked(u)' /\ WaitsInTime(u)'
    <2>1. CASE u # t
      <3>1. task'[u] = task[u]
        BY <1>1, <2>1
      <3>2. Stacked(u)'
        BY <3>1, StackStays
      <3>3. task[u].scopes # <<>> =>
              Current(u)' = Current(u) /\ deadlines'[Current(u)].expires = deadlines[Current(u)].expires
        BY <3>1, CurrentIs DEF Current, Keeps
      <3>4. WaitsInTime(u)
        BY DEF BudgetsInv
      <3>5. WaitsInTime(u)'
        BY <3>1, <3>3, <3>4 DEF WaitsInTime, TaskAt
      <3> QED
        BY <3>2, <3>5
    <2> QED
      BY <2>1
  <1>3. BudgetsTypeOK'
    BY <1>1 DEF BudgetsInv, BudgetsTypeOK, Keeps
  <1> QED
    BY <1>2, <1>3 DEF BudgetsInv

\* Deadlines that stay keep what holds of them.
LEMMA DeadlinesStay ==
  ASSUME BudgetsInv, UNCHANGED deadlines
  PROVE  Keeps /\ \A i \in DOMAIN deadlines' : Nested(i)'
  <1>1. deadlines \in Seq(DeadlineType) /\ \A i \in DOMAIN deadlines : Nested(i)
    BY DEF BudgetsInv, BudgetsTypeOK
  <1>2. Keeps
    BY <1>1 DEF Keeps
  <1>3. ASSUME NEW i \in DOMAIN deadlines PROVE Nested(i)'
    BY <1>1 DEF Nested, Top
  <1> QED
    BY <1>2, <1>3

\* A thread goes on, without a wait and with the scopes it has.
LEMMA TaskOn ==
  ASSUME BudgetsInv, NEW t \in Tasks, NEW w \in TaskType, task' = [task EXCEPT ![t] = w],
         UNCHANGED <<instant, deadlines>>, w.scopes = task[t].scopes,
         w.at \notin {"waits", "connects"}
  PROVE  BudgetsInv'
  <1>1. task'[t] = w
    BY DEF BudgetsInv, BudgetsTypeOK
  <1>2. Stacked(t)' /\ Keeps /\ \A i \in DOMAIN deadlines' : Nested(i)'
    BY <1>1, DeadlinesStay, StackStays
  <1>3. WaitsInTime(t)'
    BY <1>1 DEF WaitsInTime
  <1> QED
    BY <1>2, <1>3, OneTask

\* A thread is in a scope anew, of its operation and in time.
LEMMA TaskEnters ==
  ASSUME BudgetsInv, NEW t \in Tasks, NEW w \in TaskType, task' = [task EXCEPT ![t] = w],
         UNCHANGED instant, Keeps, \A i \in DOMAIN deadlines' : Nested(i)',
         w.at \notin {"waits", "connects"},
         NEW scope \in ScopeType, w.scopes = Append(task[t].scopes, scope),
         scope.id \in DOMAIN deadlines',
         task[t].scopes # <<>> => Top(scope.id)' = Top(Current(t)),
         task[t].scopes # <<>> =>
           deadlines'[scope.id].cleaning \/ deadlines'[scope.id].expires <= deadlines[Current(t)].expires
  PROVE  BudgetsInv'
  <1>1. task'[t] = w
    BY DEF BudgetsInv, BudgetsTypeOK
  <1>2. task'[t].scopes = Append(task[t].scopes, scope)
    BY <1>1
  <1>3. Stacked(t)'
    BY <1>2, StackGrows
  <1>4. WaitsInTime(t)'
    BY <1>1 DEF WaitsInTime
  <1> QED
    BY <1>3, <1>4, OneTask

\* The record of a thread that enters a scope.
LEMMA EnteredIs ==
  ASSUME BudgetsInv, NEW t \in Tasks, NEW kind \in {"copied", "operation", "limited", "cleanup"},
         NEW id \in Nat
  PROVE  /\ Entered(task[t], kind, id) \in TaskType
         /\ [Entered(task[t], kind, id) EXCEPT !.seconds = 0] \in TaskType
         /\ Scope(kind, id, task[t].raising) \in ScopeType
         /\ Scope(kind, id, task[t].raising).id = id
         /\ Entered(task[t], kind, id).at = "works"
         /\ Entered(task[t], kind, id).scopes = Append(task[t].scopes, Scope(kind, id, task[t].raising))
         /\ [Entered(task[t], kind, id) EXCEPT !.seconds = 0].at = "works"
         /\ [Entered(task[t], kind, id) EXCEPT !.seconds = 0].scopes =
              Append(task[t].scopes, Scope(kind, id, task[t].raising))
  <1>1. task[t] \in TaskType
    BY DEF BudgetsInv, BudgetsTypeOK
  <1>2. PICK scope : scope = Scope(kind, id, task[t].raising)
    OBVIOUS
  <1>3. scope \in ScopeType /\ scope.id = id
    BY <1>1, <1>2 DEF Scope, ScopeType, TaskType
  <1>4. Append(task[t].scopes, scope) \in Seq(ScopeType)
    BY <1>1, <1>3 DEF TaskType
  <1>5. Entered(task[t], kind, id) = [task[t] EXCEPT !.at = "works", !.scopes = Append(@, scope), !.raising = FALSE]
    BY <1>2 DEF Entered
  <1>6. /\ Entered(task[t], kind, id) \in TaskType /\ Entered(task[t], kind, id).at = "works"
        /\ Entered(task[t], kind, id).scopes = Append(task[t].scopes, scope)
    BY <1>1, <1>4, <1>5 DEF TaskType
  <1>7. /\ [Entered(task[t], kind, id) EXCEPT !.seconds = 0] \in TaskType
        /\ [Entered(task[t], kind, id) EXCEPT !.seconds = 0].at = "works"
        /\ [Entered(task[t], kind, id) EXCEPT !.seconds = 0].scopes = Append(task[t].scopes, scope)
    BY <1>6 DEF TaskType
  <1> QED
    BY <1>2, <1>3, <1>6, <1>7

\* The record of one that enters cleanup.
LEMMA CleanupEntered ==
  ASSUME BudgetsInv, NEW t \in Tasks, NEW id \in Nat, NEW w, NEW scope,
         w = Entered(task[t], "cleanup", id), scope = Scope("cleanup", id, task[t].raising)
  PROVE  /\ w \in TaskType /\ scope \in ScopeType /\ scope.id = id
         /\ w.at = "works" /\ w.scopes = Append(task[t].scopes, scope)
  BY EnteredIs, ZenonT(60)

-----------------------------------------------------------------------------
(* Budgets: the steps of a thread.                                          *)

\* It begins, in the context of another or in none.
LEMMA StepBeginTask ==
  ASSUME BudgetsInv, NEW t \in Tasks, BeginTask(t)
  PROVE  BudgetsInv'
  <1>1. UNCHANGED <<instant, deadlines>> /\ Keeps /\ \A i \in DOMAIN deadlines' : Nested(i)'
    BY DeadlinesStay DEF BeginTask
  <1>2. ASSUME NEW w \in TaskType, task' = [task EXCEPT ![t] = w], w.at = "works",
               \/ w.scopes = <<>>
               \/ \E scope \in ScopeType : scope.id \in DOMAIN deadlines /\ w.scopes = Append(<<>>, scope)
        PROVE  BudgetsInv'
    <2>1. task'[t] = w
      BY <1>2 DEF BudgetsInv, BudgetsTypeOK
    <2>2. Stacked(t)'
      BY <1>1, <1>2, <2>1, StackBegins
    <2>3. WaitsInTime(t)'
      BY <1>2, <2>1 DEF WaitsInTime
    <2> QED
      BY <1>1, <1>2, <2>2, <2>3, OneTask
  <1>3. CASE task' = [task EXCEPT ![t] = [TaskRests EXCEPT !.at = "works"]]
    <2>1. [TaskRests EXCEPT !.at = "works"] \in TaskType
      <3>1. TaskRests \in TaskType
        BY DEF TaskRests, TaskType
      <3> QED
        BY <3>1 DEF TaskType
    <2>2. [TaskRests EXCEPT !.at = "works"].at = "works" /\ [TaskRests EXCEPT !.at = "works"].scopes = <<>>
      BY DEF TaskRests
    <2> QED
      BY <1>2, <1>3, <2>1, <2>2
  <1>4. ASSUME NEW u \in Tasks, Current(u) # 0,
               task' = [task EXCEPT ![t] = Entered(TaskRests, "copied", Current(u))]
        PROVE  BudgetsInv'
    <2>1. Current(u) \in DOMAIN deadlines /\ Current(u) \in Nat
      BY <1>4, CurrentIs DEF BudgetsInv, BudgetsTypeOK
    <2>2. PICK scope : scope = Scope("copied", Current(u), FALSE)
      OBVIOUS
    <2>3. scope \in ScopeType /\ scope.id = Current(u)
      BY <2>1, <2>2 DEF Scope, ScopeType
    <2>4. PICK w : w = Entered(TaskRests, "copied", Current(u))
      OBVIOUS
    <2>5. w = [at |-> "works", scopes |-> Append(<<>>, scope), raising |-> FALSE, until |-> 0, seconds |-> 0]
      BY <2>2, <2>4 DEF Entered, TaskRests
    <2>6. Append(<<>>, scope) \in Seq(ScopeType)
      BY <2>3
    <2>7. w \in TaskType /\ w.at = "works" /\ w.scopes = Append(<<>>, scope)
      BY <2>5, <2>6 DEF TaskType
    <2> QED
      BY <1>2, <1>4, <2>1, <2>3, <2>4, <2>7
  <1> QED
    BY <1>3, <1>4 DEF BeginTask

\* It ends.
LEMMA StepEndTask ==
  ASSUME BudgetsInv, NEW t \in Tasks, EndTask(t)
  PROVE  BudgetsInv'
  <1>1. TaskRests \in TaskType /\ TaskRests.at = "rest" /\ TaskRests.scopes = <<>>
    BY DEF TaskRests, TaskType
  <1>2. task' = [task EXCEPT ![t] = TaskRests] /\ UNCHANGED <<instant, deadlines>>
    BY DEF EndTask
  <1>3. task'[t] = TaskRests
    BY <1>2 DEF BudgetsInv, BudgetsTypeOK
  <1>4. Stacked(t)' /\ WaitsInTime(t)'
    BY <1>1, <1>2, <1>3, StackBegins DEF WaitsInTime
  <1> QED
    BY <1>1, <1>2, <1>4, DeadlinesStay, OneTask

\* A deadline has a time.
LEMMA ExpiresIs ==
  ASSUME BudgetsInv, NEW id \in DOMAIN deadlines
  PROVE  deadlines[id] \in DeadlineType /\ deadlines[id].expires \in Nat
  <1>1. \A i \in DOMAIN deadlines : deadlines[i] \in DeadlineType
    BY DEF BudgetsInv, BudgetsTypeOK
  <1> QED
    BY <1>1 DEF DeadlineType

\* What raises goes on with its scopes.
LEMMA RaisingIs ==
  ASSUME BudgetsInv, NEW t \in Tasks
  PROVE  /\ Raising(task[t]) \in TaskType /\ Raising(task[t]).at = "works"
         /\ Raising(task[t]).scopes = task[t].scopes
  <1>1. task[t] \in TaskType
    BY DEF BudgetsInv, BudgetsTypeOK
  <1> QED
    BY <1>1 DEF Raising, TaskType

\* The constants are times.
LEMMA TimesAre ==
  /\ BudgetSeconds \in Nat /\ CleanupSeconds \in Nat
  /\ \A s \in Allowances : s \in Nat
  /\ \A s \in Caps : s \in Nat
  BY BudgetsAssumption

\* It enters an operation.
LEMMA StepEnterOperation ==
  ASSUME BudgetsInv, NEW t \in Tasks, EnterOperation(t)
  PROVE  BudgetsInv'
  <1>1. instant \in Nat /\ deadlines \in Seq(DeadlineType) /\ UNCHANGED instant
    BY DEF BudgetsInv, BudgetsTypeOK, EnterOperation
  <1>2. CASE Current(t) = 0
    <2>1. PICK n \in Nat : n = Len(deadlines)
      BY <1>1
    <2>2. PICK d : d = Deadline(instant + BudgetSeconds, 0, 0, FALSE)
      OBVIOUS
    <2>3. /\ d \in DeadlineType /\ d.grace = 0 /\ d.parent = 0 /\ d.within = 0
          /\ deadlines' = Append(deadlines, d)
          /\ task' = [task EXCEPT ![t] = Entered(task[t], "operation", n + 1)]
      BY <1>1, <1>2, <2>1, <2>2, TimesAre DEF Deadline, DeadlineType, EnterOperation
    <2>4. Keeps /\ (\A i \in DOMAIN deadlines' : Nested(i)') /\ n + 1 \in DOMAIN deadlines'
      BY <2>1, <2>3, DeadlineAdded
    <2>5. task[t].scopes = <<>>
      BY <1>2, CurrentIs
    <2> QED
      <3>1. PICK w : w = Entered(task[t], "operation", n + 1)
        OBVIOUS
      <3>2. PICK scope : scope = Scope("operation", n + 1, task[t].raising)
        OBVIOUS
      <3>3. /\ w \in TaskType /\ scope \in ScopeType /\ scope.id = n + 1
            /\ w.at = "works" /\ w.scopes = Append(task[t].scopes, scope)
        <4>1. PICK m \in Nat : m = n + 1
          BY <2>1
        <4>2. w = Entered(task[t], "operation", m) /\ scope = Scope("operation", m, task[t].raising)
          BY <3>1, <3>2, <4>1
        <4> QED
          BY <4>1, <4>2, EnteredIs
      <3> QED
        BY <1>1, <2>3, <2>4, <2>5, <3>1, <3>3, TaskEnters
  <1>3. CASE Current(t) # 0 /\ IsOver(Current(t))
    BY <1>3, RaisingIs, TaskOn DEF EnterOperation
  <1>4. CASE Current(t) # 0 /\ ~IsOver(Current(t))
    <2>1. /\ UNCHANGED <<instant, deadlines>>
          /\ task' = [task EXCEPT ![t] = Entered(task[t], "operation", Current(t))]
      BY <1>4 DEF EnterOperation
    <2>2. Current(t) \in DOMAIN deadlines /\ Current(t) \in Nat
      BY <1>1, <1>4, CurrentIs
    <2>3. PICK c : c = Current(t)
      OBVIOUS
    <2>4. Top(c)' = Top(c) /\ deadlines'[c].expires <= deadlines[Current(t)].expires
      <3>1. deadlines[c] \in DeadlineType
        BY <1>1, <2>2, <2>3
      <3> QED
        BY <2>1, <2>3, <3>1 DEF Top, DeadlineType
    <2>5. Keeps /\ \A i \in DOMAIN deadlines' : Nested(i)'
      BY <2>1, DeadlinesStay
    <2>6. PICK w : w = Entered(task[t], "operation", c)
      OBVIOUS
    <2>7. PICK scope : scope = Scope("operation", c, task[t].raising)
      OBVIOUS
    <2>8. /\ w \in TaskType /\ scope \in ScopeType /\ scope.id = c
          /\ w.at = "works" /\ w.scopes = Append(task[t].scopes, scope)
      BY <2>2, <2>3, <2>6, <2>7, EnteredIs
    <2>9. Top(scope.id)' = Top(Current(t)) /\ deadlines'[scope.id].expires <= deadlines[Current(t)].expires
      BY <2>3, <2>4, <2>8 DEF Top
    <2> QED
      BY <2>1, <2>2, <2>3, <2>5, <2>6, <2>8, <2>9, TaskEnters
  <1> QED
    BY <1>2, <1>3, <1>4

\* It reads what is left.
LEMMA StepReadLimit ==
  ASSUME BudgetsInv, NEW t \in Tasks, ReadLimit(t)
  PROVE  BudgetsInv'
  <1>1. /\ instant \in Nat /\ deadlines \in Seq(DeadlineType) /\ task[t] \in TaskType
        /\ UNCHANGED <<instant, deadlines>>
    BY DEF BudgetsInv, BudgetsTypeOK, ReadLimit
  <1>2. CASE Current(t) # 0 /\ IsOver(Current(t))
    BY <1>2, RaisingIs, TaskOn DEF ReadLimit
  <1>3. CASE ~(Current(t) # 0 /\ IsOver(Current(t)))
    <2>1. PICK s \in Allowances :
            task' = [task EXCEPT ![t] = [task[t] EXCEPT !.at = "limits",
              !.seconds = IF Current(t) = 0 THEN s ELSE Min({s, Left(Current(t))})]]
      BY <1>3 DEF ReadLimit
    <2>2. PICK left : left = IF Current(t) = 0 THEN s ELSE Min({s, Left(Current(t))})
      OBVIOUS
    <2>3. left \in Nat
      <3>1. CASE Current(t) = 0
        BY <2>2, <3>1, TimesAre
      <3>2. CASE Current(t) # 0
        <4>1. Current(t) \in DOMAIN deadlines
          BY <3>2, CurrentIs
        <4>2. deadlines[Current(t)].expires \in Nat /\ ~IsOver(Current(t))
          BY <1>3, <3>2, <4>1, ExpiresIs
        <4>3. Left(Current(t)) \in Nat
          BY <1>1, <4>2 DEF Left, IsOver
        <4>4. s \in Nat
          BY TimesAre
        <4> QED
          <5>1. PICK l \in Nat : l = Left(Current(t))
            BY <4>3
          <5>2. Min({s, l}) \in {s, l}
            BY <4>4, Lesser
          <5> QED
            BY <2>2, <3>2, <4>4, <5>1, <5>2
      <3> QED
        BY <3>1, <3>2
    <2>4. task' = [task EXCEPT ![t] = [task[t] EXCEPT !.at = "limits", !.seconds = left]]
      BY <2>1, <2>2
    <2>5. PICK w : w = [task[t] EXCEPT !.at = "limits", !.seconds = left]
      OBVIOUS
    <2>6. w \in TaskType /\ w.at = "limits" /\ w.scopes = task[t].scopes
      BY <1>1, <2>3, <2>5 DEF TaskType
    <2> QED
      BY <1>1, <2>4, <2>5, <2>6, TaskOn
  <1> QED
    BY <1>2, <1>3

\* It begins with an allowance, within what is around it.
LEMMA StepEnterLimited ==
  ASSUME BudgetsInv, NEW t \in Tasks, EnterLimited(t)
  PROVE  BudgetsInv'
  <1>1. /\ instant \in Nat /\ deadlines \in Seq(DeadlineType) /\ task[t] \in TaskType
        /\ UNCHANGED instant
    BY DEF BudgetsInv, BudgetsTypeOK, EnterLimited
  <1>2. PICK p, x, o : <<p, x, o>> = <<Current(t), ExpiresAt(task[t].seconds, Current(t)), Outermost(t)>>
    OBVIOUS
  <1>3. PICK n \in Nat : n = Len(deadlines)
    BY <1>1
  <1>4. PICK m \in Nat : m = n + 1
    OBVIOUS
  <1>5. PICK d : d = Deadline(x, p, o, FALSE)
    OBVIOUS
  <1>6. PICK w, scope : <<w, scope>> = <<[Entered(task[t], "limited", m) EXCEPT !.seconds = 0],
                                         Scope("limited", m, task[t].raising)>>
    OBVIOUS
  <1>7. deadlines' = Append(deadlines, d) /\ task' = [task EXCEPT ![t] = w]
    BY <1>2, <1>3, <1>4, <1>5, <1>6 DEF EnterLimited
  <1>8. /\ w \in TaskType /\ scope \in ScopeType /\ scope.id = m
        /\ w.at = "works" /\ w.scopes = Append(task[t].scopes, scope)
    BY <1>6, EnteredIs
  <1>9. task[t].seconds \in Nat /\ instant + task[t].seconds \in Nat
    BY <1>1 DEF TaskType
  <1>10. CASE p = 0
    <2>1. task[t].scopes = <<>> /\ o = 0 /\ x = instant + task[t].seconds
      BY <1>2, <1>10, CurrentIs DEF ExpiresAt
    <2>2. d \in DeadlineType /\ d.grace = 0 /\ d.parent = 0 /\ d.within = 0
      BY <1>5, <1>9, <1>10, <2>1 DEF Deadline, DeadlineType
    <2>3. Keeps /\ (\A i \in DOMAIN deadlines' : Nested(i)') /\ m \in DOMAIN deadlines'
      BY <1>3, <1>4, <1>7, <2>2, DeadlineAdded
    <2> QED
      BY <1>1, <1>7, <1>8, <2>1, <2>3, TaskEnters
  <1>11. CASE p # 0
    <2>1. /\ p \in DOMAIN deadlines /\ p \in Nat /\ deadlines[p].expires \in Nat
          /\ o = Top(p) /\ o \in DOMAIN deadlines /\ o \in Nat /\ o # 0
      BY <1>1, <1>2, <1>11, CurrentIs, ExpiresIs
    <2>2. x \in Nat /\ x <= deadlines[p].expires
      <3>1. PICK a, b \in Nat : a = instant + task[t].seconds /\ b = deadlines[p].expires
        BY <1>9, <2>1
      <3>2. x = Min({a, b})
        BY <1>2, <1>11, <3>1 DEF ExpiresAt
      <3> QED
        <4>1. Min({a, b}) \in {a, b} /\ Min({a, b}) <= b
          <5>1. a \in Nat /\ b \in Nat
            BY <3>1
          <5> QED
            BY <5>1, Lesser
        <4> QED
          BY <3>1, <3>2, <4>1
    <2>3. /\ d \in DeadlineType /\ d.grace = 0 /\ d.parent = p /\ d.within = o /\ ~d.cleaning
          /\ d.expires = x
      BY <1>5, <2>1, <2>2 DEF Deadline, DeadlineType
    <2>4. /\ Keeps /\ (\A i \in DOMAIN deadlines' : Nested(i)') /\ m \in DOMAIN deadlines'
          /\ deadlines'[m] = d /\ Top(m)' = o
      BY <1>3, <1>4, <1>7, <2>1, <2>2, <2>3, DeadlineAdded
    <2>5. Top(scope.id)' = Top(Current(t)) /\ deadlines'[scope.id].expires <= deadlines[Current(t)].expires
      BY <1>2, <1>8, <2>1, <2>2, <2>3, <2>4 DEF Top
    <2> QED
      BY <1>1, <1>7, <1>8, <2>4, <2>5, TaskEnters
  <1> QED
    BY <1>10, <1>11

\* It cleans up, with the one allowance of its operation.
LEMMA StepEnterCleanup ==
  ASSUME BudgetsInv, NEW t \in Tasks, EnterCleanup(t)
  PROVE  BudgetsInv'
  <1>1. /\ instant \in Nat /\ deadlines \in Seq(DeadlineType) /\ task[t] \in TaskType
        /\ UNCHANGED instant /\ CleanupSeconds \in Nat
    BY TimesAre DEF BudgetsInv, BudgetsTypeOK, EnterCleanup
  <1>2. PICK r : r = IF Current(t) = 0 THEN 0 ELSE Root(Current(t))
    OBVIOUS
  <1>3. PICK n \in Nat : n = Len(deadlines)
    BY <1>1
  <1>4. PICK m \in Nat : m = n + 1
    OBVIOUS
  <1>5. PICK e : e = Deadline(instant + CleanupSeconds, 0, Outermost(t), TRUE)
    OBVIOUS
  <1>6. /\ IF r = 0 THEN deadlines' = Append(deadlines, e)
           ELSE IF deadlines[r].grace # 0 THEN UNCHANGED deadlines
           ELSE deadlines' = Append([deadlines EXCEPT ![r].grace = m], [e EXCEPT !.grace = m])
        /\ task' = [task EXCEPT ![t] = Entered(task[t], "cleanup",
             IF r # 0 /\ deadlines[r].grace # 0 THEN deadlines[r].grace ELSE m)]
    BY <1>2, <1>3, <1>4, <1>5 DEF EnterCleanup
  <1>7. ASSUME NEW id \in Nat, task' = [task EXCEPT ![t] = Entered(task[t], "cleanup", id)],
               Keeps, \A i \in DOMAIN deadlines' : Nested(i)', id \in DOMAIN deadlines',
               task[t].scopes # <<>> => Top(id)' = Top(Current(t)) /\ deadlines'[id].cleaning
        PROVE  BudgetsInv'
    <2>1. PICK w, scope : <<w, scope>> = <<Entered(task[t], "cleanup", id),
                                           Scope("cleanup", id, task[t].raising)>>
      OBVIOUS
    <2>2. /\ w \in TaskType /\ scope \in ScopeType /\ scope.id = id
          /\ w.at = "works" /\ w.scopes = Append(task[t].scopes, scope)
      <3>1. id \in Nat /\ w = Entered(task[t], "cleanup", id) /\ scope = Scope("cleanup", id, task[t].raising)
        BY <1>7, <2>1
      <3> QED
        BY <3>1, CleanupEntered
    <2>3. task[t].scopes # <<>> => Top(scope.id)' = Top(Current(t)) /\ deadlines'[scope.id].cleaning
      BY <1>7, <2>2 DEF Top
    <2> QED
      BY <1>1, <1>7, <2>1, <2>2, <2>3, TaskEnters
  <1>8. CASE Current(t) = 0
    <2>1. task[t].scopes = <<>> /\ Outermost(t) = 0 /\ r = 0
      BY <1>2, <1>8, CurrentIs
    <2>2. e \in DeadlineType /\ e.grace = 0 /\ e.parent = 0 /\ e.within = 0
      BY <1>1, <1>5, <2>1 DEF Deadline, DeadlineType
    <2>3. Keeps /\ (\A i \in DOMAIN deadlines' : Nested(i)') /\ m \in DOMAIN deadlines'
      BY <1>3, <1>4, <1>6, <2>1, <2>2, DeadlineAdded
    <2> QED
      BY <1>6, <1>7, <2>1, <2>3
  <1>9. CASE Current(t) # 0
    <2>1. PICK c : c = Current(t)
      OBVIOUS
    <2>2. c \in DOMAIN deadlines /\ task[t].scopes # <<>> /\ Outermost(t) = Top(c)
      BY <1>9, <2>1, CurrentIs
    <2>3. /\ r \in DOMAIN deadlines /\ r \in Nat /\ r # 0
          /\ deadlines[r].parent = 0 /\ Top(r) = Top(c) /\ Nested(r)
          /\ deadlines[r].grace = 0 => r = Top(c)
      BY <1>1, <1>2, <1>9, <2>1, <2>2, RootIs DEF BudgetsInv
    <2>4. CASE deadlines[r].grace # 0
      <3>1. PICK g : g = deadlines[r].grace
        OBVIOUS
      <3>2. g \in DOMAIN deadlines /\ g \in Nat /\ deadlines[g].cleaning /\ Top(g) = Top(c)
        BY <1>1, <2>3, <2>4, <3>1 DEF Nested
      <3>3. UNCHANGED deadlines /\ task' = [task EXCEPT ![t] = Entered(task[t], "cleanup", g)]
        BY <1>6, <2>3, <2>4, <3>1
      <3>4. Keeps /\ \A i \in DOMAIN deadlines' : Nested(i)'
        BY <3>3, DeadlinesStay
      <3>5. Top(g)' = Top(Current(t))
        BY <2>1, <3>2, <3>3 DEF Top
      <3> QED
        BY <1>7, <3>2, <3>3, <3>4, <3>5
    <2>5. CASE deadlines[r].grace = 0
      <3>1. PICK d : d = [e EXCEPT !.grace = m]
        OBVIOUS
      <3>2. d = [expires |-> instant + CleanupSeconds, parent |-> 0, grace |-> m, within |-> r, cleaning |-> TRUE]
        BY <1>5, <2>2, <2>3, <2>5, <3>1 DEF Deadline
      <3>3. d \in DeadlineType /\ d.parent = 0 /\ d.cleaning /\ d.within = r /\ d.grace = n + 1
        BY <1>1, <1>4, <2>3, <3>2 DEF DeadlineType
      <3>4. /\ deadlines' = Append([deadlines EXCEPT ![r].grace = n + 1], d)
            /\ task' = [task EXCEPT ![t] = Entered(task[t], "cleanup", m)]
        BY <1>4, <1>6, <2>3, <2>5, <3>1
      <3>5. /\ Keeps /\ (\A i \in DOMAIN deadlines' : Nested(i)') /\ m \in DOMAIN deadlines'
            /\ deadlines'[m] = d /\ Top(m)' = r
        BY <1>3, <1>4, <2>3, <2>5, <3>3, <3>4, CleanupAdded
      <3>6. Top(m)' = Top(Current(t)) /\ deadlines'[m].cleaning
        BY <2>1, <2>3, <2>5, <3>3, <3>5
      <3> QED
        BY <1>7, <3>4, <3>5, <3>6
    <2> QED
      BY <2>4, <2>5
  <1> QED
    BY <1>8, <1>9

\* It leaves a scope.
LEMMA TaskLeaves ==
  ASSUME BudgetsInv, NEW t \in Tasks, NEW raising \in BOOLEAN, TaskAt(t, "works"),
         UNCHANGED <<instant, deadlines>>,
         task[t].scopes # <<>>, task' = [task EXCEPT ![t] = Popped(task[t], raising)]
  PROVE  BudgetsInv'
  <1>1. task[t] \in TaskType
    BY DEF BudgetsInv, BudgetsTypeOK
  <1>2. PICK s : s = Front(task[t].scopes)
    OBVIOUS
  <1>3. s \in Seq(ScopeType)
    BY <1>1, <1>2 DEF Front, TaskType
  <1>4. PICK w : w = Popped(task[t], raising)
    OBVIOUS
  <1>5. w \in TaskType /\ w.at = "works" /\ w.scopes = s
    BY <1>1, <1>2, <1>3, <1>4 DEF Popped, TaskType, TaskAt
  <1>6. task'[t] = w
    BY <1>4 DEF BudgetsInv, BudgetsTypeOK
  <1>7. Stacked(t)'
    BY <1>2, <1>5, <1>6, StackShrinks
  <1>8. WaitsInTime(t)'
    BY <1>5, <1>6 DEF WaitsInTime
  <1> QED
    BY <1>4, <1>5, <1>7, <1>8, DeadlinesStay, OneTask

\* It leaves a scope, well or not.
LEMMA StepLeaveScope ==
  ASSUME BudgetsInv, NEW t \in Tasks, LeaveScope(t)
  PROVE  BudgetsInv'
  <1> DEFINE scope == Last(task[t].scopes)
  <1>1. task[t].scopes \in Seq(ScopeType) /\ task[t].scopes # <<>>
    BY DEF BudgetsInv, BudgetsTypeOK, TaskType, LeaveScope
  <1>2. scope \in ScopeType
    BY <1>1 DEF Last
  <1>3. PICK raising : raising = IF scope.kind = "cleanup" THEN scope.raising ELSE IsOver(scope.id)
    OBVIOUS
  <1>4. raising \in BOOLEAN
    <2>1. scope.raising \in BOOLEAN
      BY <1>2 DEF ScopeType
    <2>2. IsOver(scope.id) \in BOOLEAN
      BY DEF IsOver
    <2> QED
      BY <1>3, <2>1, <2>2, Zenon
  <1>5. /\ UNCHANGED <<instant, deadlines>> /\ TaskAt(t, "works")
        /\ task' = [task EXCEPT ![t] = Popped(task[t], raising)]
    BY <1>3 DEF LeaveScope, TaskWorks
  <1> QED
    BY <1>1, <1>4, <1>5, TaskLeaves

\* An error goes on or is caught.
LEMMA StepUnwind ==
  ASSUME BudgetsInv, NEW t \in Tasks, Unwind(t)
  PROVE  BudgetsInv'
  <1>1. task[t] \in TaskType /\ TaskAt(t, "works") /\ UNCHANGED <<instant, deadlines>>
    BY DEF BudgetsInv, BudgetsTypeOK, Unwind
  <1>2. CASE task[t].scopes # <<>> /\ task' = [task EXCEPT ![t] = Popped(task[t], TRUE)]
    BY <1>1, <1>2, TaskLeaves
  <1>3. CASE task' = [task EXCEPT ![t].raising = FALSE]
    <2>1. PICK w : w = [task[t] EXCEPT !.raising = FALSE]
      OBVIOUS
    <2>2. w \in TaskType /\ w.at = "works" /\ w.scopes = task[t].scopes
      BY <1>1, <2>1 DEF TaskType, TaskAt
    <2>3. task' = [task EXCEPT ![t] = w]
      BY <1>3, <2>1
    <2> QED
      BY <1>1, <2>2, <2>3, TaskOn
  <1> QED
    BY <1>2, <1>3 DEF Unwind

\* A thread waits, with the scopes it has.
LEMMA TaskWaits ==
  ASSUME BudgetsInv, NEW t \in Tasks, NEW w \in TaskType, task' = [task EXCEPT ![t] = w],
         UNCHANGED <<instant, deadlines>>, w.scopes = task[t].scopes,
         instant <= w.until,
         task[t].scopes # <<>> =>
           w.until + (IF w.at = "connects" THEN w.seconds ELSE 0) <= deadlines[Current(t)].expires
  PROVE  BudgetsInv'
  <1>1. task'[t] = w
    BY DEF BudgetsInv, BudgetsTypeOK
  <1>2. Stacked(t)' /\ Keeps /\ \A i \in DOMAIN deadlines' : Nested(i)'
    BY <1>1, DeadlinesStay, StackStays
  <1>3. Current(t)' = Current(t)
    BY <1>1 DEF Current
  <1>4. WaitsInTime(t)'
    BY <1>1, <1>3 DEF WaitsInTime, TaskAt
  <1> QED
    BY <1>2, <1>4, OneTask

\* What remains to a thread that is in its budget is no more than its scopes leave.
LEMMA RemainingIs ==
  ASSUME BudgetsInv, NEW t \in Tasks, NEW cap \in Caps, InBudget(t)
  PROVE  /\ Remaining(t, cap) \in Nat
         /\ task[t].scopes # <<>> => instant + Remaining(t, cap) <= deadlines[Current(t)].expires
  <1>1. instant \in Nat /\ deadlines \in Seq(DeadlineType) /\ cap \in Nat
    BY TimesAre DEF BudgetsInv, BudgetsTypeOK
  <1>2. CASE Current(t) = 0
    BY <1>1, <1>2, CurrentIs DEF Remaining
  <1>3. CASE Current(t) # 0
    <2>1. Current(t) \in DOMAIN deadlines
      BY <1>3, CurrentIs
    <2>2. PICK x \in Nat : x = deadlines[Current(t)].expires
      BY <2>1, ExpiresIs
    <2>3. PICK l \in Nat : l = x - instant
      BY <1>1, <1>3, <2>2 DEF InBudget, IsOver
    <2>4. Remaining(t, cap) = Min({cap, l})
      BY <1>3, <2>2, <2>3 DEF Remaining, Left
    <2>5. Min({cap, l}) \in {cap, l} /\ Min({cap, l}) <= l
      <3>1. cap \in Nat /\ l \in Nat
        BY <1>1, <2>3
      <3> QED
        BY <3>1, Lesser
    <2> QED
      BY <1>1, <2>2, <2>3, <2>4, <2>5
  <1> QED
    BY <1>2, <1>3

\* It begins to wait.
LEMMA StepBeginWait ==
  ASSUME BudgetsInv, NEW t \in Tasks, BeginWait(t)
  PROVE  BudgetsInv'
  <1>1. instant \in Nat /\ task[t] \in TaskType /\ UNCHANGED <<instant, deadlines>>
    BY DEF BudgetsInv, BudgetsTypeOK, BeginWait
  <1>2. CASE ~InBudget(t)
    BY <1>1, <1>2, RaisingIs, TaskOn DEF BeginWait
  <1>3. CASE InBudget(t)
    <2>1. PICK cap \in Caps : task' = [task EXCEPT ![t] =
            [task[t] EXCEPT !.at = "waits", !.until = instant + Remaining(t, cap)]]
      BY <1>3 DEF BeginWait
    <2>2. PICK b \in Nat : b = Remaining(t, cap)
      BY <1>3, RemainingIs
    <2>3. task[t].scopes # <<>> => instant + b <= deadlines[Current(t)].expires
      BY <1>3, <2>2, RemainingIs
    <2>7. PICK u \in Nat : u = instant + b
      BY <1>1
    <2>4. PICK w : w = [task[t] EXCEPT !.at = "waits", !.until = u]
      OBVIOUS
    <2>5. w \in TaskType /\ w.at = "waits" /\ w.until = u /\ w.scopes = task[t].scopes
      BY <1>1, <2>4 DEF TaskType
    <2>6. /\ instant <= w.until
          /\ task[t].scopes # <<>> =>
               w.until + (IF w.at = "connects" THEN w.seconds ELSE 0) <= deadlines[Current(t)].expires
      BY <1>1, <2>3, <2>5, <2>7
    <2>8. task' = [task EXCEPT ![t] = w]
      BY <2>1, <2>2, <2>4, <2>7
    <2> QED
      BY <1>1, <2>5, <2>6, <2>8, TaskWaits
  <1> QED
    BY <1>2, <1>3

\* It begins to connect, with what it may take to read in mind.
LEMMA StepBeginSend ==
  ASSUME BudgetsInv, NEW t \in Tasks, BeginSend(t)
  PROVE  BudgetsInv'
  <1>1. instant \in Nat /\ task[t] \in TaskType /\ UNCHANGED <<instant, deadlines>>
    BY DEF BudgetsInv, BudgetsTypeOK, BeginSend
  <1>2. CASE ~InBudget(t)
    BY <1>1, <1>2, RaisingIs, TaskOn DEF BeginSend
  <1>3. CASE InBudget(t)
    <2>1. PICK cap \in Caps : task' = [task EXCEPT ![t] =
            [task[t] EXCEPT !.at = "connects", !.until = instant + (Remaining(t, cap) \div 4),
                            !.seconds = ReadShare(Remaining(t, cap))]]
      BY <1>3 DEF BeginSend
    <2>2. PICK b \in Nat : b = Remaining(t, cap)
      BY <1>3, RemainingIs
    <2>3. task[t].scopes # <<>> => instant + b <= deadlines[Current(t)].expires
      BY <1>3, <2>2, RemainingIs
    <2>4. PICK x, y \in Nat : x = b \div 4 /\ y = (b * 3) \div 4 /\ x + y <= b
      OBVIOUS
    <2>10. PICK u \in Nat : u = instant + x
      BY <1>1
    <2>5. PICK w : w = [task[t] EXCEPT !.at = "connects", !.until = u, !.seconds = y]
      OBVIOUS
    <2>6. /\ w \in TaskType /\ w.at = "connects" /\ w.until = u /\ w.seconds = y
          /\ w.scopes = task[t].scopes
      BY <1>1, <2>4, <2>5 DEF TaskType
    <2>7. task[t].scopes # <<>> => instant + x + y <= deadlines[Current(t)].expires
      <3>1. task[t].scopes # <<>> => deadlines[Current(t)].expires \in Nat
        BY CurrentIs, ExpiresIs
      <3> QED
        BY <1>1, <2>3, <2>4, <3>1
    <2>8. /\ instant <= w.until
          /\ task[t].scopes # <<>> =>
               w.until + (IF w.at = "connects" THEN w.seconds ELSE 0) <= deadlines[Current(t)].expires
      BY <1>1, <2>4, <2>6, <2>7, <2>10
    <2>9. task' = [task EXCEPT ![t] = w]
      BY <2>1, <2>2, <2>4, <2>5, <2>10 DEF ReadShare
    <2> QED
      BY <1>1, <2>6, <2>8, <2>9, TaskWaits
  <1> QED
    BY <1>2, <1>3

\* It has connected, and reads.
LEMMA StepConnects ==
  ASSUME BudgetsInv, NEW t \in Tasks, Connects(t)
  PROVE  BudgetsInv'
  <1>1. instant \in Nat /\ task[t] \in TaskType /\ UNCHANGED <<instant, deadlines>>
    BY DEF BudgetsInv, BudgetsTypeOK, Connects
  <1>8. {task[t].seconds, task[t].until} \subseteq Nat
    BY <1>1 DEF TaskType
  <1>9. PICK u \in Nat : u = instant + task[t].seconds
    BY <1>1, <1>8
  <1>2. PICK w : w = [task[t] EXCEPT !.at = "waits", !.until = u, !.seconds = 0]
    OBVIOUS
  <1>3. task' = [task EXCEPT ![t] = w]
    BY <1>2, <1>9 DEF Connects
  <1>4. /\ w \in TaskType /\ w.at = "waits" /\ w.until = u /\ w.scopes = task[t].scopes
    BY <1>1, <1>2 DEF TaskType
  <1>5. /\ instant <= task[t].until
        /\ task[t].scopes # <<>> => task[t].until + task[t].seconds <= deadlines[Current(t)].expires
    BY DEF BudgetsInv, WaitsInTime, Connects, TaskAt
  <1>6. task[t].scopes # <<>> => deadlines[Current(t)].expires \in Nat
    BY CurrentIs, ExpiresIs
  <1>7. /\ instant <= w.until
        /\ task[t].scopes # <<>> =>
             w.until + (IF w.at = "connects" THEN w.seconds ELSE 0) <= deadlines[Current(t)].expires
    BY <1>1, <1>4, <1>5, <1>6, <1>8, <1>9
  <1> QED
    BY <1>1, <1>3, <1>4, <1>7, TaskWaits

\* It has waited.
LEMMA StepEndWait ==
  ASSUME BudgetsInv, NEW t \in Tasks, EndWait(t)
  PROVE  BudgetsInv'
  <1>1. task[t] \in TaskType /\ UNCHANGED <<instant, deadlines>>
    BY DEF BudgetsInv, BudgetsTypeOK, EndWait
  <1>2. PICK failed \in BOOLEAN : task' = [task EXCEPT ![t] =
          [task[t] EXCEPT !.at = "works", !.raising = failed, !.until = 0, !.seconds = 0]]
    BY DEF EndWait
  <1>3. PICK w : w = [task[t] EXCEPT !.at = "works", !.raising = failed, !.until = 0, !.seconds = 0]
    OBVIOUS
  <1>4. w \in TaskType /\ w.at = "works" /\ w.scopes = task[t].scopes
    BY <1>1, <1>3 DEF TaskType
  <1> QED
    BY <1>1, <1>2, <1>3, <1>4, TaskOn

\* Time passes, but not past the end of a wait.
LEMMA StepInstantPasses ==
  ASSUME BudgetsInv, InstantPasses
  PROVE  BudgetsInv'
  <1>1. instant \in Nat /\ task \in [Tasks -> TaskType] /\ UNCHANGED <<deadlines, task>> /\ instant' = instant + 1
    BY DEF BudgetsInv, BudgetsTypeOK, InstantPasses
  <1>2. BudgetsTypeOK'
    BY <1>1 DEF BudgetsInv, BudgetsTypeOK
  <1>3. Keeps /\ \A i \in DOMAIN deadlines' : Nested(i)'
    BY <1>1, DeadlinesStay
  <1>4. ASSUME NEW t \in Tasks PROVE Stacked(t)' /\ WaitsInTime(t)'
    <2>1. Stacked(t)'
      BY <1>1, <1>3, StackStays
    <2>2. WaitsInTime(t) /\ task[t].until \in Nat
      BY <1>1 DEF BudgetsInv, TaskType
    <2>3. task[t].at \in {"waits", "connects"} => instant + 1 <= task[t].until
      BY <1>1, <2>2 DEF InstantPasses
    <2>4. Current(t)' = Current(t)
      BY <1>1 DEF Current
    <2>5. WaitsInTime(t)'
      BY <1>1, <2>2, <2>3, <2>4 DEF WaitsInTime, TaskAt
    <2> QED
      BY <2>1, <2>5
  <1> QED
    BY <1>2, <1>3, <1>4 DEF BudgetsInv

\* The invariant is kept.
LEMMA BudgetsStep ==
  ASSUME BudgetsInv, [BudgetsNext]_zvars
  PROVE  BudgetsInv'
  <1>1. ASSUME NEW t \in Tasks,
               \/ BeginTask(t) \/ EndTask(t) \/ EnterOperation(t) \/ ReadLimit(t) \/ EnterLimited(t)
               \/ EnterCleanup(t) \/ LeaveScope(t) \/ Unwind(t)
               \/ BeginWait(t) \/ BeginSend(t) \/ Connects(t) \/ EndWait(t)
        PROVE  BudgetsInv'
    BY <1>1, StepBeginTask, StepEndTask, StepEnterOperation, StepReadLimit, StepEnterLimited,
       StepEnterCleanup, StepLeaveScope, StepUnwind, StepBeginWait, StepBeginSend, StepConnects,
       StepEndWait
  <1>2. CASE InstantPasses
    BY <1>2, StepInstantPasses
  <1>3. CASE UNCHANGED zvars
    <2>1. UNCHANGED <<instant, deadlines, task>>
      BY <1>3 DEF zvars
    <2>2. Keeps /\ \A i \in DOMAIN deadlines' : Nested(i)'
      BY <2>1, DeadlinesStay
    <2>3. ASSUME NEW t \in Tasks PROVE Stacked(t)' /\ WaitsInTime(t)'
      <3>1. Stacked(t)' /\ WaitsInTime(t)
        BY <2>1, <2>2, StackStays DEF BudgetsInv
      <3> QED
        BY <2>1, <3>1 DEF WaitsInTime, TaskAt, Current
    <2> QED
      BY <2>1, <2>2, <2>3 DEF BudgetsInv, BudgetsTypeOK
  <1> QED
    BY <1>1, <1>2, <1>3 DEF BudgetsNext

\* It holds at first.
LEMMA BudgetsBegin == BudgetsInit => BudgetsInv
  <1> SUFFICES ASSUME BudgetsInit PROVE BudgetsInv
    OBVIOUS
  <1>1. TaskRests \in TaskType /\ TaskRests.at = "rest" /\ TaskRests.scopes = <<>>
    BY DEF TaskRests, TaskType
  <1>2. BudgetsTypeOK /\ DOMAIN deadlines = {}
    BY <1>1 DEF BudgetsInit, BudgetsTypeOK
  <1>3. ASSUME NEW t \in Tasks PROVE Stacked(t) /\ WaitsInTime(t)
    <2>1. task[t] = TaskRests
      BY DEF BudgetsInit
    <2> QED
      BY <1>1, <2>1 DEF Stacked, WaitsInTime, Ids
  <1> QED
    BY <1>2, <1>3 DEF BudgetsInv

\* What the innermost scope leaves, every scope that binds leaves.
LEMMA InnermostBinds ==
  ASSUME BudgetsInv, NEW t \in Tasks, NEW i \in Binding(t)
  PROVE  /\ task[t].scopes # <<>> /\ i \in DOMAIN task[t].scopes
         /\ task[t].scopes[i].id \in DOMAIN deadlines
         /\ deadlines[Current(t)].expires <= deadlines[task[t].scopes[i].id].expires
  <1> DEFINE n == Len(task[t].scopes)
  <1>1. /\ task[t].scopes \in Seq(ScopeType) /\ i \in 1 .. n /\ n \in Nat
        /\ \A k \in 1 .. n : deadlines[task[t].scopes[k].id].cleaning => i >= k
    BY DEF BudgetsInv, BudgetsTypeOK, TaskType, Binding
  <1>2. task[t].scopes # <<>>
    BY <1>1
  <1>3. Current(t) = Ids(t)[n] /\ DOMAIN Ids(t) = 1 .. n /\ \A k \in 1 .. n : Ids(t)[k] = task[t].scopes[k].id
    BY <1>1, <1>2, CurrentIs DEF Ids
  <1>4. \A k \in (i + 1) .. n : ~deadlines[Ids(t)[k]].cleaning
    BY <1>1, <1>3
  <1>5. Stacked(t) /\ n \in 1 .. n /\ i <= n
    BY <1>1 DEF BudgetsInv
  <1> QED
    BY <1>1, <1>2, <1>3, <1>4, <1>5 DEF Stacked

\* Nothing waits past a budget around it, and all cleanup of an operation shares one allowance.
LEMMA BudgetsBind == BudgetsInv => WaitsWithinBudget /\ OneAllowance
  <1> SUFFICES ASSUME BudgetsInv PROVE WaitsWithinBudget /\ OneAllowance
    OBVIOUS
  <1>1. ASSUME NEW t \in Tasks, task[t].at \in {"waits", "connects"}, NEW i \in Binding(t)
        PROVE  task[t].until + (IF TaskAt(t, "connects") THEN task[t].seconds ELSE 0)
                 <= deadlines[task[t].scopes[i].id].expires
    <2>1. WaitsInTime(t) /\ task[t] \in TaskType
      BY DEF BudgetsInv, BudgetsTypeOK
    <2>2. PICK x : x = task[t].until + (IF TaskAt(t, "connects") THEN task[t].seconds ELSE 0)
      OBVIOUS
    <2>3. x \in Nat
      BY <2>1, <2>2 DEF TaskType
    <2>4. x <= deadlines[Current(t)].expires
      BY <1>1, <2>1, <2>2, InnermostBinds DEF WaitsInTime
    <2>5. /\ deadlines[Current(t)].expires \in Nat
          /\ deadlines[task[t].scopes[i].id].expires \in Nat
      BY InnermostBinds, CurrentIs, ExpiresIs
    <2> QED
      BY <2>2, <2>3, <2>4, <2>5, InnermostBinds
  <1>2. OneAllowance
    BY DEF OneAllowance, BudgetsInv, Nested
  <1> QED
    BY <1>1, <1>2 DEF WaitsWithinBudget

\* Whoever leaves a scope well is in time for all that bind.
LEMMA BudgetsLeft ==
  ASSUME BudgetsInv, NEW t \in Tasks, LeaveScope(t), ~task'[t].raising,
         Last(task[t].scopes).kind # "cleanup", NEW i \in Binding(t)
  PROVE  ~IsOver(task[t].scopes[i].id)
  <1>1. task[t].scopes \in Seq(ScopeType) /\ task[t].scopes # <<>> /\ task \in [Tasks -> TaskType]
        /\ instant \in Nat
    BY DEF BudgetsInv, BudgetsTypeOK, TaskType, LeaveScope
  <1>2. Current(t) = Last(task[t].scopes).id
    BY <1>1 DEF Current
  <1>3. task'[t].raising = IsOver(Current(t))
    <2>1. task' = [task EXCEPT ![t] = Popped(task[t], IsOver(Current(t)))]
      BY <1>2 DEF LeaveScope
    <2>2. task'[t] = Popped(task[t], IsOver(Current(t))) /\ task[t] \in TaskType
      BY <1>1, <2>1
    <2> QED
      BY <2>2 DEF Popped, TaskType
  <1>4. ~IsOver(Current(t))
    BY <1>3
  <1>5. /\ deadlines[Current(t)].expires \in Nat
        /\ deadlines[task[t].scopes[i].id].expires \in Nat
    BY InnermostBinds, CurrentIs, ExpiresIs
  <1> QED
    BY <1>1, <1>4, <1>5, InnermostBinds DEF IsOver

\* Budgets bind, and what is left without an error is left in time (deadlines.py).
THEOREM BudgetsHold ==
  BudgetsSpec => [](WaitsWithinBudget /\ OneAllowance) /\ LeavesInTime
  <1>1. BudgetsInv /\ [BudgetsNext]_zvars
          => /\ BudgetsInv'
             /\ [\A t \in Tasks :
                   LeaveScope(t) /\ ~task'[t].raising /\ Last(task[t].scopes).kind # "cleanup" =>
                     \A i \in Binding(t) : ~IsOver(task[t].scopes[i].id)]_zvars
    BY BudgetsStep, BudgetsLeft
  <1> QED
    BY <1>1, BudgetsBegin, BudgetsBind, PTL DEF BudgetsSpec, LeavesInTime

-----------------------------------------------------------------------------
(* Schedules: how far a command has come.                                   *)

Acts == {"write", "unlink", "reload", "enable", "disable", "stop", "bootout", "bootstrap"}
StepType == [act : Acts, job : Jobs, checked : BOOLEAN]
Names == {"install", "start", "stop", "remove"}

Steps6(s, a, b, c, d, e, f) ==
  s \in Seq(StepType) /\ Len(s) = 6 /\ s[1] = a /\ s[2] = b /\ s[3] = c /\ s[4] = d /\ s[5] = e /\ s[6] = f
Steps5(s, a, b, c, d, e) ==
  s \in Seq(StepType) /\ Len(s) = 5 /\ s[1] = a /\ s[2] = b /\ s[3] = c /\ s[4] = d /\ s[5] = e
Steps4(s, a, b, c, d) ==
  s \in Seq(StepType) /\ Len(s) = 4 /\ s[1] = a /\ s[2] = b /\ s[3] = c /\ s[4] = d

\* Steps are steps.
LEMMA StepsAre ==
  ASSUME NEW a \in Acts, NEW j \in Jobs
  PROVE  Must(a, j) \in StepType /\ May(a, j) \in StepType
  BY DEF Must, May, Step, StepType

\* Three steps and what follows.
LEMMA Joined ==
  ASSUME NEW a \in StepType, NEW b \in StepType, NEW c \in StepType,
         NEW d \in StepType, NEW e \in StepType, NEW f \in StepType
  PROVE  /\ Steps6(<<a, b, c>> \o <<d, e, f>>, a, b, c, d, e, f)
         /\ Steps5(<<a, b, c>> \o <<d, e>>, a, b, c, d, e)
         /\ Steps6(<<a, b, c>> \o (<<d>> \o <<e, f>>), a, b, c, d, e, f)
         /\ Steps5(<<a, b, c>> \o (<<d>> \o <<e>>), a, b, c, d, e)
         /\ Steps5(<<a, b, c, d, e>>, a, b, c, d, e)
         /\ Steps4(<<a, b, c, d>>, a, b, c, d)
  <1>1. ASSUME NEW x \in Seq(StepType), NEW y \in Seq(StepType), NEW i \in 1 .. Len(y)
        PROVE  (x \o y)[Len(x) + i] = y[i]
    <2>1. Len(x) + i \in (Len(x) + 1) .. (Len(x) + Len(y)) /\ (Len(x) + i) - Len(x) = i
      OBVIOUS
    <2> QED
      BY <2>1, ConcatProperties
  <1>2. ASSUME NEW y \in Seq(StepType)
        PROVE  /\ <<a, b, c>> \o y \in Seq(StepType) /\ Len(<<a, b, c>> \o y) = 3 + Len(y)
               /\ (<<a, b, c>> \o y)[1] = a /\ (<<a, b, c>> \o y)[2] = b /\ (<<a, b, c>> \o y)[3] = c
               /\ \A i \in 1 .. Len(y) : (<<a, b, c>> \o y)[3 + i] = y[i]
    <2>1. PICK x : x = <<a, b, c>>
      OBVIOUS
    <2>2. x \in Seq(StepType) /\ Len(x) = 3 /\ x[1] = a /\ x[2] = b /\ x[3] = c
      BY <2>1
    <2>7. /\ x \o y \in Seq(StepType) /\ Len(x \o y) = Len(x) + Len(y)
          /\ \A i \in 1 .. Len(x) + Len(y) :
               (x \o y)[i] = IF i <= Len(x) THEN x[i] ELSE y[i - Len(x)]
      BY <2>2, ConcatProperties
    <2>3. x \o y \in Seq(StepType) /\ Len(x \o y) = 3 + Len(y) /\ \A i \in 1 .. 3 : (x \o y)[i] = x[i]
      BY <2>2, <2>7
    <2>4. \A i \in 1 .. Len(y) : (x \o y)[3 + i] = y[i]
      BY <1>1, <2>2
    <2>5. 1 \in 1 .. 3 /\ 2 \in 1 .. 3 /\ 3 \in 1 .. 3
      OBVIOUS
    <2>6. (x \o y)[1] = a /\ (x \o y)[2] = b /\ (x \o y)[3] = c
      BY <2>2, <2>3, <2>5
    <2> QED
      BY <2>1, <2>3, <2>4, <2>6
  <1>3. ASSUME NEW y \in Seq(StepType), Len(y) = 3
        PROVE  Steps6(<<a, b, c>> \o y, a, b, c, y[1], y[2], y[3])
    <2>1. PICK z : z = <<a, b, c>> \o y
      OBVIOUS
    <2>2. 1 \in 1 .. 3 /\ 2 \in 1 .. 3 /\ 3 \in 1 .. 3
      OBVIOUS
    <2>3. z[3 + 1] = y[1] /\ z[3 + 2] = y[2] /\ z[3 + 3] = y[3]
      BY <1>2, <1>3, <2>1, <2>2
    <2>4. z \in Seq(StepType) /\ Len(z) = 3 + 3 /\ z[1] = a /\ z[2] = b /\ z[3] = c
      BY <1>2, <1>3, <2>1
    <2> QED
      BY <2>1, <2>3, <2>4 DEF Steps6
  <1>4. ASSUME NEW y \in Seq(StepType), Len(y) = 2
        PROVE  Steps5(<<a, b, c>> \o y, a, b, c, y[1], y[2])
    <2>1. PICK z : z = <<a, b, c>> \o y
      OBVIOUS
    <2>2. 1 \in 1 .. 2 /\ 2 \in 1 .. 2
      OBVIOUS
    <2>3. z[3 + 1] = y[1] /\ z[3 + 2] = y[2]
      BY <1>2, <1>4, <2>1, <2>2
    <2>4. z \in Seq(StepType) /\ Len(z) = 3 + 2 /\ z[1] = a /\ z[2] = b /\ z[3] = c
      BY <1>2, <1>4, <2>1
    <2> QED
      BY <2>1, <2>3, <2>4 DEF Steps5
  <1>5. ASSUME NEW v \in Seq(StepType)
        PROVE  /\ <<d>> \o v \in Seq(StepType) /\ Len(<<d>> \o v) = Len(v) + 1
               /\ (<<d>> \o v)[1] = d /\ \A i \in 1 .. Len(v) : (<<d>> \o v)[1 + i] = v[i]
    <2>1. <<d>> \in Seq(StepType) /\ Len(<<d>>) = 1 /\ <<d>>[1] = d /\ 1 \in 1 .. 1
      OBVIOUS
    <2>2. <<d>> \o v \in Seq(StepType) /\ Len(<<d>> \o v) = 1 + Len(v) /\ (<<d>> \o v)[1] = d
      BY <2>1, ConcatProperties
    <2>3. \A i \in 1 .. Len(v) : (<<d>> \o v)[1 + i] = v[i]
      BY <1>1, <2>1
    <2> QED
      BY <2>2, <2>3
  <1>6. Steps6(<<a, b, c>> \o <<d, e, f>>, a, b, c, d, e, f)
    <2>1. <<d, e, f>> \in Seq(StepType) /\ Len(<<d, e, f>>) = 3
      OBVIOUS
    <2> QED
      BY <1>3, <2>1
  <1>7. Steps5(<<a, b, c>> \o <<d, e>>, a, b, c, d, e)
    <2>1. <<d, e>> \in Seq(StepType) /\ Len(<<d, e>>) = 2
      OBVIOUS
    <2> QED
      BY <1>4, <2>1
  <1>8. Steps6(<<a, b, c>> \o (<<d>> \o <<e, f>>), a, b, c, d, e, f)
    <2>0. <<e, f>> \in Seq(StepType)
      OBVIOUS
    <2>1. PICK v \in Seq(StepType) : v = <<e, f>>
      BY <2>0
    <2>2. Len(v) = 2 /\ v[1] = e /\ v[2] = f /\ 1 \in 1 .. 2 /\ 2 \in 1 .. 2
      BY <2>1
    <2>3. PICK y : y = <<d>> \o v
      OBVIOUS
    <2>4. y \in Seq(StepType) /\ Len(y) = 3 /\ y[1] = d /\ y[1 + 1] = e /\ y[1 + 2] = f
      BY <1>5, <2>2, <2>3
    <2> QED
      <3>1. y = <<d>> \o <<e, f>> /\ y[1] = d /\ y[2] = e /\ y[3] = f /\ y \in Seq(StepType) /\ Len(y) = 3
        BY <2>1, <2>3, <2>4
      <3>2. Steps6(<<a, b, c>> \o y, a, b, c, y[1], y[2], y[3])
        BY <1>3, <3>1
      <3>3. Steps6(<<a, b, c>> \o y, a, b, c, d, e, f)
        BY <3>1, <3>2
      <3> QED
        BY <3>1, <3>3, Zenon
  <1>9. Steps5(<<a, b, c>> \o (<<d>> \o <<e>>), a, b, c, d, e)
    <2>0. <<e>> \in Seq(StepType)
      OBVIOUS
    <2>1. PICK v \in Seq(StepType) : v = <<e>>
      BY <2>0
    <2>2. Len(v) = 1 /\ v[1] = e /\ 1 \in 1 .. 1
      BY <2>1
    <2>3. PICK y : y = <<d>> \o v
      OBVIOUS
    <2>4. y \in Seq(StepType) /\ Len(y) = 2 /\ y[1] = d /\ y[1 + 1] = e
      BY <1>5, <2>2, <2>3
    <2> QED
      <3>1. y = <<d>> \o <<e>> /\ y[1] = d /\ y[2] = e /\ y \in Seq(StepType) /\ Len(y) = 2
        BY <2>1, <2>3, <2>4
      <3>2. Steps5(<<a, b, c>> \o y, a, b, c, y[1], y[2])
        BY <1>4, <3>1
      <3>3. Steps5(<<a, b, c>> \o y, a, b, c, d, e)
        BY <3>1, <3>2
      <3> QED
        BY <3>1, <3>3, Zenon
  <1>10. Steps5(<<a, b, c, d, e>>, a, b, c, d, e) /\ Steps4(<<a, b, c, d>>, a, b, c, d)
    BY DEF Steps5, Steps4
  <1> QED
    BY <1>6, <1>7, <1>8, <1>9, <1>10

\* The steps of an installation and of a removal.
LEMMA LinuxSteps ==
  ASSUME platform = "linux"
  PROVE  /\ Steps6(Steps("install", TRUE),
                Must("write", "collection"), Must("reload", "collection"), Must("enable", "collection"),
                Must("write", "snapshots"), Must("reload", "snapshots"), Must("enable", "snapshots"))
         /\ Steps5(Steps("install", FALSE),
                Must("write", "collection"), Must("reload", "collection"), Must("enable", "collection"),
                May("disable", "snapshots"), Must("unlink", "snapshots"))
         /\ \A want : Steps5(Steps("remove", want),
                May("disable", "collection"), Must("unlink", "collection"),
                May("disable", "snapshots"), Must("unlink", "snapshots"), Must("reload", "collection"))
  <1>1. Steps("install", TRUE) = Enable("collection") \o Enable("snapshots")
    BY DEF Steps, SnapshotSteps
  <1>2. Steps("install", FALSE) =
          Enable("collection") \o <<May("disable", "snapshots"), Must("unlink", "snapshots")>>
    BY DEF Steps, SnapshotSteps
  <1>5. \A want : Steps("remove", want) = RemoveSchedule
    BY DEF Steps
  <1>6. \A a \in {"write", "unlink", "reload", "enable", "disable", "stop", "bootout", "bootstrap"},
           j \in {"collection", "snapshots"} : Must(a, j) \in StepType /\ May(a, j) \in StepType
    BY StepsAre DEF Jobs, Acts
  <1>8. Steps6(Steps("install", TRUE), Must("write", "collection"), Must("reload", "collection"),
               Must("enable", "collection"), Must("write", "snapshots"),
               Must("reload", "snapshots"), Must("enable", "snapshots"))
    <2>1. PICK a, b, c, d, e, f :
            /\ a = Must("write", "collection")
            /\ b = Must("reload", "collection")
            /\ c = Must("enable", "collection")
            /\ d = Must("write", "snapshots")
            /\ e = Must("reload", "snapshots")
            /\ f = Must("enable", "snapshots")
      OBVIOUS
    <2>2. {a, b, c, d, e, f} \subseteq StepType
      BY <1>6, <2>1
    <2>3. Steps("install", TRUE) = <<a, b, c>> \o <<d, e, f>>
      BY <1>1, <2>1 DEF Enable
    <2>4. Steps6(<<a, b, c>> \o <<d, e, f>>, a, b, c, d, e, f)
      BY <2>2, Joined
    <2> QED
      BY <2>1, <2>3, <2>4
  <1>9. Steps5(Steps("install", FALSE), Must("write", "collection"), Must("reload", "collection"),
               Must("enable", "collection"), May("disable", "snapshots"), Must("unlink", "snapshots"))
    <2>1. PICK a, b, c, d, e :
            /\ a = Must("write", "collection")
            /\ b = Must("reload", "collection")
            /\ c = Must("enable", "collection")
            /\ d = May("disable", "snapshots")
            /\ e = Must("unlink", "snapshots")
      OBVIOUS
    <2>2. {a, b, c, d, e} \subseteq StepType
      BY <1>6, <2>1
    <2>3. Steps("install", FALSE) = <<a, b, c>> \o <<d, e>>
      BY <1>2, <2>1 DEF Enable
    <2>4. Steps5(<<a, b, c>> \o <<d, e>>, a, b, c, d, e)
      BY <2>2, Joined
    <2> QED
      BY <2>1, <2>3, <2>4
  <1>10. Steps5(RemoveSchedule, May("disable", "collection"), Must("unlink", "collection"),
                May("disable", "snapshots"), Must("unlink", "snapshots"), Must("reload", "collection"))
    BY <1>6, Joined DEF RemoveSchedule
  <1> QED
    BY <1>5, <1>8, <1>9, <1>10

\* The same where launchd runs the jobs.
LEMMA DarwinSteps ==
  ASSUME platform = "darwin"
  PROVE  /\ Steps6(Steps("install", TRUE),
                Must("write", "collection"), May("bootout", "collection"), Must("bootstrap", "collection"),
                May("bootout", "snapshots"), Must("write", "snapshots"), Must("bootstrap", "snapshots"))
         /\ Steps5(Steps("install", FALSE),
                Must("write", "collection"), May("bootout", "collection"), Must("bootstrap", "collection"),
                May("bootout", "snapshots"), Must("unlink", "snapshots"))
         /\ \A want : Steps4(Steps("remove", want),
                May("bootout", "collection"), Must("unlink", "collection"),
                May("bootout", "snapshots"), Must("unlink", "snapshots"))
  <1>1. Steps("install", TRUE) =
          <<Must("write", "collection"), May("bootout", "collection"), Must("bootstrap", "collection")>>
            \o (<<May("bootout", "snapshots")>>
                  \o <<Must("write", "snapshots"), Must("bootstrap", "snapshots")>>)
    BY DEF Steps, SnapshotSteps
  <1>2. Steps("install", FALSE) =
          <<Must("write", "collection"), May("bootout", "collection"), Must("bootstrap", "collection")>>
            \o (<<May("bootout", "snapshots")>> \o <<Must("unlink", "snapshots")>>)
    BY DEF Steps, SnapshotSteps
  <1>5. \A want : Steps("remove", want) = RemoveSchedule
    BY DEF Steps
  <1>6. \A a \in {"write", "unlink", "reload", "enable", "disable", "stop", "bootout", "bootstrap"},
           j \in {"collection", "snapshots"} : Must(a, j) \in StepType /\ May(a, j) \in StepType
    BY StepsAre DEF Jobs, Acts
  <1>8. Steps6(Steps("install", TRUE), Must("write", "collection"), May("bootout", "collection"),
               Must("bootstrap", "collection"), May("bootout", "snapshots"),
               Must("write", "snapshots"), Must("bootstrap", "snapshots"))
    <2>1. PICK a, b, c, d, e, f :
            /\ a = Must("write", "collection")
            /\ b = May("bootout", "collection")
            /\ c = Must("bootstrap", "collection")
            /\ d = May("bootout", "snapshots")
            /\ e = Must("write", "snapshots")
            /\ f = Must("bootstrap", "snapshots")
      OBVIOUS
    <2>2. {a, b, c, d, e, f} \subseteq StepType
      BY <1>6, <2>1
    <2>3. Steps("install", TRUE) = <<a, b, c>> \o (<<d>> \o <<e, f>>)
      BY <1>1, <2>1
    <2>4. Steps6(<<a, b, c>> \o (<<d>> \o <<e, f>>), a, b, c, d, e, f)
      BY <2>2, Joined
    <2> QED
      BY <2>1, <2>3, <2>4
  <1>9. Steps5(Steps("install", FALSE), Must("write", "collection"), May("bootout", "collection"),
               Must("bootstrap", "collection"), May("bootout", "snapshots"), Must("unlink", "snapshots"))
    <2>1. PICK a, b, c, d, e :
            /\ a = Must("write", "collection")
            /\ b = May("bootout", "collection")
            /\ c = Must("bootstrap", "collection")
            /\ d = May("bootout", "snapshots")
            /\ e = Must("unlink", "snapshots")
      OBVIOUS
    <2>2. {a, b, c, d, e} \subseteq StepType
      BY <1>6, <2>1
    <2>3. Steps("install", FALSE) = <<a, b, c>> \o (<<d>> \o <<e>>)
      BY <1>2, <2>1
    <2>4. Steps5(<<a, b, c>> \o (<<d>> \o <<e>>), a, b, c, d, e)
      BY <2>2, Joined
    <2> QED
      BY <2>1, <2>3, <2>4
  <1>10. Steps4(RemoveSchedule, May("bootout", "collection"), Must("unlink", "collection"),
                May("bootout", "snapshots"), Must("unlink", "snapshots"))
    BY <1>6, Joined DEF RemoveSchedule
  <1> QED
    BY <1>5, <1>8, <1>9, <1>10

\* What an installation for an edition has reached after so many of its steps, and what a
\* removal has.
Installed(e, want, d) ==
  /\ d >= 1 => file["collection"] = e
  /\ (platform = "linux" /\ d >= 2) \/ d >= 3 => loaded["collection"] = e
  /\ d >= 3 => "collection" \in active
  /\ want /\ ((platform = "linux" /\ d >= 4) \/ d >= 5) => file["snapshots"] = e
  /\ want /\ ((platform = "linux" /\ d >= 5) \/ d >= 6) => loaded["snapshots"] = e
  /\ want /\ d >= 6 => "snapshots" \in active
  /\ ~want /\ d >= 4 => "snapshots" \notin active \/ passed

Removed(d) ==
  /\ d >= 1 => "collection" \notin active \/ passed
  /\ d >= 2 => file["collection"] = 0
  /\ d >= 3 => "snapshots" \notin active \/ passed
  /\ d >= 4 => file["snapshots"] = 0

ScheduleTypeOK ==
  /\ platform \in {"linux", "darwin"} /\ edition \in Nat \ {0} /\ wanted \in BOOLEAN
  /\ file \in [Jobs -> Nat] /\ loaded \in [Jobs -> Nat] /\ active \in SUBSET Jobs
  /\ todo \in Seq(StepType) /\ passed \in BOOLEAN
  /\ doing \in [name : Names \cup {"none"}, edition : Nat, wanted : BOOLEAN]
  /\ doing.name # "none" => doing.edition # 0

\* What is done by a step, and by one that fails unchecked.
Passes(step) ==
  \/ Does(step) /\ UNCHANGED passed
  \/ ~step.checked /\ UNCHANGED <<file, loaded, active>> /\ passed' = TRUE

\* What each step does to the jobs.
LEMMA StepsDo ==
  ASSUME ScheduleTypeOK, NEW j \in Jobs, doing.edition \in Nat
  PROVE  /\ Passes(Must("write", j)) =>
              file' = [file EXCEPT ![j] = doing.edition] /\ UNCHANGED <<loaded, active, passed>>
         /\ Passes(Must("unlink", j)) => file' = [file EXCEPT ![j] = 0] /\ UNCHANGED <<loaded, active, passed>>
         /\ Passes(Must("reload", j)) => loaded' = file /\ UNCHANGED <<file, active, passed>>
         /\ Passes(Must("enable", j)) =>
              /\ active' = active \cup {j} /\ UNCHANGED <<file, passed>>
              /\ loaded' = [loaded EXCEPT ![j] = IF loaded[j] = 0 THEN file[j] ELSE loaded[j]]
         /\ Passes(Must("bootstrap", j)) =>
              /\ active' = active \cup {j} /\ UNCHANGED <<file, passed>>
              /\ loaded' = [loaded EXCEPT ![j] = file[j]]
         /\ Passes(May("disable", j)) =>
              /\ UNCHANGED <<file, loaded>>
              /\ \/ active' = active \ {j} /\ UNCHANGED passed
                 \/ UNCHANGED active /\ passed'
         /\ Passes(May("bootout", j)) =>
              /\ UNCHANGED file
              /\ \/ active' = active \ {j} /\ loaded' = [loaded EXCEPT ![j] = 0] /\ UNCHANGED passed
                 \/ UNCHANGED <<active, loaded>> /\ passed'
  <1>1. ASSUME NEW a
        PROVE  /\ Must(a, j).act = a /\ Must(a, j).job = j /\ Must(a, j).checked = TRUE
               /\ May(a, j).act = a /\ May(a, j).job = j /\ May(a, j).checked = FALSE
    BY DEF Must, May, Step
  <1>2. \A a : Passes(Must(a, j)) => Does(Must(a, j)) /\ UNCHANGED passed
    BY <1>1 DEF Passes
  <1>3. ASSUME Passes(Must("write", j))
        PROVE  file' = [file EXCEPT ![j] = doing.edition] /\ UNCHANGED <<loaded, active, passed>>
    BY <1>1, <1>2, <1>3 DEF Passes, Does
  <1>4. ASSUME Passes(Must("unlink", j))
        PROVE  file' = [file EXCEPT ![j] = 0] /\ UNCHANGED <<loaded, active, passed>>
    BY <1>1, <1>2, <1>4 DEF Passes, Does
  <1>5. ASSUME Passes(Must("reload", j))
        PROVE  loaded' = file /\ UNCHANGED <<file, active, passed>>
    BY <1>1, <1>2, <1>5 DEF Passes, Does
  <1>6. ASSUME Passes(Must("enable", j))
        PROVE  /\ active' = active \cup {j} /\ UNCHANGED <<file, passed>>
                 /\ loaded' = [loaded EXCEPT ![j] = IF loaded[j] = 0 THEN file[j] ELSE loaded[j]]
    BY <1>1, <1>2, <1>6 DEF Passes, Does
  <1>7. ASSUME Passes(Must("bootstrap", j))
        PROVE  /\ active' = active \cup {j} /\ UNCHANGED <<file, passed>>
                 /\ loaded' = [loaded EXCEPT ![j] = file[j]]
    BY <1>1, <1>2, <1>7 DEF Passes, Does
  <1>8. ASSUME Passes(May("disable", j))
        PROVE  /\ UNCHANGED <<file, loaded>>
                 /\ \/ active' = active \ {j} /\ UNCHANGED passed
                    \/ UNCHANGED active /\ passed'
    BY <1>1, <1>2, <1>8, ZenonT(60) DEF Passes, Does
  <1>9. ASSUME Passes(May("bootout", j))
        PROVE  /\ UNCHANGED file
                 /\ \/ active' = active \ {j} /\ loaded' = [loaded EXCEPT ![j] = 0] /\ UNCHANGED passed
                    \/ UNCHANGED <<active, loaded>> /\ passed'
    BY <1>1, <1>2, <1>9 DEF Passes, Does
  <1> QED
    BY <1>3, <1>4, <1>5, <1>6, <1>7, <1>8, <1>9

\* An installation advances.
LEMMA InstallAdvances ==
  ASSUME ScheduleTypeOK, NEW e \in Nat \ {0}, doing.edition = e, NEW want \in BOOLEAN,
         NEW full, full = Steps("install", want),
         NEW d \in Nat, d < Len(full), Installed(e, want, d), UNCHANGED platform, Passes(full[d + 1])
  PROVE  Installed(e, want, d + 1)'
  <1>1. CASE platform = "linux" /\ want
    <2>0. Steps6(full, Must("write", "collection"),
                Must("reload", "collection"),
                Must("enable", "collection"),
                Must("write", "snapshots"),
                Must("reload", "snapshots"),
                Must("enable", "snapshots"))
      <3>1. want = TRUE
        BY <1>1
      <3> QED
        BY <1>1, <3>1, LinuxSteps
    <2>1. Len(full) = 6
      BY <2>0 DEF Steps6
    <2>2. CASE d = 0
      <3>1. Passes(Must("write", "collection")) /\ "collection" \in Jobs
        BY <2>0, <2>2 DEF Steps6, Jobs
      <3> QED
        BY <1>1, <2>2, <3>1, StepsDo DEF Installed, ScheduleTypeOK, Jobs
    <2>3. CASE d = 1
      <3>1. Passes(Must("reload", "collection")) /\ "collection" \in Jobs
        BY <2>0, <2>3 DEF Steps6, Jobs
      <3> QED
        BY <1>1, <2>3, <3>1, StepsDo DEF Installed, ScheduleTypeOK, Jobs
    <2>4. CASE d = 2
      <3>1. Passes(Must("enable", "collection")) /\ "collection" \in Jobs
        BY <2>0, <2>4 DEF Steps6, Jobs
      <3> QED
        BY <1>1, <2>4, <3>1, StepsDo DEF Installed, ScheduleTypeOK, Jobs
    <2>5. CASE d = 3
      <3>1. Passes(Must("write", "snapshots")) /\ "snapshots" \in Jobs
        BY <2>0, <2>5 DEF Steps6, Jobs
      <3> QED
        BY <1>1, <2>5, <3>1, StepsDo DEF Installed, ScheduleTypeOK, Jobs
    <2>6. CASE d = 4
      <3>1. Passes(Must("reload", "snapshots")) /\ "snapshots" \in Jobs
        BY <2>0, <2>6 DEF Steps6, Jobs
      <3> QED
        BY <1>1, <2>6, <3>1, StepsDo DEF Installed, ScheduleTypeOK, Jobs
    <2>7. CASE d = 5
      <3>1. Passes(Must("enable", "snapshots")) /\ "snapshots" \in Jobs
        BY <2>0, <2>7 DEF Steps6, Jobs
      <3> QED
        BY <1>1, <2>7, <3>1, StepsDo DEF Installed, ScheduleTypeOK, Jobs
    <2> QED
      BY <2>1, <2>2, <2>3, <2>4, <2>5, <2>6, <2>7
  <1>2. CASE platform = "linux" /\ ~want
    <2>0. Steps5(full, Must("write", "collection"),
                Must("reload", "collection"),
                Must("enable", "collection"),
                May("disable", "snapshots"),
                Must("unlink", "snapshots"))
      <3>1. want = FALSE
        BY <1>2
      <3> QED
        BY <1>2, <3>1, LinuxSteps
    <2>1. Len(full) = 5
      BY <2>0 DEF Steps5
    <2>2. CASE d = 0
      <3>1. Passes(Must("write", "collection")) /\ "collection" \in Jobs
        BY <2>0, <2>2 DEF Steps5, Jobs
      <3> QED
        BY <1>2, <2>2, <3>1, StepsDo DEF Installed, ScheduleTypeOK, Jobs
    <2>3. CASE d = 1
      <3>1. Passes(Must("reload", "collection")) /\ "collection" \in Jobs
        BY <2>0, <2>3 DEF Steps5, Jobs
      <3> QED
        BY <1>2, <2>3, <3>1, StepsDo DEF Installed, ScheduleTypeOK, Jobs
    <2>4. CASE d = 2
      <3>1. Passes(Must("enable", "collection")) /\ "collection" \in Jobs
        BY <2>0, <2>4 DEF Steps5, Jobs
      <3> QED
        BY <1>2, <2>4, <3>1, StepsDo DEF Installed, ScheduleTypeOK, Jobs
    <2>5. CASE d = 3
      <3>1. Passes(May("disable", "snapshots")) /\ "snapshots" \in Jobs
        BY <2>0, <2>5 DEF Steps5, Jobs
      <3> QED
        BY <1>2, <2>5, <3>1, StepsDo DEF Installed, ScheduleTypeOK, Jobs
    <2>6. CASE d = 4
      <3>1. Passes(Must("unlink", "snapshots")) /\ "snapshots" \in Jobs
        BY <2>0, <2>6 DEF Steps5, Jobs
      <3> QED
        BY <1>2, <2>6, <3>1, StepsDo DEF Installed, ScheduleTypeOK, Jobs
    <2> QED
      BY <2>1, <2>2, <2>3, <2>4, <2>5, <2>6
  <1>3. CASE platform = "darwin" /\ want
    <2>0. Steps6(full, Must("write", "collection"),
                May("bootout", "collection"),
                Must("bootstrap", "collection"),
                May("bootout", "snapshots"),
                Must("write", "snapshots"),
                Must("bootstrap", "snapshots"))
      <3>1. want = TRUE
        BY <1>3
      <3> QED
        BY <1>3, <3>1, DarwinSteps
    <2>1. Len(full) = 6
      BY <2>0 DEF Steps6
    <2>2. CASE d = 0
      <3>1. Passes(Must("write", "collection")) /\ "collection" \in Jobs
        BY <2>0, <2>2 DEF Steps6, Jobs
      <3> QED
        BY <1>3, <2>2, <3>1, StepsDo DEF Installed, ScheduleTypeOK, Jobs
    <2>3. CASE d = 1
      <3>1. Passes(May("bootout", "collection")) /\ "collection" \in Jobs
        BY <2>0, <2>3 DEF Steps6, Jobs
      <3> QED
        BY <1>3, <2>3, <3>1, StepsDo DEF Installed, ScheduleTypeOK, Jobs
    <2>4. CASE d = 2
      <3>1. Passes(Must("bootstrap", "collection")) /\ "collection" \in Jobs
        BY <2>0, <2>4 DEF Steps6, Jobs
      <3> QED
        BY <1>3, <2>4, <3>1, StepsDo DEF Installed, ScheduleTypeOK, Jobs
    <2>5. CASE d = 3
      <3>1. Passes(May("bootout", "snapshots")) /\ "snapshots" \in Jobs
        BY <2>0, <2>5 DEF Steps6, Jobs
      <3> QED
        BY <1>3, <2>5, <3>1, StepsDo DEF Installed, ScheduleTypeOK, Jobs
    <2>6. CASE d = 4
      <3>1. Passes(Must("write", "snapshots")) /\ "snapshots" \in Jobs
        BY <2>0, <2>6 DEF Steps6, Jobs
      <3> QED
        BY <1>3, <2>6, <3>1, StepsDo DEF Installed, ScheduleTypeOK, Jobs
    <2>7. CASE d = 5
      <3>1. Passes(Must("bootstrap", "snapshots")) /\ "snapshots" \in Jobs
        BY <2>0, <2>7 DEF Steps6, Jobs
      <3> QED
        BY <1>3, <2>7, <3>1, StepsDo DEF Installed, ScheduleTypeOK, Jobs
    <2> QED
      BY <2>1, <2>2, <2>3, <2>4, <2>5, <2>6, <2>7
  <1>4. CASE platform = "darwin" /\ ~want
    <2>0. Steps5(full, Must("write", "collection"),
                May("bootout", "collection"),
                Must("bootstrap", "collection"),
                May("bootout", "snapshots"),
                Must("unlink", "snapshots"))
      <3>1. want = FALSE
        BY <1>4
      <3> QED
        BY <1>4, <3>1, DarwinSteps
    <2>1. Len(full) = 5
      BY <2>0 DEF Steps5
    <2>2. CASE d = 0
      <3>1. Passes(Must("write", "collection")) /\ "collection" \in Jobs
        BY <2>0, <2>2 DEF Steps5, Jobs
      <3> QED
        BY <1>4, <2>2, <3>1, StepsDo DEF Installed, ScheduleTypeOK, Jobs
    <2>3. CASE d = 1
      <3>1. Passes(May("bootout", "collection")) /\ "collection" \in Jobs
        BY <2>0, <2>3 DEF Steps5, Jobs
      <3> QED
        BY <1>4, <2>3, <3>1, StepsDo DEF Installed, ScheduleTypeOK, Jobs
    <2>4. CASE d = 2
      <3>1. Passes(Must("bootstrap", "collection")) /\ "collection" \in Jobs
        BY <2>0, <2>4 DEF Steps5, Jobs
      <3> QED
        BY <1>4, <2>4, <3>1, StepsDo DEF Installed, ScheduleTypeOK, Jobs
    <2>5. CASE d = 3
      <3>1. Passes(May("bootout", "snapshots")) /\ "snapshots" \in Jobs
        BY <2>0, <2>5 DEF Steps5, Jobs
      <3> QED
        BY <1>4, <2>5, <3>1, StepsDo DEF Installed, ScheduleTypeOK, Jobs
    <2>6. CASE d = 4
      <3>1. Passes(Must("unlink", "snapshots")) /\ "snapshots" \in Jobs
        BY <2>0, <2>6 DEF Steps5, Jobs
      <3> QED
        BY <1>4, <2>6, <3>1, StepsDo DEF Installed, ScheduleTypeOK, Jobs
    <2> QED
      BY <2>1, <2>2, <2>3, <2>4, <2>5, <2>6
  <1> QED
    BY <1>1, <1>2, <1>3, <1>4 DEF ScheduleTypeOK

\* A removal advances.
LEMMA RemovalAdvances ==
  ASSUME ScheduleTypeOK, NEW want, NEW full, full = Steps("remove", want),
         NEW d \in Nat, d < Len(full), Removed(d), UNCHANGED platform, Passes(full[d + 1])
  PROVE  Removed(d + 1)'
  <1>1. CASE platform = "linux"
    <2>0. Steps5(full, May("disable", "collection"),
                Must("unlink", "collection"),
                May("disable", "snapshots"),
                Must("unlink", "snapshots"),
                Must("reload", "collection"))
      BY <1>1, LinuxSteps
    <2>1. Len(full) = 5
      BY <2>0 DEF Steps5
    <2>2. CASE d = 0
      <3>1. Passes(May("disable", "collection")) /\ "collection" \in Jobs
        BY <2>0, <2>2 DEF Steps5, Jobs
      <3> QED
        BY <1>1, <2>2, <3>1, StepsDo DEF Removed, ScheduleTypeOK, Jobs
    <2>3. CASE d = 1
      <3>1. Passes(Must("unlink", "collection")) /\ "collection" \in Jobs
        BY <2>0, <2>3 DEF Steps5, Jobs
      <3> QED
        BY <1>1, <2>3, <3>1, StepsDo DEF Removed, ScheduleTypeOK, Jobs
    <2>4. CASE d = 2
      <3>1. Passes(May("disable", "snapshots")) /\ "snapshots" \in Jobs
        BY <2>0, <2>4 DEF Steps5, Jobs
      <3> QED
        BY <1>1, <2>4, <3>1, StepsDo DEF Removed, ScheduleTypeOK, Jobs
    <2>5. CASE d = 3
      <3>1. Passes(Must("unlink", "snapshots")) /\ "snapshots" \in Jobs
        BY <2>0, <2>5 DEF Steps5, Jobs
      <3> QED
        BY <1>1, <2>5, <3>1, StepsDo DEF Removed, ScheduleTypeOK, Jobs
    <2>6. CASE d = 4
      <3>1. Passes(Must("reload", "collection")) /\ "collection" \in Jobs
        BY <2>0, <2>6 DEF Steps5, Jobs
      <3> QED
        BY <1>1, <2>6, <3>1, StepsDo DEF Removed, ScheduleTypeOK, Jobs
    <2> QED
      BY <2>1, <2>2, <2>3, <2>4, <2>5, <2>6
  <1>2. CASE platform = "darwin"
    <2>0. Steps4(full, May("bootout", "collection"),
                Must("unlink", "collection"),
                May("bootout", "snapshots"),
                Must("unlink", "snapshots"))
      BY <1>2, DarwinSteps
    <2>1. Len(full) = 4
      BY <2>0 DEF Steps4
    <2>2. CASE d = 0
      <3>1. Passes(May("bootout", "collection")) /\ "collection" \in Jobs
        BY <2>0, <2>2 DEF Steps4, Jobs
      <3> QED
        BY <1>2, <2>2, <3>1, StepsDo DEF Removed, ScheduleTypeOK, Jobs
    <2>3. CASE d = 1
      <3>1. Passes(Must("unlink", "collection")) /\ "collection" \in Jobs
        BY <2>0, <2>3 DEF Steps4, Jobs
      <3> QED
        BY <1>2, <2>3, <3>1, StepsDo DEF Removed, ScheduleTypeOK, Jobs
    <2>4. CASE d = 2
      <3>1. Passes(May("bootout", "snapshots")) /\ "snapshots" \in Jobs
        BY <2>0, <2>4 DEF Steps4, Jobs
      <3> QED
        BY <1>2, <2>4, <3>1, StepsDo DEF Removed, ScheduleTypeOK, Jobs
    <2>5. CASE d = 3
      <3>1. Passes(Must("unlink", "snapshots")) /\ "snapshots" \in Jobs
        BY <2>0, <2>5 DEF Steps4, Jobs
      <3> QED
        BY <1>2, <2>5, <3>1, StepsDo DEF Removed, ScheduleTypeOK, Jobs
    <2> QED
      BY <2>1, <2>2, <2>3, <2>4, <2>5
  <1> QED
    BY <1>1, <1>2 DEF ScheduleTypeOK

\* The steps of every command are steps.
LEMMA ScheduleSteps ==
  ASSUME platform \in {"linux", "darwin"}, NEW name \in Names, NEW want \in BOOLEAN
  PROVE  Steps(name, want) \in Seq(StepType)
  <1>1. \A a \in Acts, j \in Jobs : Must(a, j) \in StepType /\ May(a, j) \in StepType
    BY StepsAre
  <1>2. \A a, b, c \in StepType : <<a>> \in Seq(StepType) /\ <<a, b>> \in Seq(StepType)
                                    /\ <<a, b, c>> \in Seq(StepType)
    OBVIOUS
  <1>3. \A s, t \in Seq(StepType) : s \o t \in Seq(StepType)
    BY ConcatProperties
  <1>4. /\ {"write", "unlink", "reload", "enable", "disable", "stop", "bootout", "bootstrap"} = Acts
        /\ {"collection", "snapshots"} = Jobs
    BY DEF Acts, Jobs
  <1>5. \A j \in Jobs : Enable(j) \in Seq(StepType)
    BY <1>1, <1>2, <1>4 DEF Enable
  <1>6. SnapshotSteps(want) \in Seq(StepType)
    <2>1. CASE platform = "linux"
      BY <1>1, <1>2, <1>4, <1>5, <2>1 DEF SnapshotSteps
    <2>2. CASE platform = "darwin"
      <3>1. /\ <<May("bootout", "snapshots")>> \in Seq(StepType)
            /\ <<Must("write", "snapshots"), Must("bootstrap", "snapshots")>> \in Seq(StepType)
            /\ <<Must("unlink", "snapshots")>> \in Seq(StepType)
        BY <1>1, <1>2, <1>4
      <3>2. PICK s : s = IF want THEN <<Must("write", "snapshots"), Must("bootstrap", "snapshots")>>
                         ELSE <<Must("unlink", "snapshots")>>
        OBVIOUS
      <3>3. s \in Seq(StepType)
        BY <3>1, <3>2
      <3>4. SnapshotSteps(want) = <<May("bootout", "snapshots")>> \o s
        BY <2>2, <3>2 DEF SnapshotSteps
      <3> QED
        BY <1>3, <3>1, <3>3, <3>4
    <2> QED
      BY <2>1, <2>2
  <1>7. CASE name = "install"
    <2>1. PICK s : s = SnapshotSteps(want)
      OBVIOUS
    <2>2. CASE platform = "linux"
      <3>1. Steps(name, want) = Enable("collection") \o s
        BY <1>7, <2>1, <2>2 DEF Steps
      <3> QED
        BY <1>3, <1>4, <1>5, <1>6, <2>1, <3>1
    <2>3. CASE platform = "darwin"
      <3>1. PICK t : t = <<Must("write", "collection"), May("bootout", "collection"),
                           Must("bootstrap", "collection")>>
        OBVIOUS
      <3>2. Steps(name, want) = t \o s /\ t \in Seq(StepType)
        BY <1>1, <1>2, <1>4, <1>7, <2>1, <2>3, <3>1 DEF Steps
      <3> QED
        BY <1>3, <1>6, <2>1, <3>2
    <2> QED
      BY <2>2, <2>3
  <1>8. CASE name = "start"
    <2>1. PICK s : s = SnapshotSteps(want)
      OBVIOUS
    <2>2. CASE platform = "linux"
      <3>1. PICK t : t = <<Must("enable", "collection")>>
        OBVIOUS
      <3>2. Steps(name, want) = t \o s /\ t \in Seq(StepType)
        BY <1>1, <1>2, <1>4, <1>8, <2>1, <2>2, <3>1 DEF Steps
      <3> QED
        BY <1>3, <1>6, <2>1, <3>2
    <2>3. CASE platform = "darwin"
      <3>1. PICK t : t = <<May("bootout", "collection"), Must("bootstrap", "collection")>>
        OBVIOUS
      <3>2. Steps(name, want) = t \o s /\ t \in Seq(StepType)
        BY <1>1, <1>2, <1>4, <1>8, <2>1, <2>3, <3>1 DEF Steps
      <3> QED
        BY <1>3, <1>6, <2>1, <3>2
    <2> QED
      BY <2>2, <2>3
  <1>9. CASE name = "stop"
    <2>1. CASE platform = "linux"
      BY <1>1, <1>2, <1>4, <1>9, <2>1 DEF Steps
    <2>2. CASE platform = "darwin"
      BY <1>1, <1>2, <1>4, <1>9, <2>2 DEF Steps
    <2> QED
      BY <2>1, <2>2
  <1>10. CASE name = "remove"
    <2>1. Steps(name, want) = RemoveSchedule
      BY <1>10 DEF Steps
    <2>2. CASE platform = "linux"
      <3>1. Steps5(Steps(name, want), May("disable", "collection"), Must("unlink", "collection"),
                May("disable", "snapshots"), Must("unlink", "snapshots"), Must("reload", "collection"))
        BY <1>10, <2>2, LinuxSteps
      <3> QED
        BY <3>1 DEF Steps5
    <2>3. CASE platform = "darwin"
      <3>1. Steps4(Steps(name, want), May("bootout", "collection"), Must("unlink", "collection"),
                May("bootout", "snapshots"), Must("unlink", "snapshots"))
        BY <1>10, <2>3, DarwinSteps
      <3> QED
        BY <3>1 DEF Steps4
    <2> QED
      BY <2>2, <2>3
  <1> QED
    BY <1>7, <1>8, <1>9, <1>10 DEF Names

\* An installation and a removal have steps to take.
LEMMA CommandsWork ==
  ASSUME platform \in {"linux", "darwin"}, NEW want \in BOOLEAN
  PROVE  /\ Len(Steps("install", want)) \in 5 .. 6 /\ (want => Len(Steps("install", want)) = 6)
         /\ Len(Steps("remove", want)) \in 4 .. 5
  <1>1. CASE platform = "linux"
    <2>1. Len(Steps("install", TRUE)) = 6 /\ Len(Steps("install", FALSE)) = 5 /\ Len(Steps("remove", want)) = 5
      BY <1>1, LinuxSteps DEF Steps6, Steps5
    <2>2. CASE want = TRUE
      <3>1. Len(Steps("install", want)) = 6
        BY <2>1, <2>2, Zenon
      <3> QED
        BY <2>1, <3>1
    <2>3. CASE want = FALSE
      <3>1. Len(Steps("install", want)) = 5
        BY <2>1, <2>3, Zenon
      <3>2. ~want
        BY <2>3
      <3> QED
        BY <2>1, <3>1, <3>2
    <2> QED
      BY <2>2, <2>3
  <1>2. CASE platform = "darwin"
    <2>1. Len(Steps("install", TRUE)) = 6 /\ Len(Steps("install", FALSE)) = 5 /\ Len(Steps("remove", want)) = 4
      BY <1>2, DarwinSteps DEF Steps6, Steps5, Steps4
    <2>2. CASE want = TRUE
      <3>1. Len(Steps("install", want)) = 6
        BY <2>1, <2>2, Zenon
      <3> QED
        BY <2>1, <3>1
    <2>3. CASE want = FALSE
      <3>1. Len(Steps("install", want)) = 5
        BY <2>1, <2>3, Zenon
      <3>2. ~want
        BY <2>3
      <3> QED
        BY <2>1, <3>1, <3>2
    <2> QED
      BY <2>2, <2>3
  <1> QED
    BY <1>1, <1>2

\* The steps left are those of the command after the first d.
Underway(full, d) ==
  /\ full \in Seq(StepType) /\ d < Len(full) /\ Len(todo) = Len(full) - d
  /\ \A i \in 1 .. Len(todo) : todo[i] = full[d + i]

InstallUnderway ==
  doing.name = "install" =>
    /\ doing.edition # 0
    /\ \E d \in Nat : /\ Underway(Steps("install", doing.wanted), d)
                      /\ Installed(doing.edition, doing.wanted, d)

RemovalUnderway ==
  doing.name = "remove" =>
    \E d \in Nat : Underway(Steps("remove", doing.wanted), d) /\ Removed(d)

ScheduleInv == ScheduleTypeOK /\ InstallUnderway /\ RemovalUnderway

\* The next step of a command, and the steps after it.
LEMMA StepsLeft ==
  ASSUME ScheduleTypeOK, NEW full, NEW d \in Nat, Underway(full, d)
  PROVE  /\ todo # <<>> /\ Head(todo) = full[d + 1] /\ Head(todo) \in StepType
         /\ Len(todo) = 1 => d + 1 = Len(full)
         /\ Len(todo) # 1 /\ todo' = Tail(todo) => Underway(full, d + 1)'
  <1>1. todo \in Seq(StepType) /\ full \in Seq(StepType) /\ Len(todo) = Len(full) - d /\ Len(todo) >= 1
    BY DEF ScheduleTypeOK, Underway
  <1>2. todo # <<>> /\ Head(todo) = todo[1] /\ 1 \in 1 .. Len(todo)
    BY <1>1
  <1>3. Head(todo) = full[d + 1] /\ todo[1] \in StepType
    BY <1>1, <1>2 DEF Underway
  <1>4. ASSUME Len(todo) # 1, todo' = Tail(todo)
        PROVE  Underway(full, d + 1)'
    <2>1. Len(todo') = Len(todo) - 1 /\ \A i \in 1 .. Len(todo) - 1 : todo'[i] = todo[i + 1]
      BY <1>1, <1>2, <1>4
    <2>2. ASSUME NEW i \in 1 .. Len(todo')
          PROVE  todo'[i] = full[(d + 1) + i]
      <3>1. i + 1 \in 1 .. Len(todo) /\ todo'[i] = todo[i + 1] /\ d + (i + 1) = (d + 1) + i
        BY <1>1, <2>1
      <3>2. todo[i + 1] = full[d + (i + 1)]
        BY <3>1 DEF Underway
      <3> QED
        BY <3>1, <3>2
    <2>3. d + 1 < Len(full) /\ Len(todo') = Len(full) - (d + 1)
      BY <1>1, <1>4, <2>1
    <2> QED
      BY <1>1, <2>2, <2>3 DEF Underway
  <1> QED
    BY <1>1, <1>2, <1>3, <1>4

\* A step that passes leaves jobs.
LEMMA StepsKeepType ==
  ASSUME ScheduleTypeOK, NEW step \in StepType, Passes(step)
  PROVE  file' \in [Jobs -> Nat] /\ loaded' \in [Jobs -> Nat] /\ active' \in SUBSET Jobs /\ passed' \in BOOLEAN
  <1>1. CASE ~step.checked /\ UNCHANGED <<file, loaded, active>> /\ passed' = TRUE
    BY <1>1 DEF ScheduleTypeOK
  <1>2. CASE Does(step) /\ UNCHANGED passed
    <2>1. step.job \in Jobs /\ step.act \in Acts /\ doing.edition \in Nat
      BY DEF StepType, ScheduleTypeOK
    <2>2. CASE step.act = "write"
      BY <1>2, <2>1, <2>2 DEF Does, ScheduleTypeOK
    <2>2a. CASE step.act = "unlink"
      <3>1. file' = [file EXCEPT ![step.job] = 0] /\ UNCHANGED <<loaded, active, passed>>
        BY <1>2, <2>2a DEF Does
      <3> QED
        BY <2>1, <3>1 DEF ScheduleTypeOK
    <2>3. CASE step.act \in {"reload", "disable", "stop"}
      BY <1>2, <2>1, <2>3 DEF Does, ScheduleTypeOK
    <2>4. CASE step.act = "enable"
      BY <1>2, <2>1, <2>4 DEF Does, ScheduleTypeOK
    <2>5. CASE step.act = "bootout"
      <3>1. /\ loaded' = [loaded EXCEPT ![step.job] = 0] /\ active' = active \ {step.job}
            /\ UNCHANGED <<file, passed>>
        BY <1>2, <2>5 DEF Does
      <3> QED
        BY <2>1, <3>1 DEF ScheduleTypeOK
    <2>5a. CASE step.act = "bootstrap"
      BY <1>2, <2>1, <2>5a DEF Does, ScheduleTypeOK
    <2> QED
      BY <2>1, <2>2, <2>2a, <2>3, <2>4, <2>5, <2>5a DEF Acts
  <1> QED
    BY <1>1, <1>2 DEF Passes

\* The steps of a command do not change under it.
LEMMA StepsStay ==
  ASSUME UNCHANGED platform, NEW name, NEW want
  PROVE  Steps(name, want)' = Steps(name, want)
  BY DEF Steps, SnapshotSteps, RemoveSchedule

\* A command that ends is in no step.
LEMMA EndedKeeps ==
  ASSUME ScheduleInv, Ended, UNCHANGED <<platform, edition, wanted>>,
         file' \in [Jobs -> Nat], loaded' \in [Jobs -> Nat], active' \in SUBSET Jobs, passed' \in BOOLEAN
  PROVE  ScheduleInv'
  <1>1. doing'.name = "none" /\ doing' \in [name : Names \cup {"none"}, edition : Nat, wanted : BOOLEAN]
    BY DEF Ended, Idling
  <1>2. todo' \in Seq(StepType)
    BY DEF Ended
  <1>3. ScheduleTypeOK'
    BY <1>1, <1>2 DEF ScheduleInv, ScheduleTypeOK
  <1> QED
    BY <1>1, <1>3 DEF ScheduleInv, InstallUnderway, RemovalUnderway

\* A command gets on with its steps, done or passed over.
LEMMA AdvanceKeeps ==
  ASSUME ScheduleInv, todo # <<>>, Passes(Head(todo)), Advances, UNCHANGED <<platform, edition, wanted>>
  PROVE  ScheduleInv'
  <1>0. ScheduleTypeOK /\ Head(todo) \in StepType
    BY DEF ScheduleInv, ScheduleTypeOK
  <1>1. file' \in [Jobs -> Nat] /\ loaded' \in [Jobs -> Nat] /\ active' \in SUBSET Jobs /\ passed' \in BOOLEAN
    BY <1>0, StepsKeepType
  <1>2. CASE Len(todo) = 1
    <2>1. Ended
      BY <1>2 DEF Advances
    <2> QED
      BY <1>1, <2>1, EndedKeeps
  <1>3. CASE Len(todo) # 1
    <2>1. todo' = Tail(todo) /\ UNCHANGED doing
      BY <1>3 DEF Advances
    <2>2. todo' \in Seq(StepType)
      BY <1>0, <2>1 DEF ScheduleTypeOK
    <2>3. ScheduleTypeOK'
      BY <1>0, <1>1, <2>1, <2>2 DEF ScheduleTypeOK
    <2>4. PICK e, w : e = doing.edition /\ w = doing.wanted
      OBVIOUS
    <2>5. w \in BOOLEAN /\ e \in Nat /\ doing'.edition = e /\ doing'.wanted = w /\ doing'.name = doing.name
      BY <1>0, <2>1, <2>4 DEF ScheduleTypeOK
    <2>6. InstallUnderway'
      <3>1. SUFFICES ASSUME doing'.name = "install"
                     PROVE  /\ doing'.edition # 0
                            /\ (\E d \in Nat : /\ Underway(Steps("install", doing.wanted), d)
                                              /\ Installed(doing.edition, doing.wanted, d))'
        BY DEF InstallUnderway
      <3>2. PICK full : full = Steps("install", w)
        OBVIOUS
      <3>3. e # 0 /\ \E d \in Nat : Underway(full, d) /\ Installed(e, w, d)
        BY <2>4, <2>5, <3>1, <3>2 DEF ScheduleInv, InstallUnderway
      <3>4. PICK d \in Nat : Underway(full, d) /\ Installed(e, w, d)
        BY <3>3
      <3>5. d < Len(full) /\ Passes(full[d + 1]) /\ Underway(full, d + 1)'
        BY <1>0, <1>3, <2>1, <3>4, StepsLeft DEF Underway
      <3>6. Installed(e, w, d + 1)'
        BY <1>0, <2>4, <2>5, <3>2, <3>3, <3>4, <3>5, InstallAdvances
      <3>7. Steps("install", w)' = full
        BY <3>2, StepsStay
      <3>8. Underway(Steps("install", doing.wanted), d + 1)' /\ Installed(doing.edition, doing.wanted, d + 1)'
        BY <2>5, <3>5, <3>6, <3>7 DEF Underway, Installed
      <3> QED
        BY <2>5, <3>3, <3>8
    <2>7. RemovalUnderway'
      <3>1. SUFFICES ASSUME doing'.name = "remove"
                     PROVE  (\E d \in Nat : Underway(Steps("remove", doing.wanted), d) /\ Removed(d))'
        BY DEF RemovalUnderway
      <3>2. PICK full : full = Steps("remove", w)
        OBVIOUS
      <3>3. \E d \in Nat : Underway(full, d) /\ Removed(d)
        BY <2>4, <2>5, <3>1, <3>2 DEF ScheduleInv, RemovalUnderway
      <3>4. PICK d \in Nat : Underway(full, d) /\ Removed(d)
        BY <3>3
      <3>5. d < Len(full) /\ Passes(full[d + 1]) /\ Underway(full, d + 1)'
        BY <1>0, <1>3, <2>1, <3>4, StepsLeft DEF Underway
      <3>6. Removed(d + 1)'
        BY <1>0, <2>4, <2>5, <3>2, <3>4, <3>5, RemovalAdvances
      <3>7. Steps("remove", w)' = full
        BY <3>2, StepsStay
      <3>8. Underway(Steps("remove", doing.wanted), d + 1)' /\ Removed(d + 1)'
        BY <2>5, <3>5, <3>6, <3>7 DEF Underway
      <3> QED
        BY <3>8
    <2> QED
      BY <2>3, <2>6, <2>7 DEF ScheduleInv
  <1> QED
    BY <1>2, <1>3

\* A command starts at its first step.
LEMMA CommandStarts ==
  ASSUME ScheduleInv, NEW name \in Names, ScheduleCommand(name)
  PROVE  ScheduleInv'
  <1>0. ScheduleTypeOK /\ platform \in {"linux", "darwin"} /\ wanted \in BOOLEAN /\ edition \in Nat \ {0}
    BY DEF ScheduleInv, ScheduleTypeOK
  <1>1. PICK s : s = Steps(name, wanted)
    OBVIOUS
  <1>2. s \in Seq(StepType) /\ todo' = s
    BY <1>0, <1>1, ScheduleSteps DEF ScheduleCommand
  <1>3. /\ doing' = [name |-> name, edition |-> edition, wanted |-> wanted]
        /\ UNCHANGED <<platform, edition, wanted, file, loaded, active>> /\ passed' = FALSE
    BY DEF ScheduleCommand
  <1>4. doing' \in [name : Names \cup {"none"}, edition : Nat, wanted : BOOLEAN] /\ doing'.edition # 0
        /\ doing'.name = name /\ doing'.wanted = wanted
    BY <1>0, <1>3
  <1>5. ScheduleTypeOK'
    BY <1>0, <1>2, <1>3, <1>4 DEF ScheduleTypeOK
  <1>6. PICK w : w = wanted
    OBVIOUS
  <1>7. Steps(name, w)' = s
    BY <1>1, <1>3, <1>6, StepsStay
  <1>8. Len(s) > 0 => Underway(s, 0)'
    BY <1>2 DEF Underway
  <1>9. InstallUnderway'
    <2>1. CASE name = "install"
      <3>1. Len(s) > 0
        BY <1>0, <1>1, <2>1, CommandsWork
      <3>2. Underway(Steps("install", doing.wanted), 0)'
        BY <1>4, <1>6, <1>7, <1>8, <2>1, <3>1
      <3>3. Installed(doing.edition, doing.wanted, 0)'
        BY DEF Installed
      <3> QED
        BY <1>4, <3>2, <3>3 DEF InstallUnderway
    <2>2. CASE name # "install"
      BY <1>4, <2>2 DEF InstallUnderway
    <2> QED
      BY <2>1, <2>2
  <1>10. RemovalUnderway'
    <2>1. CASE name = "remove"
      <3>1. Len(s) > 0
        BY <1>0, <1>1, <2>1, CommandsWork
      <3>2. Underway(Steps("remove", doing.wanted), 0)'
        BY <1>4, <1>6, <1>7, <1>8, <2>1, <3>1
      <3>3. Removed(0)'
        BY DEF Removed
      <3> QED
        BY <3>2, <3>3 DEF RemovalUnderway
    <2>2. CASE name # "remove"
      BY <1>4, <2>2 DEF RemovalUnderway
    <2> QED
      BY <2>1, <2>2
  <1> QED
    BY <1>5, <1>9, <1>10 DEF ScheduleInv

\* Nothing is under way at first.
LEMMA ScheduleStarts == ScheduleInit => ScheduleInv
  <1>1. SUFFICES ASSUME ScheduleInit PROVE ScheduleInv
    OBVIOUS
  <1>2. doing.name = "none" /\ doing \in [name : Names \cup {"none"}, edition : Nat, wanted : BOOLEAN]
    BY <1>1 DEF ScheduleInit, Idling
  <1>4. platform \in {"linux", "darwin"} /\ edition \in Nat \ {0} /\ wanted \in BOOLEAN
    BY <1>1, ScheduleAssumption DEF ScheduleInit
  <1>5. file \in [Jobs -> Nat] /\ loaded \in [Jobs -> Nat] /\ active \in SUBSET Jobs
    BY <1>1 DEF ScheduleInit
  <1>6. todo \in Seq(StepType)
    BY <1>1 DEF ScheduleInit
  <1>7. passed \in BOOLEAN
    BY <1>1 DEF ScheduleInit
  <1>3. ScheduleTypeOK
    BY <1>2, <1>4, <1>5, <1>6, <1>7 DEF ScheduleTypeOK
  <1> QED
    BY <1>2, <1>3 DEF ScheduleInv, InstallUnderway, RemovalUnderway

\* Every step of the schedules keeps the account.
LEMMA ScheduleKeeps ==
  ASSUME ScheduleInv, [ScheduleNext]_nvars
  PROVE  ScheduleInv'
  <1>0. ScheduleTypeOK
    BY DEF ScheduleInv
  <1>a. ASSUME UNCHANGED <<platform, file, loaded, active, todo, doing, passed>>, ScheduleTypeOK'
        PROVE  ScheduleInv'
    <2>1. PICK w : w = doing.wanted
      OBVIOUS
    <2>2. Steps("install", w)' = Steps("install", w) /\ Steps("remove", w)' = Steps("remove", w)
      BY <1>a, StepsStay
    <2>3. Steps("install", doing.wanted)' = Steps("install", doing.wanted)
          /\ Steps("remove", doing.wanted)' = Steps("remove", doing.wanted)
      BY <1>a, <2>1, <2>2
    <2>4. InstallUnderway'
      BY <1>a, <2>3 DEF ScheduleInv, InstallUnderway, Underway, Installed
    <2>5. RemovalUnderway'
      BY <1>a, <2>3 DEF ScheduleInv, RemovalUnderway, Underway, Removed
    <2> QED
      BY <1>a, <2>4, <2>5 DEF ScheduleInv
  <1>1. ASSUME Reconfigure PROVE ScheduleInv'
    <2>1. edition' = edition + 1 /\ wanted' \in BOOLEAN
          /\ UNCHANGED <<platform, file, loaded, active, todo, doing, passed>>
      BY <1>1 DEF Reconfigure
    <2>2. ScheduleTypeOK'
      BY <1>0, <2>1 DEF ScheduleTypeOK
    <2> QED
      BY <1>a, <2>1, <2>2
  <1>2. ASSUME StepDone PROVE ScheduleInv'
    <2>1. Passes(Head(todo)) /\ todo # <<>> /\ Advances /\ UNCHANGED <<platform, edition, wanted>>
      BY <1>2 DEF StepDone, Passes
    <2> QED
      BY <2>1, AdvanceKeeps
  <1>3. ASSUME StepFails PROVE ScheduleInv'
    <2>1. CASE Head(todo).checked
      <3>1. Ended /\ UNCHANGED <<platform, edition, wanted, file, loaded, active, passed>>
        BY <1>3, <2>1 DEF StepFails
      <3> QED
        BY <1>0, <3>1, EndedKeeps DEF ScheduleTypeOK
    <2>2. CASE ~Head(todo).checked
      <3>1. Passes(Head(todo)) /\ todo # <<>> /\ Advances /\ UNCHANGED <<platform, edition, wanted>>
        BY <1>3, <2>2 DEF StepFails, Passes
      <3> QED
        BY <3>1, AdvanceKeeps
    <2> QED
      BY <2>1, <2>2
  <1>4. ASSUME Interrupted PROVE ScheduleInv'
    <2>1. Ended /\ UNCHANGED <<platform, edition, wanted, file, loaded, active, passed>>
      BY <1>4 DEF Interrupted
    <2> QED
      BY <1>0, <2>1, EndedKeeps DEF ScheduleTypeOK
  <1>5. ASSUME NEW name \in {"install", "start", "stop", "remove"}, ScheduleCommand(name)
        PROVE  ScheduleInv'
    BY <1>5, CommandStarts DEF Names
  <1>6. ASSUME UNCHANGED nvars PROVE ScheduleInv'
    <2>1. UNCHANGED <<platform, edition, wanted, file, loaded, active, todo, doing, passed>>
      BY <1>6 DEF nvars
    <2>2. ScheduleTypeOK'
      BY <1>0, <2>1 DEF ScheduleTypeOK
    <2> QED
      BY <1>a, <2>1, <2>2
  <1> QED
    BY <1>1, <1>2, <1>3, <1>4, <1>5, <1>6 DEF ScheduleNext

\* The last step of an installation leaves what was asked for.
LEMMA InstallReturns ==
  ASSUME ScheduleInv, CommandReturns("install")
  PROVE  /\ "collection" \in active' /\ loaded'["collection"] = doing.edition
         /\ doing.wanted => "snapshots" \in active' /\ loaded'["snapshots"] = doing.edition
         /\ ~doing.wanted /\ ~passed => "snapshots" \notin active'
  <1>1. ScheduleTypeOK /\ doing.name = "install" /\ Len(todo) = 1 /\ StepDone
    BY DEF ScheduleInv, CommandReturns
  <1>2. PICK e, w : e = doing.edition /\ w = doing.wanted
    OBVIOUS
  <1>3. w \in BOOLEAN /\ e \in Nat /\ platform \in {"linux", "darwin"}
    BY <1>1, <1>2 DEF ScheduleTypeOK
  <1>4. PICK full : full = Steps("install", w)
    OBVIOUS
  <1>5. e # 0 /\ \E d \in Nat : Underway(full, d) /\ Installed(e, w, d)
    BY <1>1, <1>2, <1>4 DEF ScheduleInv, InstallUnderway
  <1>6. PICK d \in Nat : Underway(full, d) /\ Installed(e, w, d)
    BY <1>5
  <1>7. Passes(Head(todo)) /\ UNCHANGED <<platform, passed>>
    BY <1>1 DEF StepDone, Passes
  <1>8. d < Len(full) /\ Passes(full[d + 1]) /\ d + 1 = Len(full)
    BY <1>1, <1>6, <1>7, StepsLeft DEF Underway
  <1>9. Installed(e, w, d + 1)'
    BY <1>1, <1>2, <1>3, <1>4, <1>5, <1>6, <1>7, <1>8, InstallAdvances
  <1>10. d + 1 \in 5 .. 6 /\ (w => d + 1 = 6)
    BY <1>3, <1>4, <1>8, CommandsWork
  <1>11. d + 1 >= 3 /\ d + 1 >= 4 /\ (w => d + 1 >= 6)
    BY <1>10
  <1>12. /\ "collection" \in active' /\ loaded'["collection"] = e
         /\ w => "snapshots" \in active' /\ loaded'["snapshots"] = e
         /\ ~w => "snapshots" \notin active' \/ passed'
    BY <1>9, <1>11 DEF Installed
  <1>13. passed' = passed
    BY <1>7
  <1> QED
    BY <1>2, <1>12, <1>13

\* The last step of a removal leaves nothing.
LEMMA RemovalReturns ==
  ASSUME ScheduleInv, CommandReturns("remove"), ~passed
  PROVE  active' = {} /\ \A j \in Jobs : file'[j] = 0
  <1>1. ScheduleTypeOK /\ doing.name = "remove" /\ Len(todo) = 1 /\ StepDone
    BY DEF ScheduleInv, CommandReturns
  <1>2. PICK w : w = doing.wanted
    OBVIOUS
  <1>3. w \in BOOLEAN /\ platform \in {"linux", "darwin"}
    BY <1>1, <1>2 DEF ScheduleTypeOK
  <1>4. PICK full : full = Steps("remove", w)
    OBVIOUS
  <1>5. \E d \in Nat : Underway(full, d) /\ Removed(d)
    BY <1>1, <1>2, <1>4 DEF ScheduleInv, RemovalUnderway
  <1>6. PICK d \in Nat : Underway(full, d) /\ Removed(d)
    BY <1>5
  <1>7. Passes(Head(todo)) /\ UNCHANGED <<platform, passed>> /\ Head(todo) \in StepType
    BY <1>1 DEF StepDone, Passes, ScheduleTypeOK
  <1>8. d < Len(full) /\ Passes(full[d + 1]) /\ d + 1 = Len(full)
    BY <1>1, <1>6, <1>7, StepsLeft DEF Underway
  <1>9. Removed(d + 1)'
    BY <1>1, <1>3, <1>4, <1>6, <1>7, <1>8, RemovalAdvances
  <1>10. d + 1 \in 4 .. 5
    BY <1>3, <1>4, <1>8, CommandsWork
  <1>11. d + 1 >= 1 /\ d + 1 >= 2 /\ d + 1 >= 3 /\ d + 1 >= 4
    BY <1>10
  <1>12. /\ "collection" \notin active' \/ passed'
         /\ file'["collection"] = 0
         /\ "snapshots" \notin active' \/ passed'
         /\ file'["snapshots"] = 0
    BY <1>9, <1>11 DEF Removed
  <1>13. passed' = passed
    BY <1>7
  <1>14. active' \in SUBSET Jobs
    BY <1>1, <1>7, StepsKeepType
  <1>15. "collection" \notin active' /\ "snapshots" \notin active'
    BY <1>12, <1>13
  <1> QED
    BY <1>12, <1>14, <1>15 DEF Jobs

\* install_native_schedule(), remove_native_schedule(): whatever earlier commands, failures and
\* interruptions left, an install that returns left both jobs running its configuration, and a
\* removal that returns left nothing, for any number of commands and configurations.
THEOREM SchedulesAreHealed == ScheduleSpec => SchedulesHeal
  <1>1. ScheduleInv /\ [ScheduleNext]_nvars => ScheduleInv'
    BY ScheduleKeeps
  <1>2. ScheduleInv /\ [ScheduleNext]_nvars =>
          [CommandReturns("install") =>
             /\ "collection" \in active' /\ loaded'["collection"] = doing.edition
             /\ doing.wanted => "snapshots" \in active' /\ loaded'["snapshots"] = doing.edition
             /\ ~doing.wanted /\ ~passed => "snapshots" \notin active']_nvars
    BY InstallReturns
  <1>3. ScheduleInv /\ [ScheduleNext]_nvars =>
          [CommandReturns("remove") /\ ~passed => active' = {} /\ \A j \in Jobs : file'[j] = 0]_nvars
    BY RemovalReturns
  <1>4. ScheduleSpec => InstallHeals
    BY <1>1, <1>2, ScheduleStarts, PTL DEF ScheduleSpec, InstallHeals
  <1>5. ScheduleSpec => RemovalLeavesNothing
    BY <1>1, <1>3, ScheduleStarts, PTL DEF ScheduleSpec, RemovalLeavesNothing
  <1> QED
    BY <1>4, <1>5 DEF SchedulesHeal

-----------------------------------------------------------------------------
(* Installation: what an init knows of the schema, and what its job leaves. *)

MarkerLabels == {"absent", "none", "initializing", "ready"}
AdminPlaces ==
  {"idle", "marker", "transaction", "list", "create", "making", "fetch", "claim", "submit",
   "script", "retain", "views", "reread", "finish", "schedule", "provision"}
Creating == {"list", "create", "making", "fetch"}
Claiming == {"claim", "submit", "script", "retain", "views", "reread", "finish"}
AdminType ==
  [at : AdminPlaces, seen : MarkerLabels, fresh : BOOLEAN, existing : SUBSET BaseTables,
   provided : BOOLEAN]
Statements == BaseTables \cup {"lock"}
ScriptType ==
  [todo : Seq(Statements \cup {"marker"}), inserts : BOOLEAN, state : {"none", "running", "done", "failed"}]

InstallTypeOK ==
  /\ marker \in MarkerLabels /\ made \in SUBSET BaseTables
  /\ expiring \in SUBSET (BaseTables \cup {"marker"})
  /\ locks \in Nat /\ views \in BOOLEAN /\ schedules \in Nat
  /\ admin \in [Admins -> AdminType] /\ job \in [Admins -> ScriptType]
  /\ install \in {"bigquery", "direct"} /\ overlap \in {"none", "jobs", "commands"}

TablesMade == made = BaseTables /\ locks >= 1

\* What a command in state r knows: the marker, if its etag is still the one it read; that it
\* claims no schema that it has read to be ready, unless commands overlap; and past each of its
\* steps, what they made.
KnowsAs(r) ==
  /\ r.fresh => r.seen = marker
  /\ r.existing \subseteq made
  /\ r.at = "list" => r.seen # "ready"
  /\ r.at = "claim" => r.seen # "ready" \/ overlap = "commands"
  /\ r.at \in Creating => marker # "ready" \/ overlap = "commands"
  /\ r.at = "list" /\ r.seen # "absent" => marker # "absent"
  /\ r.at \in {"fetch"} \cup Claiming => marker # "absent"
  /\ r.at \in Creating \cup Claiming => install = "bigquery"
  /\ r.at = "transaction" => install = "direct"
  /\ r.at \in {"retain", "views", "reread", "finish"} => TablesMade
  /\ r.at \in {"views", "reread", "finish"} => expiring = {}
  /\ r.at \in {"reread", "finish"} => views

ToMake(s, x) == \E i \in 1 .. Len(s) : s[i] = x

\* A job in state s makes the marker, or has still to make what is missing.
MakesTheRest(s) ==
  /\ s.todo \in Seq(Statements) /\ s.todo # <<>>
  /\ \A t \in BaseTables : t \in made \/ ToMake(s.todo, t)
  /\ locks >= 1 \/ ToMake(s.todo, "lock")
  /\ s.inserts => Head(s.todo) = "lock"
MakesAs(s) ==
  s.state = "running" => /\ install = "bigquery"
                         /\ (s.todo = <<"marker">> /\ ~s.inserts) \/ MakesTheRest(s)

\* A command in state r waits for its own job in state s, which has made it when it is done.
Awaits(r, s) ==
  /\ r.at = "making" => /\ s.state = "running" => s.todo = <<"marker">>
                        /\ s.state = "done" => marker # "absent"
  /\ r.at = "script" => /\ s.state = "running" => s.todo \in Seq(Statements)
                        /\ s.state = "done" => TablesMade

\* While inits take turns: one moves at a time, and nobody adds a second row or schedule.
Moving(a) == admin[a].at # "idle" \/ job[a].state = "running"
OneEach(r, s) ==
  /\ locks <= 1 /\ schedules <= 1
  /\ s.state = "running" /\ s.inserts => locks = 0
  /\ r.at = "provision" /\ ~r.provided => schedules = 0
InTurns ==
  overlap = "none" =>
    /\ \A a, b \in Admins : Moving(a) /\ Moving(b) => a = b
    /\ locks <= 1 /\ schedules <= 1
    /\ \A a \in Admins : OneEach(admin[a], job[a])

\* Unless commands overlap, one moves at a time.
Alone(a) == \A b \in Admins \ {a} : admin[b].at = "idle"
OneCommand == overlap # "commands" => \A a \in Admins : admin[a].at # "idle" => Alone(a)

InstallInv ==
  /\ InstallTypeOK
  /\ \A a \in Admins : KnowsAs(admin[a]) /\ MakesAs(job[a]) /\ Awaits(admin[a], job[a])
  /\ OneCommand
  /\ install = "direct" => expiring = {} /\ locks <= 1
  /\ ReadyIsWhole
  /\ InTurns

\* What an init or a job does takes nothing back.
Grows ==
  /\ UNCHANGED <<install, overlap>>
  /\ made \subseteq made' /\ made' \subseteq BaseTables /\ locks <= locks' /\ locks' \in Nat
  /\ views => views'
  /\ marker # "absent" => marker' # "absent"
  /\ TablesMade /\ marker # "absent" /\ expiring = {} => expiring' = {}
  /\ install = "direct" => expiring' = {} /\ locks' <= 1

\* What a command knows stays true while others write the marker, which makes it stale.
LEMMA StillKnows ==
  ASSUME InstallTypeOK, Grows, NEW r \in AdminType, KnowsAs(r), NEW q \in AdminType,
         (q = r /\ UNCHANGED marker) \/ q = [r EXCEPT !.fresh = FALSE],
         overlap = "commands" \/ r.at = "idle" \/ (marker' = "ready" => marker = "ready")
  PROVE  KnowsAs(q)'
  <1>1. /\ q.seen = r.seen /\ q.existing = r.existing /\ q.at = r.at
        /\ q.fresh => r.fresh /\ marker' = marker
    BY DEF AdminType
  <1>2. TablesMade => TablesMade'
    BY DEF TablesMade, Grows, InstallTypeOK
  <1>3. /\ q.fresh => q.seen = marker'
        /\ q.existing \subseteq made'
        /\ q.at = "list" => q.seen # "ready"
        /\ q.at = "claim" => q.seen # "ready" \/ overlap' = "commands"
    BY <1>1 DEF KnowsAs, Grows
  <1>4. /\ q.at = "list" /\ q.seen # "absent" => marker' # "absent"
        /\ q.at \in {"fetch"} \cup Claiming => marker' # "absent"
        /\ q.at \in Creating \cup Claiming => install' = "bigquery"
        /\ q.at = "transaction" => install' = "direct"
    BY <1>1 DEF KnowsAs, Grows
  <1>8. q.at \in Creating => marker' # "ready" \/ overlap' = "commands"
    BY <1>1 DEF KnowsAs, Grows, Creating
  <1>5. q.at \in {"retain", "views", "reread", "finish"} => TablesMade'
    BY <1>1, <1>2 DEF KnowsAs
  <1>6. q.at \in {"views", "reread", "finish"} => expiring' = {}
    BY <1>1 DEF KnowsAs, Grows, Claiming
  <1>7. q.at \in {"reread", "finish"} => views'
    BY <1>1 DEF KnowsAs, Grows
  <1> QED
    BY <1>3, <1>4, <1>5, <1>6, <1>7, <1>8 DEF KnowsAs

\* What a job has left to make is no more than it was.
LEMMA StillMakes ==
  ASSUME InstallTypeOK, Grows, NEW s \in ScriptType, MakesAs(s)
  PROVE  MakesAs(s)'
  <1>1. \A t \in BaseTables : t \in made => t \in made'
    BY DEF Grows
  <1>2. locks >= 1 => locks' >= 1
    BY DEF Grows, InstallTypeOK
  <1>3. MakesTheRest(s) => MakesTheRest(s)'
    BY <1>1, <1>2 DEF MakesTheRest
  <1> QED
    BY <1>3 DEF MakesAs, Grows

\* What a command waits for stays made.
LEMMA StillAwaits ==
  ASSUME InstallTypeOK, Grows, NEW r \in AdminType, NEW q \in AdminType, NEW s \in ScriptType,
         Awaits(r, s), q.at = r.at
  PROVE  Awaits(q, s)'
  <1>1. TablesMade => TablesMade'
    <2>1. made = BaseTables => made' = BaseTables
      BY DEF Grows
    <2>2. locks >= 1 => locks' >= 1
      BY DEF Grows, InstallTypeOK
    <2> QED
      BY <2>1, <2>2 DEF TablesMade
  <1>2. marker # "absent" => marker' # "absent"
    BY DEF Grows
  <1> QED
    BY <1>1, <1>2 DEF Awaits

\* A step of a's command or job keeps the account, if a's part of it does.
LEMMA InstallSteps ==
  ASSUME InstallInv, InstallTypeOK', Grows, NEW a \in Admins,
         \A b \in Admins \ {a} :
           /\ job'[b] = job[b]
           /\ (admin'[b] = admin[b] /\ UNCHANGED marker) \/ admin'[b] = [admin[b] EXCEPT !.fresh = FALSE],
         KnowsAs(admin[a])', MakesAs(job[a])', Awaits(admin[a], job[a])',
         marker' = "ready" => marker = "ready" \/ ReadyIsWhole',
         overlap # "commands" => \/ Alone(a)
                                 \/ admin'[a].at = admin[a].at /\ (marker' = "ready" => marker = "ready"),
         overlap = "none" => /\ \A b \in Admins \ {a} : ~Moving(b)
                             /\ OneEach(admin[a], job[a])'
  PROVE  InstallInv'
  <1>0. InstallTypeOK
    BY DEF InstallInv
  <1>6. \A b \in Admins \ {a} : admin'[b].at = admin[b].at
    BY <1>0 DEF InstallTypeOK, AdminType
  <1>1. ASSUME NEW b \in Admins
        PROVE  KnowsAs(admin[b])' /\ MakesAs(job[b])' /\ Awaits(admin[b], job[b])'
    <2>1. CASE b = a
      BY <2>1
    <2>2. CASE b # a
      <3>1. PICK r, q, s : r = admin[b] /\ q = admin'[b] /\ s = job[b]
        OBVIOUS
      <3>2. r \in AdminType /\ q \in AdminType /\ s \in ScriptType /\ KnowsAs(r) /\ MakesAs(s) /\ Awaits(r, s)
        BY <1>0, <3>1 DEF InstallInv, InstallTypeOK
      <3>3. (q = r /\ UNCHANGED marker) \/ q = [r EXCEPT !.fresh = FALSE]
        BY <2>2, <3>1
      <3>6. overlap = "commands" \/ r.at = "idle" \/ (marker' = "ready" => marker = "ready")
        BY <2>2, <3>1 DEF Alone
      <3>7. q.at = r.at
        BY <3>2, <3>3 DEF AdminType
      <3>4. KnowsAs(q)' /\ MakesAs(s)' /\ Awaits(q, s)'
        BY <1>0, <3>2, <3>3, <3>6, <3>7, StillKnows, StillMakes, StillAwaits
      <3>5. s = job'[b]
        BY <2>2, <3>1
      <3> QED
        BY <3>1, <3>4, <3>5
    <2> QED
      BY <2>1, <2>2
  <1>2. (install = "direct" => expiring = {} /\ locks <= 1)'
    BY DEF Grows
  <1>3. ReadyIsWhole'
    <2>1. CASE marker = "ready"
      <3>1. made = BaseTables /\ expiring = {} /\ views /\ locks >= 1
        BY <2>1 DEF InstallInv, ReadyIsWhole, Opens
      <3>2. TablesMade
        BY <3>1 DEF TablesMade
      <3>3. made' = BaseTables /\ expiring' = {} /\ views' /\ locks' >= 1
        <4>1. expiring' = {}
          BY <2>1, <3>1, <3>2 DEF Grows
        <4>2. made' = BaseTables
          BY <3>1 DEF Grows
        <4>3. locks' >= 1
          BY <1>0, <3>1 DEF Grows, InstallTypeOK
        <4>4. views'
          BY <3>1 DEF Grows
        <4> QED
          BY <4>1, <4>2, <4>3, <4>4
      <3> QED
        BY <3>3 DEF ReadyIsWhole
    <2>2. CASE marker' # "ready"
      BY <2>2 DEF ReadyIsWhole, Opens
    <2> QED
      BY <2>1, <2>2
  <1>4. InTurns'
    <2>1. SUFFICES ASSUME overlap' = "none"
                   PROVE  /\ (\A x, y \in Admins : Moving(x) /\ Moving(y) => x = y)'
                          /\ locks' <= 1 /\ schedules' <= 1
                          /\ (\A b \in Admins : OneEach(admin[b], job[b]))'
      BY DEF InTurns
    <2>2. overlap = "none"
      BY <2>1 DEF Grows
    <2>3. locks' <= 1 /\ schedules' <= 1 /\ OneEach(admin[a], job[a])'
      BY <2>2 DEF OneEach
    <2>4. ASSUME NEW b \in Admins, b # a
          PROVE  admin'[b].at = "idle" /\ job'[b].state # "running"
      <3>1. admin[b].at = "idle" /\ job[b].state # "running" /\ admin[b] \in AdminType
        BY <1>0, <2>2, <2>4 DEF Moving, InstallTypeOK
      <3>2. admin'[b].at = admin[b].at
        BY <1>6, <2>4
      <3> QED
        BY <2>4, <3>1, <3>2
    <2>5. \A b \in Admins : b # a => ~Moving(b)'
      BY <2>4 DEF Moving
    <2>6. ASSUME NEW b \in Admins
          PROVE  OneEach(admin[b], job[b])'
      <3>1. CASE b = a
        BY <2>3, <3>1
      <3>2. CASE b # a
        BY <2>3, <2>4, <3>2 DEF OneEach
      <3> QED
        BY <3>1, <3>2
    <2> QED
      BY <2>3, <2>5, <2>6
  <1>5. OneCommand'
    <2>1. SUFFICES ASSUME overlap' # "commands", NEW x \in Admins, admin'[x].at # "idle",
                          NEW y \in Admins \ {x}
                   PROVE  admin'[y].at = "idle"
      BY DEF OneCommand, Alone
    <2>2. overlap # "commands"
      BY <2>1 DEF Grows
    <2>3. \A b \in Admins \ {a} : admin'[b].at = admin[b].at
      BY <1>6
    <2>4. CASE Alone(a)
      BY <2>1, <2>3, <2>4 DEF Alone
    <2>5. CASE admin'[a].at = admin[a].at
      BY <2>1, <2>2, <2>3, <2>5 DEF InstallInv, OneCommand, Alone
    <2> QED
      BY <2>2, <2>4, <2>5
  <1> QED
    BY <1>1, <1>2, <1>3, <1>4, <1>5 DEF InstallInv

\* What a knows, and what the others do meanwhile, while a moves.
LEMMA InstallHas ==
  ASSUME InstallInv, NEW a \in Admins
  PROVE  /\ InstallTypeOK /\ admin[a] \in AdminType /\ job[a] \in ScriptType
         /\ KnowsAs(admin[a]) /\ MakesAs(job[a]) /\ Awaits(admin[a], job[a])
         /\ overlap = "none" =>
              /\ OneEach(admin[a], job[a])
              /\ Moving(a) => \A b \in Admins \ {a} : ~Moving(b)
         /\ overlap # "commands" /\ admin[a].at # "idle" => Alone(a)
  <1>1. overlap = "none" =>
          /\ OneEach(admin[a], job[a])
          /\ Moving(a) => \A b \in Admins \ {a} : ~Moving(b)
    BY DEF InstallInv, InTurns
  <1>2. overlap # "commands" /\ admin[a].at # "idle" => Alone(a)
    BY DEF InstallInv, OneCommand
  <1> QED
    BY <1>1, <1>2 DEF InstallInv, InstallTypeOK

\* A command that reads, asks or gives up, and writes nothing.
LEMMA InitWalks ==
  ASSUME InstallInv, NEW a \in Admins, NEW r \in AdminType, admin' = [admin EXCEPT ![a] = r],
         UNCHANGED <<install, overlap, schema, schedules, job>>, KnowsAs(r),
         overlap = "none" => \A b \in Admins \ {a} : ~Moving(b),
         overlap # "commands" => Alone(a), r.at \notin {"making", "script"},
         overlap = "none" /\ r.at = "provision" /\ ~r.provided => schedules = 0
  PROVE  InstallInv'
  <1>1. /\ InstallTypeOK /\ admin[a] \in AdminType /\ job[a] \in ScriptType
        /\ KnowsAs(admin[a]) /\ MakesAs(job[a])
        /\ overlap = "none" => OneEach(admin[a], job[a])
    BY InstallHas
  <1>2. UNCHANGED <<install, overlap, marker, made, expiring, locks, views, schedules, job>>
    BY DEF schema
  <1>3. InstallTypeOK'
    BY <1>1, <1>2 DEF InstallTypeOK
  <1>4. Grows
    BY <1>1, <1>2 DEF Grows, InstallTypeOK, InstallInv
  <1>5. admin'[a] = r /\ \A b \in Admins \ {a} : job'[b] = job[b] /\ admin'[b] = admin[b]
    BY <1>1, <1>2 DEF InstallTypeOK
  <1>6. KnowsAs(admin[a])'
    BY <1>2, <1>5 DEF KnowsAs, TablesMade
  <1>7. MakesAs(job[a])' /\ Awaits(admin[a], job[a])'
    BY <1>1, <1>2, <1>5 DEF MakesAs, MakesTheRest, Awaits
  <1>8. overlap = "none" => OneEach(admin[a], job[a])'
    BY <1>1, <1>2, <1>5 DEF OneEach
  <1> QED
    BY <1>2, <1>3, <1>4, <1>5, <1>6, <1>7, <1>8, InstallSteps

\* A command that gives up knows nothing.
LEMMA InitGivesUp ==
  ASSUME InstallInv, NEW a \in Admins, admin[a].at # "idle", GivesUp(a),
         UNCHANGED <<install, overlap, schema, schedules, job>>
  PROVE  InstallInv'
  <1>1. PICK r : r = AtRest
    OBVIOUS
  <1>2. r \in AdminType /\ r.at = "idle" /\ ~r.fresh /\ r.existing = {}
    BY <1>1 DEF AtRest, AdminType, AdminPlaces, MarkerLabels
  <1>3. KnowsAs(r)
    BY <1>2 DEF KnowsAs, Creating, Claiming
  <1>4. Moving(a)
    BY DEF Moving
  <1>5. /\ overlap = "none" => \A b \in Admins \ {a} : ~Moving(b)
        /\ overlap # "commands" => Alone(a)
    BY <1>4, InstallHas
  <1> QED
    BY <1>1, <1>2, <1>3, <1>5, InitWalks DEF GivesUp

\* A command that writes the marker, and what else it does to the schema.
LEMMA InitWrites ==
  ASSUME InstallInv, NEW a \in Admins, NEW r \in AdminType, admin[a].at # "idle", Grows,
         UNCHANGED <<schedules, job>>,
         \A b \in Admins : admin'[b] = IF b = a THEN r ELSE [admin[b] EXCEPT !.fresh = FALSE],
         InstallTypeOK', KnowsAs(r)', r.at \notin {"making", "script", "provision"},
         marker' = "ready" => marker = "ready" \/ ReadyIsWhole',
         overlap = "none" => locks' <= 1,
         job[a].state = "running" => UNCHANGED locks
  PROVE  InstallInv'
  <1>1. /\ InstallTypeOK /\ admin[a] \in AdminType /\ job[a] \in ScriptType
        /\ KnowsAs(admin[a]) /\ MakesAs(job[a])
        /\ overlap = "none" => OneEach(admin[a], job[a])
    BY InstallHas
  <1>2. Moving(a)
    BY DEF Moving
  <1>3. /\ overlap = "none" => \A b \in Admins \ {a} : ~Moving(b)
        /\ overlap # "commands" => Alone(a)
    BY <1>2, InstallHas
  <1>4. admin'[a] = r /\ job'[a] = job[a]
    BY <1>1
  <1>5. KnowsAs(admin[a])'
    BY <1>4
  <1>6. PICK s : s = job[a]
    OBVIOUS
  <1>7. MakesAs(s)'
    BY <1>1, <1>6, StillMakes
  <1>8. MakesAs(job[a])' /\ Awaits(admin[a], job[a])'
    BY <1>4, <1>6, <1>7 DEF Awaits
  <1>9. overlap = "none" => OneEach(admin[a], job[a])'
    BY <1>1, <1>4 DEF OneEach
  <1>10. \A b \in Admins \ {a} : job'[b] = job[b] /\ admin'[b] = [admin[b] EXCEPT !.fresh = FALSE]
    OBVIOUS
  <1> QED
    BY <1>3, <1>5, <1>8, <1>9, <1>10, InstallSteps

\* No script creates the marker.
LEMMA MarkerAside == <<"marker">> \notin Seq(Statements)
  <1>1. SUFFICES ASSUME <<"marker">> \in Seq(Statements) PROVE FALSE
    OBVIOUS
  <1>2. <<"marker">>[1] \in Statements /\ <<"marker">>[1] = "marker"
    BY <1>1
  <1> QED
    BY <1>2 DEF Statements, BaseTables

\* A job that makes something, or stops.
LEMMA JobMoves ==
  ASSUME InstallInv, NEW a \in Admins, job[a].state = "running", Grows, NEW s \in ScriptType,
         job' = [job EXCEPT ![a] = s], UNCHANGED <<marker, admin, schedules>>, InstallTypeOK',
         MakesAs(s)', s.state = "running" => job[a].todo \in Seq(Statements) /\ s.todo \in Seq(Statements),
         s.state = "done" => job[a].todo \in Seq(Statements) /\ TablesMade',
         overlap = "none" => locks' <= 1 /\ (s.state = "running" /\ s.inserts => locks' = 0)
  PROVE  InstallInv'
  <1>1. /\ InstallTypeOK /\ admin[a] \in AdminType /\ KnowsAs(admin[a]) /\ Awaits(admin[a], job[a])
        /\ overlap = "none" => OneEach(admin[a], job[a])
    BY InstallHas
  <1>2. Moving(a)
    BY DEF Moving
  <1>3. overlap = "none" => \A b \in Admins \ {a} : ~Moving(b)
    BY <1>2, InstallHas
  <1>4. job'[a] = s /\ \A b \in Admins \ {a} : job'[b] = job[b] /\ admin'[b] = admin[b]
    BY <1>1 DEF InstallTypeOK
  <1>5. MakesAs(job[a])'
    BY <1>4
  <1>6. PICK r : r = admin[a]
    OBVIOUS
  <1>7. KnowsAs(r)'
    BY <1>1, <1>6, StillKnows
  <1>8. KnowsAs(admin[a])'
    BY <1>6, <1>7
  <1>9. overlap = "none" => OneEach(admin[a], job[a])'
    BY <1>1, <1>4 DEF OneEach
  <1>10. (marker' = "ready" => marker = "ready") /\ admin'[a].at = admin[a].at
    OBVIOUS
  <1>11. job[a].todo = <<"marker">> => job[a].todo \notin Seq(Statements)
    BY MarkerAside
  <1>12. Awaits(admin[a], job[a])'
    BY <1>1, <1>4, <1>11 DEF Awaits
  <1> QED
    BY <1>3, <1>4, <1>5, <1>8, <1>9, <1>10, <1>12, InstallSteps

\* A command begins.
LEMMA BeginKeeps ==
  ASSUME InstallInv, NEW a \in Admins, BeginInit(a)
  PROVE  InstallInv'
  <1>1. InstallTypeOK /\ admin[a] \in AdminType /\ KnowsAs(admin[a]) /\ admin[a].at = "idle"
    BY InstallHas DEF BeginInit, AdminAt
  <1>2. PICK r : r = [admin[a] EXCEPT !.at = "marker"]
    OBVIOUS
  <1>3. r \in AdminType /\ r.at = "marker" /\ r.fresh = admin[a].fresh /\ r.seen = admin[a].seen
        /\ r.existing = admin[a].existing
    BY <1>1, <1>2 DEF AdminType, AdminPlaces
  <1>4. KnowsAs(r)
    BY <1>1, <1>3 DEF KnowsAs, Creating, Claiming
  <1>5. admin' = [admin EXCEPT ![a] = r]
    BY <1>2 DEF BeginInit, Onward
  <1>6. UNCHANGED <<install, overlap, schema, schedules, job>>
    BY DEF BeginInit, rest
  <1>7. /\ overlap = "none" => \A b \in Admins \ {a} : ~Moving(b)
        /\ overlap # "commands" => Alone(a)
    BY DEF BeginInit, AdminAt, Moving, Alone
  <1> QED
    BY <1>3, <1>4, <1>5, <1>6, <1>7, InitWalks

\* It reads the marker: it goes on to what claims a schema only past one that is not ready.
LEMMA ReadKeeps ==
  ASSUME InstallInv, NEW a \in Admins, ReadMarker(a)
  PROVE  InstallInv'
  <1>1. InstallTypeOK /\ admin[a] \in AdminType /\ KnowsAs(admin[a]) /\ admin[a].at = "marker"
    BY InstallHas DEF ReadMarker, AdminAt
  <1>2. PICK next : next = IF Opens THEN "schedule" ELSE IF install = "bigquery" THEN "list" ELSE "transaction"
    OBVIOUS
  <1>3. PICK r : r = [admin[a] EXCEPT !.at = next, !.seen = marker, !.fresh = TRUE]
    OBVIOUS
  <1>4. next \in {"schedule", "list", "transaction"} /\ marker \in MarkerLabels
    BY <1>1, <1>2 DEF InstallTypeOK
  <1>5. r \in AdminType /\ r.at = next /\ r.seen = marker /\ r.existing = admin[a].existing
    BY <1>1, <1>3, <1>4 DEF AdminType, AdminPlaces
  <1>6. next = "list" => marker # "ready" /\ install = "bigquery"
    BY <1>2 DEF Opens
  <1>7. next = "transaction" => install = "direct"
    BY <1>1, <1>2 DEF InstallTypeOK
  <1>8. KnowsAs(r)
    BY <1>1, <1>4, <1>5, <1>6, <1>7 DEF KnowsAs, Creating, Claiming
  <1>9. admin' = [admin EXCEPT ![a] = r]
    BY <1>1, <1>2, <1>3 DEF ReadMarker, ReadsMarker, InstallTypeOK
  <1>10. UNCHANGED <<install, overlap, schema, schedules, job>>
    BY DEF ReadMarker, rest
  <1>11. Moving(a)
    BY <1>1 DEF Moving
  <1>12. /\ overlap = "none" => \A b \in Admins \ {a} : ~Moving(b)
         /\ overlap # "commands" => Alone(a)
    BY <1>1, <1>11, InstallHas
  <1>13. r.at \notin {"making", "script", "provision"}
    BY <1>4, <1>5
  <1>14. r \in AdminType
    BY <1>5
  <1> QED
    BY <1>8, <1>9, <1>10, <1>12, <1>13, <1>14, InitWalks

\* A direct backend creates the schema in one transaction.
LEMMA DirectKeeps ==
  ASSUME InstallInv, NEW a \in Admins, Install(a)
  PROVE  InstallInv'
  <1>1. /\ InstallTypeOK /\ admin[a] \in AdminType /\ KnowsAs(admin[a]) /\ MakesAs(job[a])
        /\ admin[a].at = "transaction"
    BY InstallHas DEF Install, AdminAt
  <1>2. UNCHANGED <<install, overlap, schedules, hitches, job>>
    BY DEF Install, rest
  <1>3. CASE marker # "absent"
    BY <1>1, <1>2, <1>3, InitGivesUp DEF Install
  <1>4. CASE marker = "absent"
    <2>1. WritesMarker(a, "ready", "schedule") /\ made' = BaseTables /\ locks' = 1 /\ views' = TRUE /\ UNCHANGED expiring
      BY <1>4 DEF Install
    <2>2. install = "direct" /\ expiring = {} /\ job[a].state # "running"
      BY <1>1 DEF KnowsAs, MakesAs, InstallInv
    <2>3. PICK r : r = [admin[a] EXCEPT !.at = "schedule", !.seen = "ready", !.fresh = TRUE]
      OBVIOUS
    <2>4. r \in AdminType /\ r.at = "schedule" /\ r.seen = "ready" /\ r.existing = admin[a].existing
      BY <1>1, <2>3 DEF AdminType, AdminPlaces, MarkerLabels
    <2>5. marker' = "ready" /\ admin' = [b \in Admins |-> IF b = a THEN r ELSE [admin[b] EXCEPT !.fresh = FALSE]]
      BY <2>1, <2>3 DEF WritesMarker
    <2>6. \A b \in Admins : [admin[b] EXCEPT !.fresh = FALSE] \in AdminType
      BY <1>1 DEF InstallTypeOK, AdminType
    <2>7. admin' \in [Admins -> AdminType]
      BY <2>4, <2>5, <2>6
    <2>8. locks' \in Nat /\ views' \in BOOLEAN
      BY <2>1
    <2>9. InstallTypeOK'
      BY <1>1, <1>2, <2>1, <2>5, <2>7, <2>8 DEF InstallTypeOK, MarkerLabels
    <2>10. Grows
      BY <1>1, <1>2, <1>4, <2>1, <2>2, <2>5, <2>8 DEF Grows, InstallInv, InstallTypeOK
    <2>11. TablesMade' /\ KnowsAs(r)'
      <3>1. TablesMade'
        BY <2>1 DEF TablesMade
      <3>2. r.existing \subseteq made'
        BY <1>1, <2>1, <2>4 DEF AdminType
      <3> QED
        BY <2>4, <2>5, <3>1, <3>2 DEF KnowsAs, Creating, Claiming
    <2>12. ReadyIsWhole'
      BY <2>1, <2>2 DEF ReadyIsWhole
    <2>13. \A b \in Admins : admin'[b] = IF b = a THEN r ELSE [admin[b] EXCEPT !.fresh = FALSE]
      BY <2>5
    <2>14. locks' <= 1 /\ admin[a].at # "idle" /\ r.at # "provision"
      BY <1>1, <2>1, <2>4
    <2> QED
      BY <1>2, <2>2, <2>4, <2>9, <2>10, <2>11, <2>12, <2>13, <2>14, InitWrites
  <1> QED
    BY <1>3, <1>4

\* The tables are listed: those of a schema that no init has claimed are not ours.
LEMMA ListKeeps ==
  ASSUME InstallInv, NEW a \in Admins, ListTables(a)
  PROVE  InstallInv'
  <1>1. InstallTypeOK /\ admin[a] \in AdminType /\ KnowsAs(admin[a]) /\ admin[a].at = "list"
    BY InstallHas DEF ListTables, AdminAt
  <1>2. UNCHANGED <<install, overlap, schema, schedules, job>>
    BY DEF ListTables, rest
  <1>3. CASE admin[a].seen # "initializing" /\ made # {}
    BY <1>1, <1>2, <1>3, InitGivesUp DEF ListTables
  <1>4. CASE ~(admin[a].seen # "initializing" /\ made # {})
    <2>1. PICK next : next = IF admin[a].seen = "absent" THEN "create" ELSE "claim"
      OBVIOUS
    <2>2. PICK r : r = [admin[a] EXCEPT !.existing = made, !.at = next]
      OBVIOUS
    <2>3. next \in {"create", "claim"} /\ made \in SUBSET BaseTables
      BY <1>1, <2>1 DEF InstallTypeOK
    <2>4. /\ r \in AdminType /\ r.at = next /\ r.seen = admin[a].seen /\ r.existing = made
          /\ r.fresh = admin[a].fresh
      BY <1>1, <2>2, <2>3 DEF AdminType, AdminPlaces
    <2>5. /\ admin[a].seen # "ready" /\ install = "bigquery" /\ (next = "claim" => marker # "absent")
          /\ marker # "ready" \/ overlap = "commands"
      BY <1>1, <2>1 DEF KnowsAs, Creating
    <2>6. KnowsAs(r)
      BY <1>1, <2>3, <2>4, <2>5 DEF KnowsAs, Creating, Claiming
    <2>7. admin' = [admin EXCEPT ![a] = r]
      BY <1>1, <1>4, <2>1, <2>2 DEF ListTables, InstallTypeOK
    <2>8. Moving(a)
      BY <1>1 DEF Moving
    <2>9. /\ overlap = "none" => \A b \in Admins \ {a} : ~Moving(b)
          /\ overlap # "commands" => Alone(a)
      BY <1>1, <2>8, InstallHas
    <2> QED
      BY <1>2, <2>3, <2>4, <2>6, <2>7, <2>9, InitWalks
  <1> QED
    BY <1>3, <1>4

\* What a command is to others after it wrote the marker: none of them is up to date.
LEMMA Labelled ==
  ASSUME InstallTypeOK, NEW a \in Admins, NEW label \in MarkerLabels, NEW next \in AdminPlaces,
         WritesMarker(a, label, next)
  PROVE  /\ marker' = label /\ admin' \in [Admins -> AdminType]
         /\ \E r \in AdminType :
              /\ r.at = next /\ r.seen = label /\ r.existing = admin[a].existing
              /\ \A b \in Admins : admin'[b] = IF b = a THEN r ELSE [admin[b] EXCEPT !.fresh = FALSE]
  <1>1. PICK r : r = [admin[a] EXCEPT !.at = next, !.seen = label, !.fresh = TRUE]
    OBVIOUS
  <1>2. r \in AdminType /\ r.at = next /\ r.seen = label /\ r.existing = admin[a].existing
    BY <1>1 DEF InstallTypeOK, AdminType
  <1>3. marker' = label /\ admin' = [b \in Admins |-> IF b = a THEN r ELSE [admin[b] EXCEPT !.fresh = FALSE]]
    BY <1>1 DEF WritesMarker
  <1>4. \A b \in Admins : [admin[b] EXCEPT !.fresh = FALSE] \in AdminType
    BY DEF InstallTypeOK, AdminType
  <1>5. admin' \in [Admins -> AdminType]
    BY <1>2, <1>3, <1>4
  <1>6. \A b \in Admins : admin'[b] = IF b = a THEN r ELSE [admin[b] EXCEPT !.fresh = FALSE]
    BY <1>3
  <1> QED
    BY <1>2, <1>3, <1>5, <1>6

\* A command submits a job, and waits for it.
LEMMA InitSubmits ==
  ASSUME InstallInv, NEW a \in Admins, admin[a].at # "idle", NEW r \in AdminType, NEW s \in ScriptType,
         admin' = [admin EXCEPT ![a] = r], job' = [job EXCEPT ![a] = s],
         UNCHANGED <<install, overlap, schema, schedules>>, KnowsAs(r), MakesAs(s), Awaits(r, s),
         r.at # "provision", ~s.inserts
  PROVE  InstallInv'
  <1>1. /\ InstallTypeOK
        /\ overlap = "none" => OneEach(admin[a], job[a])
        /\ overlap # "commands" => Alone(a)
    BY InstallHas
  <1>2. UNCHANGED <<install, overlap, schedules, marker, made, expiring, locks, views>>
    BY DEF schema
  <1>3. InstallTypeOK'
    BY <1>1, <1>2 DEF InstallTypeOK
  <1>4. Grows
    BY <1>1, <1>2 DEF Grows, InstallTypeOK, InstallInv
  <1>5. /\ admin'[a] = r /\ job'[a] = s
        /\ \A b \in Admins \ {a} : job'[b] = job[b] /\ admin'[b] = admin[b]
    BY <1>1 DEF InstallTypeOK
  <1>6. KnowsAs(admin[a])' /\ MakesAs(job[a])' /\ Awaits(admin[a], job[a])'
    <2>1. KnowsAs(admin[a])'
      BY <1>2, <1>5 DEF KnowsAs, TablesMade
    <2>2. MakesAs(job[a])'
      BY <1>2, <1>5 DEF MakesAs, MakesTheRest
    <2>3. Awaits(admin[a], job[a])'
      BY <1>2, <1>5 DEF Awaits, TablesMade
    <2> QED
      BY <2>1, <2>2, <2>3
  <1>7. overlap = "none" => OneEach(admin[a], job[a])'
    BY <1>1, <1>2, <1>5 DEF OneEach
  <1>8. Moving(a)
    BY DEF Moving
  <1>9. overlap = "none" => \A b \in Admins \ {a} : ~Moving(b)
    BY <1>8, InstallHas
  <1> QED
    BY <1>1, <1>2, <1>3, <1>4, <1>5, <1>6, <1>7, <1>9, InstallSteps

\* A job that creates the marker is submitted.
LEMMA MarkerSubmitted ==
  ASSUME InstallInv, NEW a \in Admins, SubmitMarker(a)
  PROVE  InstallInv'
  <1>1. InstallTypeOK /\ admin[a] \in AdminType /\ KnowsAs(admin[a]) /\ admin[a].at = "create"
    BY InstallHas DEF SubmitMarker, AdminAt
  <1>2. UNCHANGED <<install, overlap, schema, schedules>>
    BY DEF SubmitMarker, rest
  <1>3. PICK r : r = [admin[a] EXCEPT !.at = "making"]
    OBVIOUS
  <1>4. /\ r \in AdminType /\ r.at = "making" /\ r.seen = admin[a].seen /\ r.existing = admin[a].existing
        /\ r.fresh = admin[a].fresh
    BY <1>1, <1>3 DEF AdminType, AdminPlaces
  <1>5. PICK s : s = [todo |-> <<"marker">>, inserts |-> FALSE, state |-> "running"]
    OBVIOUS
  <1>6. s \in ScriptType /\ s.todo = <<"marker">> /\ ~s.inserts /\ s.state = "running"
    <2>1. <<"marker">> \in Seq(Statements \cup {"marker"})
      OBVIOUS
    <2> QED
      BY <1>5, <2>1 DEF ScriptType
  <1>7. install = "bigquery" /\ (marker # "ready" \/ overlap = "commands")
    BY <1>1 DEF KnowsAs, Creating
  <1>8. KnowsAs(r)
    BY <1>1, <1>4, <1>7 DEF KnowsAs, Creating, Claiming
  <1>9. MakesAs(s) /\ Awaits(r, s)
    BY <1>4, <1>6, <1>7 DEF MakesAs, Awaits
  <1>10. admin' = [admin EXCEPT ![a] = r] /\ job' = [job EXCEPT ![a] = s]
    BY <1>3, <1>5 DEF SubmitMarker, Onward, Submits
  <1> QED
    BY <1>1, <1>2, <1>4, <1>6, <1>8, <1>9, <1>10, InitSubmits

\* The marker is read back for its etag.
LEMMA FetchKeeps ==
  ASSUME InstallInv, NEW a \in Admins, FetchMarker(a)
  PROVE  InstallInv'
  <1>1. InstallTypeOK /\ admin[a] \in AdminType /\ KnowsAs(admin[a]) /\ admin[a].at = "fetch"
    BY InstallHas DEF FetchMarker, AdminAt
  <1>2. PICK r : r = [admin[a] EXCEPT !.at = "claim", !.seen = marker, !.fresh = TRUE]
    OBVIOUS
  <1>3. marker \in MarkerLabels
    BY <1>1 DEF InstallTypeOK
  <1>4. r \in AdminType /\ r.at = "claim" /\ r.seen = marker /\ r.existing = admin[a].existing
    BY <1>1, <1>2, <1>3 DEF AdminType, AdminPlaces
  <1>5. install = "bigquery" /\ marker # "absent" /\ (marker # "ready" \/ overlap = "commands")
    BY <1>1 DEF KnowsAs, Creating
  <1>6. KnowsAs(r)
    BY <1>1, <1>4, <1>5 DEF KnowsAs, Creating, Claiming
  <1>7. admin' = [admin EXCEPT ![a] = r]
    BY <1>1, <1>2 DEF FetchMarker, ReadsMarker, InstallTypeOK
  <1>8. UNCHANGED <<install, overlap, schema, schedules, job>>
    BY DEF FetchMarker, rest
  <1>9. Moving(a)
    BY <1>1 DEF Moving
  <1>10. /\ overlap = "none" => \A b \in Admins \ {a} : ~Moving(b)
         /\ overlap # "commands" => Alone(a)
    BY <1>1, <1>9, InstallHas
  <1> QED
    BY <1>4, <1>6, <1>7, <1>8, <1>10, InitWalks

\* The marker is created where there is none, and the job fails on one that is there.
LEMMA MarkerKeeps ==
  ASSUME InstallInv, NEW a \in Admins, CreatesMarker(a)
  PROVE  InstallInv'
  <1>1. job[a].state = "running" /\ Head(job[a].todo) = "marker"
    BY DEF CreatesMarker
  <1>2. /\ InstallTypeOK /\ job[a] \in ScriptType /\ admin[a] \in AdminType /\ KnowsAs(admin[a])
        /\ MakesAs(job[a]) /\ Awaits(admin[a], job[a])
        /\ overlap = "none" => OneEach(admin[a], job[a])
    BY InstallHas
  <1>3. UNCHANGED <<install, overlap, schedules, made, locks, views>>
    BY DEF CreatesMarker, rest
  <1>4. job[a].todo = <<"marker">> /\ job[a].todo \notin Seq(Statements) /\ install = "bigquery"
    <2>1. ASSUME job[a].todo \in Seq(Statements), job[a].todo # <<>>
          PROVE  FALSE
      <3>1. Head(job[a].todo) \in Statements
        BY <2>1
      <3> QED
        BY <1>1, <3>1 DEF Statements, BaseTables
    <2> QED
      BY <1>1, <1>2, <2>1, MarkerAside DEF MakesAs, MakesTheRest
  <1>5. CASE marker # "absent"
    <2>1. PICK s : s = [job[a] EXCEPT !.state = "failed"]
      OBVIOUS
    <2>2. s \in ScriptType /\ s.state = "failed"
      BY <1>2, <2>1 DEF ScriptType
    <2>3. job' = [job EXCEPT ![a] = s] /\ UNCHANGED <<marker, admin, expiring>>
      BY <1>5, <2>1 DEF CreatesMarker
    <2>4. InstallTypeOK'
      BY <1>2, <1>3, <2>2, <2>3 DEF InstallTypeOK
    <2>5. Grows
      BY <1>2, <1>3, <2>3 DEF Grows, InstallTypeOK, InstallInv
    <2>6. MakesAs(s)'
      BY <2>2 DEF MakesAs
    <2>7. overlap = "none" => locks' <= 1 /\ (s.state = "running" /\ s.inserts => locks' = 0)
      BY <1>2, <1>3, <2>2 DEF OneEach
    <2> QED
      BY <1>1, <1>3, <2>2, <2>3, <2>4, <2>5, <2>6, <2>7, JobMoves
  <1>6. CASE marker = "absent"
    <2>1. /\ marker' = "none" /\ expiring' = expiring \cup {"marker"} /\ Ran(a)
          /\ admin' = [b \in Admins |-> [admin[b] EXCEPT !.fresh = FALSE]]
      BY <1>6 DEF CreatesMarker
    <2>2. PICK s : s = [job[a] EXCEPT !.todo = <<>>, !.inserts = FALSE, !.state = "done"]
      OBVIOUS
    <2>3. s \in ScriptType /\ s.state = "done" /\ ~s.inserts
      <3>1. <<>> \in Seq(Statements \cup {"marker"})
        OBVIOUS
      <3> QED
        BY <1>2, <2>2, <3>1 DEF ScriptType
    <2>4. job' = [job EXCEPT ![a] = s]
      <3>1. Len(<<"marker">>) = 1 /\ Tail(<<"marker">>) = <<>>
        OBVIOUS
      <3> QED
        BY <1>2, <1>4, <2>1, <2>2, <3>1 DEF Ran, InstallTypeOK, ScriptType
    <2>5. \A b \in Admins : [admin[b] EXCEPT !.fresh = FALSE] \in AdminType
      BY <1>2 DEF InstallTypeOK, AdminType
    <2>6. InstallTypeOK'
      BY <1>2, <1>3, <2>1, <2>3, <2>4, <2>5 DEF InstallTypeOK, MarkerLabels
    <2>7. Grows
      BY <1>2, <1>3, <1>4, <1>6, <2>1 DEF Grows, InstallTypeOK
    <2>8. PICK r : r = [admin[a] EXCEPT !.fresh = FALSE]
      OBVIOUS
    <2>9. r \in AdminType /\ r = admin'[a] /\ r.at = admin[a].at
      BY <1>2, <2>1, <2>8 DEF AdminType
    <2>10. PICK v : v = admin[a]
      OBVIOUS
    <2>11. KnowsAs(r)'
      BY <1>2, <2>1, <2>7, <2>8, <2>9, <2>10, StillKnows
    <2>12. KnowsAs(admin[a])'
      BY <2>9, <2>11
    <2>13. job'[a] = s /\ \A b \in Admins \ {a} :
             job'[b] = job[b] /\ admin'[b] = [admin[b] EXCEPT !.fresh = FALSE]
      BY <1>2, <2>1, <2>4 DEF InstallTypeOK
    <2>14. MakesAs(job[a])' /\ Awaits(admin[a], job[a])'
      BY <1>1, <1>2, <1>4, <2>1, <2>3, <2>9, <2>13 DEF MakesAs, Awaits
    <2>15. overlap = "none" => OneEach(admin[a], job[a])'
      BY <1>2, <1>3, <2>3, <2>8, <2>9, <2>13 DEF OneEach, AdminType
    <2>16. Moving(a)
      BY <1>1 DEF Moving
    <2>17. overlap = "none" => \A b \in Admins \ {a} : ~Moving(b)
      BY <2>16, InstallHas
    <2> QED
      BY <2>1, <2>6, <2>7, <2>9, <2>12, <2>13, <2>14, <2>15, <2>17, InstallSteps
  <1> QED
    BY <1>5, <1>6

\* The schema is claimed, by who has read that it is not ready.
LEMMA ClaimKeeps ==
  ASSUME InstallInv, NEW a \in Admins, Claim(a)
  PROVE  InstallInv'
  <1>1. /\ InstallTypeOK /\ admin[a] \in AdminType /\ KnowsAs(admin[a]) /\ MakesAs(job[a])
        /\ admin[a].at = "claim" /\ Labels(a, "initializing", "submit")
    BY InstallHas DEF Claim, AdminAt
  <1>2. UNCHANGED <<install, overlap, schedules, made, expiring, locks, views, job>>
    BY <1>1 DEF Labels, rest
  <1>3. CASE ~admin[a].fresh
    BY <1>1, <1>2, <1>3, InitGivesUp DEF Labels, schema
  <1>4. CASE admin[a].fresh
    <2>1. WritesMarker(a, "initializing", "submit")
      BY <1>1, <1>4 DEF Labels
    <2>2. "initializing" \in MarkerLabels /\ "submit" \in AdminPlaces
      BY DEF MarkerLabels, AdminPlaces
    <2>3. marker' = "initializing" /\ admin' \in [Admins -> AdminType]
      BY <1>1, <2>1, <2>2, Labelled
    <2>4. PICK r \in AdminType :
            /\ r.at = "submit" /\ r.seen = "initializing" /\ r.existing = admin[a].existing
            /\ \A b \in Admins : admin'[b] = IF b = a THEN r ELSE [admin[b] EXCEPT !.fresh = FALSE]
      BY <1>1, <2>1, <2>2, Labelled
    <2>5. InstallTypeOK'
      BY <1>1, <1>2, <2>3 DEF InstallTypeOK, MarkerLabels
    <2>6. install = "bigquery"
      BY <1>1 DEF KnowsAs, Creating, Claiming
    <2>7. Grows
      BY <1>1, <1>2, <2>3, <2>6 DEF Grows, InstallTypeOK
    <2>8. KnowsAs(r)'
      BY <1>1, <1>2, <2>3, <2>4, <2>6 DEF KnowsAs, Creating, Claiming
    <2>9. overlap = "none" => locks' <= 1
      BY <1>2 DEF InstallInv, InTurns
    <2> QED
      BY <1>1, <1>2, <2>3, <2>4, <2>5, <2>7, <2>8, <2>9, InitWrites
  <1> QED
    BY <1>3, <1>4

\* The schema is declared ready, when all of it is there.
LEMMA FinishKeeps ==
  ASSUME InstallInv, NEW a \in Admins, Finish(a)
  PROVE  InstallInv'
  <1>1. /\ InstallTypeOK /\ admin[a] \in AdminType /\ KnowsAs(admin[a]) /\ MakesAs(job[a])
        /\ admin[a].at = "finish" /\ Labels(a, "ready", "schedule")
    BY InstallHas DEF Finish, AdminAt
  <1>2. UNCHANGED <<install, overlap, schedules, made, expiring, locks, views, job>>
    BY <1>1 DEF Labels, rest
  <1>3. CASE ~admin[a].fresh
    BY <1>1, <1>2, <1>3, InitGivesUp DEF Labels, schema
  <1>4. CASE admin[a].fresh
    <2>1. WritesMarker(a, "ready", "schedule")
      BY <1>1, <1>4 DEF Labels
    <2>2. "ready" \in MarkerLabels /\ "schedule" \in AdminPlaces
      BY DEF MarkerLabels, AdminPlaces
    <2>3. marker' = "ready" /\ admin' \in [Admins -> AdminType]
      BY <1>1, <2>1, <2>2, Labelled
    <2>4. PICK r \in AdminType :
            /\ r.at = "schedule" /\ r.seen = "ready" /\ r.existing = admin[a].existing
            /\ \A b \in Admins : admin'[b] = IF b = a THEN r ELSE [admin[b] EXCEPT !.fresh = FALSE]
      BY <1>1, <2>1, <2>2, Labelled
    <2>5. InstallTypeOK'
      BY <1>1, <1>2, <2>3 DEF InstallTypeOK, MarkerLabels
    <2>6. TablesMade /\ expiring = {} /\ views /\ install = "bigquery"
      BY <1>1 DEF KnowsAs, Creating, Claiming
    <2>7. Grows
      BY <1>1, <1>2, <2>3, <2>6 DEF Grows, InstallTypeOK
    <2>8. KnowsAs(r)'
      BY <1>1, <1>2, <2>3, <2>4, <2>6 DEF KnowsAs, Creating, Claiming
    <2>9. overlap = "none" => locks' <= 1
      BY <1>2 DEF InstallInv, InTurns
    <2>10. ReadyIsWhole'
      BY <1>2, <2>6 DEF ReadyIsWhole, TablesMade
    <2> QED
      BY <1>1, <1>2, <2>4, <2>5, <2>7, <2>8, <2>9, <2>10, InitWrites
  <1> QED
    BY <1>3, <1>4

\* A script holds what is missing.
LEMMA ScriptHoldsMissing ==
  ASSUME NEW existing \in SUBSET BaseTables
  PROVE  /\ Baseline(existing) \in Seq(Statements) /\ Baseline(existing) # <<>>
         /\ ToMake(Baseline(existing), "lock")
         /\ \A t \in BaseTables : t \in existing \/ ToMake(Baseline(existing), t)
  <1>1. ASSUME NEW t \in BaseTables
        PROVE  /\ Creates(t, existing) \in Seq(Statements)
               /\ t \in existing \/ ToMake(Creates(t, existing), t)
    <2>1. CASE t \in existing
      BY <2>1 DEF Creates
    <2>2. CASE t \notin existing
      <3>1. Creates(t, existing) = <<t>> /\ <<t>> \in Seq(Statements) /\ Len(<<t>>) = 1 /\ <<t>>[1] = t
            /\ 1 \in 1 .. 1
        BY <2>2 DEF Creates, Statements
      <3> QED
        BY <3>1 DEF ToMake
    <2> QED
      BY <2>1, <2>2
  <1>2. ASSUME NEW s \in Seq(Statements), NEW q \in Seq(Statements), NEW x, ToMake(s, x) \/ ToMake(q, x)
        PROVE  ToMake(s \o q, x)
    <2>1. /\ Len(s \o q) = Len(s) + Len(q)
          /\ \A i \in 1 .. Len(s) + Len(q) : (s \o q)[i] = IF i <= Len(s) THEN s[i] ELSE q[i - Len(s)]
      BY ConcatProperties
    <2>2. CASE ToMake(s, x)
      <3>1. PICK i \in 1 .. Len(s) : s[i] = x
        BY <2>2 DEF ToMake
      <3>2. i \in 1 .. Len(s) + Len(q) /\ i <= Len(s)
        OBVIOUS
      <3> QED
        BY <2>1, <3>1, <3>2 DEF ToMake
    <2>3. CASE ToMake(q, x)
      <3>1. PICK i \in 1 .. Len(q) : q[i] = x
        BY <2>3 DEF ToMake
      <3>2. Len(s) + i \in 1 .. Len(s) + Len(q) /\ ~(Len(s) + i <= Len(s)) /\ (Len(s) + i) - Len(s) = i
        OBVIOUS
      <3>3. (s \o q)[Len(s) + i] = x
        BY <2>1, <3>1, <3>2
      <3> QED
        BY <2>1, <3>2, <3>3 DEF ToMake
    <2> QED
      BY <1>2, <2>2, <2>3
  <1>3. "ledger" \in BaseTables /\ "migrations" \in BaseTables
    BY DEF BaseTables
  <1>4. PICK s, q, v : s = Creates("ledger", existing) /\ q = <<"lock">> /\ v = Creates("migrations", existing)
    OBVIOUS
  <1>5. s \in Seq(Statements) /\ v \in Seq(Statements) /\ q \in Seq(Statements)
    BY <1>1, <1>3, <1>4 DEF Statements
  <1>6. ToMake(q, "lock")
    <2>1. Len(q) = 1 /\ q[1] = "lock" /\ 1 \in 1 .. 1
      BY <1>4
    <2> QED
      BY <2>1 DEF ToMake
  <1>7. s \o q \in Seq(Statements) /\ (s \o q) \o v \in Seq(Statements)
    BY <1>5, ConcatProperties
  <1>8. Baseline(existing) = (s \o q) \o v
    BY <1>4 DEF Baseline
  <1>9. ToMake((s \o q) \o v, "lock")
    BY <1>2, <1>5, <1>6, <1>7
  <1>10. "ledger" \in existing \/ ToMake((s \o q) \o v, "ledger")
    BY <1>1, <1>2, <1>3, <1>4, <1>5, <1>7
  <1>11. "migrations" \in existing \/ ToMake((s \o q) \o v, "migrations")
    BY <1>1, <1>2, <1>3, <1>4, <1>5, <1>7
  <1>12. (s \o q) \o v # <<>>
    BY <1>7, <1>9 DEF ToMake
  <1> QED
    BY <1>7, <1>8, <1>9, <1>10, <1>11, <1>12 DEF BaseTables

\* A script with what is missing is submitted.
LEMMA SubmitKeeps ==
  ASSUME InstallInv, NEW a \in Admins, SubmitScript(a)
  PROVE  InstallInv'
  <1>1. InstallTypeOK /\ admin[a] \in AdminType /\ KnowsAs(admin[a]) /\ admin[a].at = "submit"
    BY InstallHas DEF SubmitScript, AdminAt
  <1>2. UNCHANGED <<install, overlap, schema, schedules>>
    BY DEF SubmitScript, rest
  <1>3. PICK r : r = [admin[a] EXCEPT !.at = "script"]
    OBVIOUS
  <1>4. /\ r \in AdminType /\ r.at = "script" /\ r.seen = admin[a].seen /\ r.existing = admin[a].existing
        /\ r.fresh = admin[a].fresh
    BY <1>1, <1>3 DEF AdminType, AdminPlaces
  <1>5. PICK s : s = [todo |-> Baseline(admin[a].existing), inserts |-> FALSE, state |-> "running"]
    OBVIOUS
  <1>6. admin[a].existing \in SUBSET BaseTables /\ admin[a].existing \subseteq made /\ install = "bigquery"
        /\ marker # "absent"
    BY <1>1 DEF AdminType, KnowsAs, Claiming
  <1>7. /\ Baseline(admin[a].existing) \in Seq(Statements)
        /\ Baseline(admin[a].existing) \in Seq(Statements \cup {"marker"})
    BY <1>6, ScriptHoldsMissing
  <1>8. s \in ScriptType /\ s.todo \in Seq(Statements) /\ s.state = "running" /\ ~s.inserts
    BY <1>5, <1>7 DEF ScriptType
  <1>9. MakesAs(s) /\ Awaits(r, s)
    BY <1>4, <1>5, <1>6, <1>8, ScriptHoldsMissing DEF MakesAs, MakesTheRest, Awaits
  <1>10. KnowsAs(r)
    BY <1>1, <1>4, <1>6 DEF KnowsAs, Creating, Claiming
  <1>11. admin' = [admin EXCEPT ![a] = r] /\ job' = [job EXCEPT ![a] = s]
    BY <1>3, <1>5 DEF SubmitScript, Onward, Submits
  <1> QED
    BY <1>1, <1>2, <1>4, <1>8, <1>9, <1>10, <1>11, InitSubmits

\* A command that walks on to the next of its places, with what it knew.
LEMMA InitWalksOn ==
  ASSUME InstallInv, NEW a \in Admins, admin[a].at # "idle", NEW next \in AdminPlaces, Onward(a, next),
         UNCHANGED <<install, overlap, schema, schedules, job>>,
         \A r \in AdminType : /\ r.at = next /\ r.seen = admin[a].seen /\ r.existing = admin[a].existing
                              /\ r.fresh = admin[a].fresh
                              => KnowsAs(r),
         next \notin {"making", "script", "provision"}
  PROVE  InstallInv'
  <1>1. InstallTypeOK /\ admin[a] \in AdminType
    BY InstallHas
  <1>2. PICK r : r = [admin[a] EXCEPT !.at = next]
    OBVIOUS
  <1>3. /\ r \in AdminType /\ r.at = next /\ r.seen = admin[a].seen /\ r.existing = admin[a].existing
        /\ r.fresh = admin[a].fresh
    BY <1>1, <1>2 DEF AdminType
  <1>4. admin' = [admin EXCEPT ![a] = r]
    BY <1>2 DEF Onward
  <1>5. Moving(a)
    BY DEF Moving
  <1>6. /\ overlap = "none" => \A b \in Admins \ {a} : ~Moving(b)
        /\ overlap # "commands" => Alone(a)
    BY <1>5, InstallHas
  <1> QED
    BY <1>3, <1>4, <1>6, InitWalks

\* A job is done, and what it makes is there, or it failed.
LEMMA ReturnKeeps ==
  ASSUME InstallInv, NEW a \in Admins, JobReturns(a)
  PROVE  InstallInv'
  <1>1. /\ InstallTypeOK /\ KnowsAs(admin[a]) /\ Awaits(admin[a], job[a])
        /\ admin[a].at \in {"making", "script"}
    BY InstallHas DEF JobReturns, AwaitsJob
  <1>2. UNCHANGED <<install, overlap, schema, schedules, job>>
    BY DEF JobReturns, rest
  <1>3. CASE job[a].state = "done"
    <2>1. PICK next : next = IF AdminAt(a, "making") THEN "fetch" ELSE "retain"
      OBVIOUS
    <2>2. next \in AdminPlaces /\ next \in {"fetch", "retain"} /\ Onward(a, next)
      BY <1>3, <2>1 DEF JobReturns, AdminPlaces
    <2>3. next = "retain" => TablesMade /\ admin[a].at = "script"
      BY <1>1, <1>3, <2>1 DEF Awaits, AdminAt
    <2>4. next = "fetch" => marker # "absent" /\ admin[a].at = "making"
      BY <1>1, <1>3, <2>1 DEF Awaits, AdminAt
    <2>5. ASSUME NEW r \in AdminType, r.at = next, r.seen = admin[a].seen,
                 r.existing = admin[a].existing, r.fresh = admin[a].fresh
          PROVE  KnowsAs(r)
      <3>1. CASE next = "fetch"
        BY <1>1, <2>4, <2>5, <3>1 DEF KnowsAs, Creating, Claiming
      <3>2. CASE next = "retain"
        BY <1>1, <2>3, <2>5, <3>2 DEF KnowsAs, Creating, Claiming
      <3> QED
        BY <2>2, <3>1, <3>2
    <2> QED
      BY <1>1, <1>2, <2>2, <2>5, InitWalksOn
  <1>4. CASE job[a].state # "done"
    BY <1>1, <1>2, <1>4, InitGivesUp DEF JobReturns
  <1> QED
    BY <1>3, <1>4

\* No table expires once the retention is set, for all of them are there.
LEMMA RetainKeeps ==
  ASSUME InstallInv, NEW a \in Admins, Retain(a)
  PROVE  InstallInv'
  <1>1. /\ InstallTypeOK /\ admin[a] \in AdminType /\ KnowsAs(admin[a]) /\ MakesAs(job[a])
        /\ admin[a].at = "retain"
    BY InstallHas DEF Retain, AdminAt
  <1>2. UNCHANGED <<install, overlap, schedules, made, locks, views, job>> /\ expiring' = {}
    BY DEF Retain, rest
  <1>3. TablesMade /\ install = "bigquery" /\ marker # "absent"
    BY <1>1 DEF KnowsAs, Creating, Claiming
  <1>4. overlap = "none" => locks' <= 1
    BY <1>2 DEF InstallInv, InTurns
  <1>5. CASE "marker" \in expiring
    <2>1. WritesMarker(a, marker, "views")
      BY <1>5 DEF Retain
    <2>2. PICK label \in MarkerLabels : label = marker
      BY <1>1 DEF InstallTypeOK
    <2>3. "views" \in AdminPlaces /\ WritesMarker(a, label, "views")
      BY <2>1, <2>2 DEF AdminPlaces
    <2>4. marker' = label /\ admin' \in [Admins -> AdminType]
      BY <1>1, <2>3, Labelled
    <2>5. PICK r \in AdminType :
            /\ r.at = "views" /\ r.seen = label /\ r.existing = admin[a].existing
            /\ \A b \in Admins : admin'[b] = IF b = a THEN r ELSE [admin[b] EXCEPT !.fresh = FALSE]
      BY <1>1, <2>3, Labelled
    <2>6. InstallTypeOK'
      BY <1>1, <1>2, <2>4 DEF InstallTypeOK
    <2>7. Grows
      BY <1>1, <1>2, <1>3, <2>2, <2>4 DEF Grows, InstallTypeOK
    <2>8. KnowsAs(r)'
      <3>1. TablesMade'
        BY <1>2, <1>3 DEF TablesMade
      <3> QED
        BY <1>1, <1>2, <1>3, <2>2, <2>4, <2>5, <3>1 DEF KnowsAs, Creating, Claiming
    <2> QED
      BY <1>1, <1>2, <1>4, <2>2, <2>4, <2>5, <2>6, <2>7, <2>8, InitWrites
  <1>6. CASE "marker" \notin expiring
    <2>1. Onward(a, "views") /\ UNCHANGED marker
      BY <1>6 DEF Retain
    <2>2. PICK r : r = [admin[a] EXCEPT !.at = "views"]
      OBVIOUS
    <2>3. /\ r \in AdminType /\ r.at = "views" /\ r.seen = admin[a].seen
          /\ r.existing = admin[a].existing /\ r.fresh = admin[a].fresh
      BY <1>1, <2>2 DEF AdminType, AdminPlaces
    <2>4. admin'[a] = r /\ \A b \in Admins \ {a} : job'[b] = job[b] /\ admin'[b] = admin[b]
      BY <1>1, <1>2, <2>1, <2>2 DEF Onward, InstallTypeOK
    <2>5. admin' \in [Admins -> AdminType]
      BY <1>1, <2>1, <2>2, <2>3 DEF Onward, InstallTypeOK
    <2>6. InstallTypeOK'
      BY <1>1, <1>2, <2>1, <2>5 DEF InstallTypeOK
    <2>7. Grows
      BY <1>1, <1>2, <1>3, <2>1 DEF Grows, InstallTypeOK
    <2>8. KnowsAs(r)'
      <3>1. TablesMade'
        BY <1>2, <1>3 DEF TablesMade
      <3> QED
        BY <1>1, <1>2, <1>3, <2>1, <2>3, <3>1 DEF KnowsAs, Creating, Claiming
    <2>9. KnowsAs(admin[a])'
      BY <2>4, <2>8
    <2>10. MakesAs(job[a])' /\ Awaits(admin[a], job[a])'
      BY <1>1, <1>2, <2>3, <2>4 DEF MakesAs, MakesTheRest, Awaits
    <2>11. overlap = "none" => OneEach(admin[a], job[a])'
      <3>1. overlap = "none" => OneEach(admin[a], job[a])
        BY InstallHas
      <3> QED
        BY <1>2, <2>3, <2>4, <3>1 DEF OneEach
    <2>12. Moving(a)
      BY <1>1 DEF Moving
    <2>13. /\ overlap = "none" => \A b \in Admins \ {a} : ~Moving(b)
           /\ overlap # "commands" => Alone(a)
      BY <1>1, <2>12, InstallHas
    <2> QED
      BY <2>1, <2>4, <2>6, <2>7, <2>9, <2>10, <2>11, <2>13, InstallSteps
  <1> QED
    BY <1>5, <1>6

\* The views are created.
LEMMA ViewsKeep ==
  ASSUME InstallInv, NEW a \in Admins, CreateViews(a)
  PROVE  InstallInv'
  <1>1. /\ InstallTypeOK /\ admin[a] \in AdminType /\ KnowsAs(admin[a]) /\ MakesAs(job[a])
        /\ admin[a].at = "views" /\ Onward(a, "reread")
    BY InstallHas DEF CreateViews, AdminAt
  <1>2. UNCHANGED <<install, overlap, schedules, marker, made, expiring, locks, job>> /\ views' = TRUE
    BY DEF CreateViews, rest
  <1>3. TablesMade /\ expiring = {} /\ install = "bigquery" /\ marker # "absent"
    BY <1>1 DEF KnowsAs, Creating, Claiming
  <1>4. PICK r : r = [admin[a] EXCEPT !.at = "reread"]
    OBVIOUS
  <1>5. /\ r \in AdminType /\ r.at = "reread" /\ r.seen = admin[a].seen
        /\ r.existing = admin[a].existing /\ r.fresh = admin[a].fresh
    BY <1>1, <1>4 DEF AdminType, AdminPlaces
  <1>6. admin'[a] = r /\ \A b \in Admins \ {a} : job'[b] = job[b] /\ admin'[b] = admin[b]
    BY <1>1, <1>2, <1>4 DEF Onward, InstallTypeOK
  <1>7. admin' \in [Admins -> AdminType] /\ views' \in BOOLEAN
    <2>1. views' \in BOOLEAN
      BY <1>2
    <2> QED
      BY <1>1, <1>4, <1>5, <2>1 DEF Onward, InstallTypeOK
  <1>8. InstallTypeOK'
    BY <1>1, <1>2, <1>7 DEF InstallTypeOK
  <1>9. Grows
    BY <1>1, <1>2, <1>3 DEF Grows, InstallTypeOK
  <1>10. KnowsAs(r)'
    <2>1. TablesMade'
      BY <1>2, <1>3 DEF TablesMade
    <2> QED
      BY <1>1, <1>2, <1>3, <1>5, <2>1 DEF KnowsAs, Creating, Claiming
  <1>11. KnowsAs(admin[a])'
    BY <1>6, <1>10
  <1>12. MakesAs(job[a])' /\ Awaits(admin[a], job[a])'
    BY <1>1, <1>2, <1>5, <1>6 DEF MakesAs, MakesTheRest, Awaits
  <1>13. overlap = "none" => OneEach(admin[a], job[a])'
    <2>1. overlap = "none" => OneEach(admin[a], job[a])
      BY InstallHas
    <2> QED
      BY <1>2, <1>5, <1>6, <2>1 DEF OneEach
  <1>14. Moving(a)
    BY <1>1 DEF Moving
  <1>15. /\ overlap = "none" => \A b \in Admins \ {a} : ~Moving(b)
         /\ overlap # "commands" => Alone(a)
    BY <1>1, <1>14, InstallHas
  <1>16. \A b \in Admins \ {a} :
           /\ job'[b] = job[b]
           /\ (admin'[b] = admin[b] /\ UNCHANGED marker) \/ admin'[b] = [admin[b] EXCEPT !.fresh = FALSE]
    BY <1>2, <1>6
  <1>17. /\ overlap # "commands" =>
              \/ Alone(a)
              \/ admin'[a].at = admin[a].at /\ (marker' = "ready" => marker = "ready")
         /\ marker' = "ready" => marker = "ready" \/ ReadyIsWhole'
    BY <1>2, <1>15
  <1>18. overlap = "none" => (\A b \in Admins \ {a} : ~Moving(b)) /\ OneEach(admin[a], job[a])'
    BY <1>13, <1>15
  <1> QED
    BY <1>8, <1>9, <1>11, <1>12, <1>16, <1>17, <1>18, InstallSteps

\* The marker is read again.
LEMMA RereadKeeps ==
  ASSUME InstallInv, NEW a \in Admins, Reread(a)
  PROVE  InstallInv'
  <1>1. InstallTypeOK /\ admin[a] \in AdminType /\ KnowsAs(admin[a]) /\ admin[a].at = "reread"
    BY InstallHas DEF Reread, AdminAt
  <1>2. PICK r : r = [admin[a] EXCEPT !.at = "finish", !.seen = marker, !.fresh = TRUE]
    OBVIOUS
  <1>3. marker \in MarkerLabels
    BY <1>1 DEF InstallTypeOK
  <1>4. r \in AdminType /\ r.at = "finish" /\ r.seen = marker /\ r.existing = admin[a].existing
    BY <1>1, <1>2, <1>3 DEF AdminType, AdminPlaces
  <1>5. KnowsAs(r)
    BY <1>1, <1>4 DEF KnowsAs, Creating, Claiming
  <1>6. admin' = [admin EXCEPT ![a] = r]
    BY <1>1, <1>2 DEF Reread, ReadsMarker, InstallTypeOK
  <1>7. UNCHANGED <<install, overlap, schema, schedules, job>>
    BY DEF Reread, rest
  <1>8. Moving(a)
    BY <1>1 DEF Moving
  <1>9. /\ overlap = "none" => \A b \in Admins \ {a} : ~Moving(b)
        /\ overlap # "commands" => Alone(a)
    BY <1>1, <1>8, InstallHas
  <1> QED
    BY <1>4, <1>5, <1>6, <1>7, <1>9, InitWalks

\* The schedules are listed.
LEMMA SchedulesListed ==
  ASSUME InstallInv, NEW a \in Admins, ListSchedules(a)
  PROVE  InstallInv'
  <1>1. InstallTypeOK /\ admin[a] \in AdminType /\ KnowsAs(admin[a]) /\ admin[a].at = "schedule"
    BY InstallHas DEF ListSchedules, AdminAt
  <1>2. UNCHANGED <<install, overlap, schema, schedules, job>>
    BY DEF ListSchedules, rest
  <1>3. CASE install = "direct" \/ schedules > 1
    BY <1>1, <1>2, <1>3, InitGivesUp DEF ListSchedules
  <1>4. CASE ~(install = "direct" \/ schedules > 1)
    <2>1. PICK p : p = (schedules = 1)
      OBVIOUS
    <2>2. p \in BOOLEAN
      BY <2>1
    <2>3. PICK r : r = [admin[a] EXCEPT !.at = "provision", !.provided = p]
      OBVIOUS
    <2>4. /\ r \in AdminType /\ r.at = "provision" /\ r.seen = admin[a].seen
          /\ r.existing = admin[a].existing /\ r.fresh = admin[a].fresh /\ r.provided = p
      BY <1>1, <2>2, <2>3 DEF AdminType, AdminPlaces
    <2>5. admin' = [admin EXCEPT ![a] = [admin[a] EXCEPT !.at = "provision", !.provided = schedules = 1]]
      BY <1>1, <1>4 DEF ListSchedules, InstallTypeOK
    <2>6. admin' = [admin EXCEPT ![a] = r]
      BY <2>1, <2>3, <2>5
    <2>7. KnowsAs(r)
      BY <1>1, <2>4 DEF KnowsAs, Creating, Claiming
    <2>8. ~r.provided => schedules # 1
      BY <2>1, <2>4
    <2>9. ~r.provided => schedules = 0
      BY <1>1, <1>4, <2>8 DEF InstallTypeOK
    <2>10. Moving(a)
      BY <1>1 DEF Moving
    <2>11. /\ overlap = "none" => \A b \in Admins \ {a} : ~Moving(b)
           /\ overlap # "commands" => Alone(a)
      BY <1>1, <2>10, InstallHas
    <2> QED
      BY <1>2, <2>4, <2>6, <2>7, <2>9, <2>11, InitWalks
  <1> QED
    BY <1>3, <1>4

\* A schedule is created where none was listed.
LEMMA ProvisionKeeps ==
  ASSUME InstallInv, NEW a \in Admins, Provision(a)
  PROVE  InstallInv'
  <1>1. /\ InstallTypeOK /\ admin[a] \in AdminType /\ KnowsAs(admin[a]) /\ MakesAs(job[a])
        /\ admin[a].at = "provision" /\ GivesUp(a)
    BY InstallHas DEF Provision, AdminAt
  <1>2. UNCHANGED <<install, overlap, marker, made, expiring, locks, views, job>>
    BY DEF Provision, schema
  <1>3. schedules' = IF admin[a].provided THEN schedules ELSE schedules + 1
    BY DEF Provision
  <1>4. PICK r : r = AtRest
    OBVIOUS
  <1>5. r \in AdminType /\ r.at = "idle" /\ ~r.fresh /\ r.existing = {}
    BY <1>4 DEF AtRest, AdminType, AdminPlaces, MarkerLabels
  <1>6. admin'[a] = r /\ \A b \in Admins \ {a} : job'[b] = job[b] /\ admin'[b] = admin[b]
    BY <1>1, <1>2, <1>4 DEF GivesUp, InstallTypeOK
  <1>7. admin' \in [Admins -> AdminType] /\ schedules' \in Nat
    BY <1>1, <1>3, <1>4, <1>5 DEF GivesUp, InstallTypeOK
  <1>8. InstallTypeOK'
    BY <1>1, <1>2, <1>7 DEF InstallTypeOK
  <1>9. Grows
    BY <1>1, <1>2 DEF Grows, InstallTypeOK, InstallInv
  <1>10. KnowsAs(admin[a])'
    BY <1>5, <1>6 DEF KnowsAs, Creating, Claiming
  <1>11. MakesAs(job[a])' /\ Awaits(admin[a], job[a])'
    BY <1>1, <1>2, <1>5, <1>6 DEF MakesAs, MakesTheRest, Awaits
  <1>12. overlap = "none" => OneEach(admin[a], job[a])'
    <2>1. overlap = "none" => OneEach(admin[a], job[a])
      BY InstallHas
    <2>2. overlap = "none" => schedules' <= 1
      BY <1>1, <1>3, <2>1 DEF OneEach, InstallTypeOK
    <2> QED
      BY <1>2, <1>5, <1>6, <2>1, <2>2 DEF OneEach
  <1>13. Moving(a)
    BY <1>1 DEF Moving
  <1>14. /\ overlap = "none" => \A b \in Admins \ {a} : ~Moving(b)
         /\ overlap # "commands" => Alone(a)
    BY <1>1, <1>13, InstallHas
  <1>16. \A b \in Admins \ {a} :
           /\ job'[b] = job[b]
           /\ (admin'[b] = admin[b] /\ UNCHANGED marker) \/ admin'[b] = [admin[b] EXCEPT !.fresh = FALSE]
    BY <1>2, <1>6
  <1>17. /\ overlap # "commands" =>
              \/ Alone(a)
              \/ admin'[a].at = admin[a].at /\ (marker' = "ready" => marker = "ready")
         /\ marker' = "ready" => marker = "ready" \/ ReadyIsWhole'
    BY <1>2, <1>14
  <1>18. overlap = "none" => (\A b \in Admins \ {a} : ~Moving(b)) /\ OneEach(admin[a], job[a])'
    BY <1>12, <1>14
  <1> QED
    BY <1>8, <1>9, <1>10, <1>11, <1>16, <1>17, <1>18, InstallSteps

\* A statement of a script ran: what is left is what was, but for that statement.
LEMMA ScriptRuns ==
  ASSUME InstallTypeOK, NEW a \in Admins, Ran(a), job[a].state = "running", job[a].todo # <<>>,
         job[a].todo \in Seq(Statements)
  PROVE  \E s \in ScriptType :
           /\ job' = [job EXCEPT ![a] = s] /\ s.inserts = FALSE /\ s.todo \in Seq(Statements)
           /\ s.state \in {"running", "done"}
           /\ s.state = "running" => /\ s.todo # <<>>
                                     /\ \A x : ToMake(job[a].todo, x) /\ x # Head(job[a].todo) => ToMake(s.todo, x)
           /\ s.state = "done" => \A x : ToMake(job[a].todo, x) => x = Head(job[a].todo)
  <1>1. PICK q : q = job[a].todo
    OBVIOUS
  <1>2. q \in Seq(Statements) /\ q # <<>> /\ Head(q) = q[1] /\ Len(q) >= 1 /\ job[a] \in ScriptType
    BY <1>1 DEF InstallTypeOK
  <1>3. /\ Tail(q) \in Seq(Statements) /\ Len(Tail(q)) = Len(q) - 1
        /\ \A i \in 1 .. Len(q) - 1 : Tail(q)[i] = q[i + 1]
    BY <1>2
  <1>11. Tail(q) \in Seq(Statements \cup {"marker"})
    BY <1>2
  <1>4. PICK s : s = [job[a] EXCEPT !.todo = Tail(q), !.inserts = FALSE,
                                    !.state = IF Len(q) = 1 THEN "done" ELSE job[a].state]
    OBVIOUS
  <1>5. /\ s \in ScriptType /\ s.todo = Tail(q) /\ s.inserts = FALSE
        /\ s.state = IF Len(q) = 1 THEN "done" ELSE "running"
    BY <1>2, <1>4, <1>11 DEF ScriptType
  <1>6. job' = [job EXCEPT ![a] = s]
    BY <1>1, <1>4 DEF Ran, InstallTypeOK, ScriptType
  <1>7. ASSUME NEW x, ToMake(q, x), x # Head(q)
        PROVE  Len(q) # 1 /\ ToMake(Tail(q), x)
    <2>1. PICK i \in 1 .. Len(q) : q[i] = x
      BY <1>7 DEF ToMake
    <2>2. i - 1 \in 1 .. Len(q) - 1 /\ (i - 1) + 1 = i
      BY <1>2, <1>7, <2>1
    <2>3. Tail(q)[i - 1] = x
      BY <1>3, <2>1, <2>2
    <2> QED
      BY <1>3, <2>2, <2>3 DEF ToMake
  <1>8. s.state = "running" =>
          s.todo # <<>> /\ \A x : ToMake(q, x) /\ x # Head(q) => ToMake(s.todo, x)
    <2>1. Len(q) # 1 => Len(Tail(q)) # 0
      BY <1>2, <1>3
    <2>2. Len(q) # 1 => Tail(q) # <<>>
      BY <2>1
    <2> QED
      BY <1>5, <1>7, <2>2
  <1>9. s.state = "done" => \A x : ToMake(q, x) => x = Head(q)
    BY <1>5, <1>7
  <1>10. s.state \in {"running", "done"}
    BY <1>5
  <1> QED
    BY <1>1, <1>3, <1>5, <1>6, <1>8, <1>9, <1>10

\* What a script that is running has still to make.
LEMMA RunningHas ==
  ASSUME InstallInv, NEW a \in Admins, job[a].state = "running", job[a].todo # <<"marker">>
  PROVE  /\ InstallTypeOK /\ install = "bigquery" /\ job[a].todo # <<>> /\ job[a].todo \in Seq(Statements)
         /\ \A t \in BaseTables : t \in made \/ ToMake(job[a].todo, t)
         /\ locks >= 1 \/ ToMake(job[a].todo, "lock")
         /\ job[a].inserts => Head(job[a].todo) = "lock"
         /\ overlap = "none" => locks <= 1 /\ (job[a].inserts => locks = 0)
  <1>1. InstallTypeOK /\ job[a] \in ScriptType /\ MakesAs(job[a]) /\ (overlap = "none" => OneEach(admin[a], job[a]))
    BY InstallHas
  <1> QED
    BY <1>1 DEF MakesAs, MakesTheRest, OneEach

\* A table is created, or the script fails on one that is there.
LEMMA TableKeeps ==
  ASSUME InstallInv, NEW a \in Admins, CreatesTable(a)
  PROVE  InstallInv'
  <1>0. job[a].state = "running" /\ job[a].todo # <<"marker">>
    <2>1. Head(<<"marker">>) = "marker" /\ "marker" \notin BaseTables
      BY DEF BaseTables
    <2> QED
      BY <2>1 DEF CreatesTable
  <1>1. /\ InstallTypeOK /\ install = "bigquery" /\ job[a].todo # <<>> /\ job[a].todo \in Seq(Statements)
        /\ \A t \in BaseTables : t \in made \/ ToMake(job[a].todo, t)
        /\ locks >= 1 \/ ToMake(job[a].todo, "lock")
        /\ overlap = "none" => locks <= 1
    BY <1>0, RunningHas
  <1>2. UNCHANGED <<install, overlap, schedules, marker, admin, locks, views>>
    BY DEF CreatesTable, rest
  <1>3. PICK t \in BaseTables :
          /\ t = Head(job[a].todo)
          /\ IF t \in made THEN job' = [job EXCEPT ![a].state = "failed"] /\ UNCHANGED <<made, expiring>>
             ELSE made' = made \cup {t} /\ expiring' = expiring \cup {t} /\ Ran(a)
    BY DEF CreatesTable
  <1>4. CASE t \in made
    <2>1. PICK s : s = [job[a] EXCEPT !.state = "failed"]
      OBVIOUS
    <2>2. s \in ScriptType /\ s.state = "failed"
      BY <1>1, <2>1 DEF InstallTypeOK, ScriptType
    <2>3. job' = [job EXCEPT ![a] = s] /\ UNCHANGED <<made, expiring>>
      BY <1>3, <1>4, <2>1
    <2>4. InstallTypeOK'
      BY <1>1, <1>2, <2>2, <2>3 DEF InstallTypeOK
    <2>5. Grows
      BY <1>1, <1>2, <2>3 DEF Grows, InstallTypeOK
    <2>6. MakesAs(s)'
      BY <2>2 DEF MakesAs, MakesTheRest
    <2>7. overlap = "none" => locks' <= 1 /\ (s.state = "running" /\ s.inserts => locks' = 0)
      BY <1>1, <1>2, <2>2
    <2> QED
      BY <1>0, <1>2, <2>2, <2>3, <2>4, <2>5, <2>6, <2>7, JobMoves
  <1>5. CASE t \notin made
    <2>1. made' = made \cup {t} /\ expiring' = expiring \cup {t} /\ Ran(a)
      BY <1>3, <1>5
    <2>2. PICK s \in ScriptType :
           /\ job' = [job EXCEPT ![a] = s] /\ s.inserts = FALSE /\ s.todo \in Seq(Statements)
           /\ s.state \in {"running", "done"}
           /\ s.state = "running" => /\ s.todo # <<>>
                                     /\ \A x : ToMake(job[a].todo, x) /\ x # Head(job[a].todo) => ToMake(s.todo, x)
           /\ s.state = "done" => \A x : ToMake(job[a].todo, x) => x = Head(job[a].todo)
      BY <1>0, <1>1, <2>1, ScriptRuns
    <2>3. InstallTypeOK'
      BY <1>1, <1>2, <2>1, <2>2 DEF InstallTypeOK
    <2>4. Grows
      BY <1>1, <1>2, <1>5, <2>1 DEF Grows, InstallTypeOK, TablesMade
    <2>5. t # "lock"
      BY DEF BaseTables
    <2>6. MakesAs(s)' /\ (s.state = "done" => TablesMade')
      <3>1. CASE s.state = "running"
        <4>1. \A u \in BaseTables : u \in made' \/ ToMake(s.todo, u)
          BY <1>1, <1>3, <2>1, <2>2, <3>1
        <4>2. locks' >= 1 \/ ToMake(s.todo, "lock")
          BY <1>1, <1>2, <1>3, <2>2, <2>5, <3>1
        <4> QED
          BY <1>1, <1>2, <2>2, <3>1, <4>1, <4>2 DEF MakesAs, MakesTheRest
      <3>2. CASE s.state = "done"
        <4>1. \A u \in BaseTables : u \in made'
          BY <1>1, <1>3, <2>1, <2>2, <3>2
        <4>2. made' = BaseTables
          BY <1>1, <2>1, <4>1 DEF InstallTypeOK
        <4>3. locks' >= 1
          BY <1>1, <1>2, <1>3, <2>2, <2>5, <3>2
        <4> QED
          BY <3>2, <4>2, <4>3 DEF MakesAs, TablesMade
      <3> QED
        BY <2>2, <3>1, <3>2
    <2>7. overlap = "none" => locks' <= 1 /\ (s.state = "running" /\ s.inserts => locks' = 0)
      BY <1>1, <1>2, <2>2
    <2> QED
      BY <1>0, <1>1, <1>2, <2>2, <2>3, <2>4, <2>6, <2>7, JobMoves
  <1> QED
    BY <1>4, <1>5

\* The control row is looked for.
LEMMA LockRead ==
  ASSUME InstallInv, NEW a \in Admins, ReadsLock(a)
  PROVE  InstallInv'
  <1>0. job[a].state = "running" /\ Head(job[a].todo) = "lock" /\ job[a].todo # <<"marker">>
    <2>1. Head(<<"marker">>) = "marker"
      OBVIOUS
    <2> QED
      BY <2>1 DEF ReadsLock
  <1>1. /\ InstallTypeOK /\ install = "bigquery" /\ job[a].todo # <<>> /\ job[a].todo \in Seq(Statements)
        /\ \A t \in BaseTables : t \in made \/ ToMake(job[a].todo, t)
        /\ locks >= 1 \/ ToMake(job[a].todo, "lock")
        /\ overlap = "none" => locks <= 1
    BY <1>0, RunningHas
  <1>2. UNCHANGED <<install, overlap, schedules, marker, admin, made, expiring, locks, views>>
    BY DEF ReadsLock, rest
  <1>3. Grows
    BY <1>1, <1>2 DEF Grows, InstallTypeOK, InstallInv
  <1>4. CASE locks = 0
    <2>1. PICK s : s = [job[a] EXCEPT !.inserts = TRUE]
      OBVIOUS
    <2>2. s \in ScriptType /\ s.state = "running" /\ s.todo = job[a].todo
      BY <1>0, <1>1, <2>1 DEF InstallTypeOK, ScriptType
    <2>3. job' = [job EXCEPT ![a] = s]
      BY <1>4, <2>1 DEF ReadsLock, InsertsRow
    <2>4. InstallTypeOK'
      BY <1>1, <1>2, <2>2, <2>3 DEF InstallTypeOK
    <2>5. MakesAs(s)'
      BY <1>0, <1>1, <1>2, <2>2 DEF MakesAs, MakesTheRest
    <2>6. overlap = "none" => locks' <= 1 /\ (s.state = "running" /\ s.inserts => locks' = 0)
      BY <1>1, <1>2, <1>4
    <2> QED
      BY <1>0, <1>1, <1>2, <1>3, <2>2, <2>3, <2>4, <2>5, <2>6, JobMoves
  <1>5. CASE locks # 0
    <2>1. Ran(a) /\ locks >= 1
      BY <1>1, <1>5 DEF ReadsLock, InsertsRow, InstallTypeOK
    <2>2. PICK s \in ScriptType :
           /\ job' = [job EXCEPT ![a] = s] /\ s.inserts = FALSE /\ s.todo \in Seq(Statements)
           /\ s.state \in {"running", "done"}
           /\ s.state = "running" => /\ s.todo # <<>>
                                     /\ \A x : ToMake(job[a].todo, x) /\ x # Head(job[a].todo) => ToMake(s.todo, x)
           /\ s.state = "done" => \A x : ToMake(job[a].todo, x) => x = Head(job[a].todo)
      BY <1>0, <1>1, <2>1, ScriptRuns
    <2>3. InstallTypeOK'
      BY <1>1, <1>2, <2>2 DEF InstallTypeOK
    <2>4. \A t \in BaseTables : t # "lock"
      BY DEF BaseTables
    <2>5. MakesAs(s)' /\ (s.state = "done" => TablesMade')
      <3>1. CASE s.state = "running"
        <4>1. \A u \in BaseTables : u \in made \/ ToMake(s.todo, u)
          BY <1>0, <1>1, <2>2, <2>4, <3>1
        <4> QED
          BY <1>1, <1>2, <2>1, <2>2, <3>1, <4>1 DEF MakesAs, MakesTheRest
      <3>2. CASE s.state = "done"
        <4>1. \A u \in BaseTables : u \in made
          BY <1>0, <1>1, <2>2, <2>4, <3>2
        <4>2. made = BaseTables
          BY <1>1, <4>1 DEF InstallTypeOK
        <4> QED
          BY <1>2, <2>1, <3>2, <4>2 DEF MakesAs, TablesMade
      <3> QED
        BY <2>2, <3>1, <3>2
    <2>6. overlap = "none" => locks' <= 1 /\ (s.state = "running" /\ s.inserts => locks' = 0)
      BY <1>1, <1>2, <2>2
    <2> QED
      BY <1>0, <1>1, <1>2, <1>3, <2>2, <2>3, <2>5, <2>6, JobMoves
  <1> QED
    BY <1>4, <1>5

\* The control row is written by who found none.
LEMMA LockWritten ==
  ASSUME InstallInv, NEW a \in Admins, WritesLock(a)
  PROVE  InstallInv'
  <1>0. job[a].state = "running" /\ job[a].inserts /\ job[a].todo # <<"marker">>
    <2>1. job[a].state = "running" /\ job[a].inserts
      BY DEF WritesLock
    <2>2. MakesAs(job[a])
      BY InstallHas
    <2>3. Head(<<"marker">>) = "marker"
      OBVIOUS
    <2> QED
      BY <2>1, <2>2, <2>3 DEF MakesAs, MakesTheRest
  <1>1. /\ InstallTypeOK /\ install = "bigquery" /\ job[a].todo # <<>> /\ job[a].todo \in Seq(Statements) /\ Head(job[a].todo) = "lock"
        /\ \A t \in BaseTables : t \in made \/ ToMake(job[a].todo, t)
        /\ overlap = "none" => locks = 0
    BY <1>0, RunningHas
  <1>2. /\ UNCHANGED <<install, overlap, schedules, marker, admin, made, expiring, views>>
        /\ locks' = locks + 1 /\ Ran(a)
    BY DEF WritesLock, rest
  <1>3. PICK s \in ScriptType :
           /\ job' = [job EXCEPT ![a] = s] /\ s.inserts = FALSE /\ s.todo \in Seq(Statements)
           /\ s.state \in {"running", "done"}
           /\ s.state = "running" => /\ s.todo # <<>>
                                     /\ \A x : ToMake(job[a].todo, x) /\ x # Head(job[a].todo) => ToMake(s.todo, x)
           /\ s.state = "done" => \A x : ToMake(job[a].todo, x) => x = Head(job[a].todo)
    BY <1>0, <1>1, <1>2, ScriptRuns
  <1>4. locks' \in Nat /\ locks <= locks' /\ locks' >= 1
    BY <1>1, <1>2 DEF InstallTypeOK
  <1>5. InstallTypeOK'
    BY <1>1, <1>2, <1>3, <1>4 DEF InstallTypeOK
  <1>6. Grows
    BY <1>1, <1>2, <1>4 DEF Grows, InstallTypeOK
  <1>7. \A t \in BaseTables : t # "lock"
    BY DEF BaseTables
  <1>8. MakesAs(s)' /\ (s.state = "done" => TablesMade')
    <2>1. CASE s.state = "running"
      <3>1. \A u \in BaseTables : u \in made \/ ToMake(s.todo, u)
        BY <1>1, <1>3, <1>7, <2>1
      <3> QED
        BY <1>1, <1>2, <1>3, <1>4, <2>1, <3>1 DEF MakesAs, MakesTheRest
    <2>2. CASE s.state = "done"
      <3>1. \A u \in BaseTables : u \in made
        BY <1>1, <1>3, <1>7, <2>2
      <3>2. made = BaseTables
        BY <1>1, <3>1 DEF InstallTypeOK
      <3> QED
        BY <1>2, <1>4, <2>2, <3>2 DEF MakesAs, TablesMade
    <2> QED
      BY <1>3, <2>1, <2>2
  <1>9. overlap = "none" => locks' <= 1 /\ (s.state = "running" /\ s.inserts => locks' = 0)
    BY <1>1, <1>2, <1>3
  <1> QED
    BY <1>0, <1>1, <1>2, <1>3, <1>5, <1>6, <1>8, <1>9, JobMoves

\* A job that fails leaves what it made.
LEMMA StopKeeps ==
  ASSUME InstallInv, NEW a \in Admins, JobStops(a)
  PROVE  InstallInv'
  <1>0. job[a].state = "running" /\ job' = [job EXCEPT ![a].state = "failed"]
    BY DEF JobStops
  <1>1. InstallTypeOK /\ (overlap = "none" => locks <= 1)
    BY <1>0, InstallHas DEF OneEach
  <1>2. UNCHANGED <<install, overlap, schedules, marker, admin, made, expiring, locks, views>>
    BY DEF JobStops, schema
  <1>3. PICK s : s = [job[a] EXCEPT !.state = "failed"]
    OBVIOUS
  <1>4. s \in ScriptType /\ s.state = "failed"
    BY <1>1, <1>3 DEF InstallTypeOK, ScriptType
  <1>5. job' = [job EXCEPT ![a] = s]
    BY <1>0, <1>3
  <1>6. InstallTypeOK'
    BY <1>1, <1>2, <1>4, <1>5 DEF InstallTypeOK
  <1>7. Grows
    BY <1>1, <1>2 DEF Grows, InstallTypeOK, InstallInv
  <1>8. MakesAs(s)'
    BY <1>4 DEF MakesAs
  <1>9. overlap = "none" => locks' <= 1 /\ (s.state = "running" /\ s.inserts => locks' = 0)
    BY <1>1, <1>2, <1>4
  <1> QED
    BY <1>0, <1>2, <1>4, <1>5, <1>6, <1>7, <1>8, <1>9, JobMoves

\* An init that fails, or no longer waits for its job, leaves what there is.
LEMMA FailKeeps ==
  ASSUME InstallInv, NEW a \in Admins, InitFails(a) \/ JobTimesOut(a)
  PROVE  InstallInv'
  <1>1. admin[a].at # "idle" /\ GivesUp(a) /\ UNCHANGED <<install, overlap, schema, schedules, job>>
    BY DEF InitFails, JobTimesOut, AwaitsJob, AdminAt
  <1> QED
    BY <1>1, InitGivesUp

\* At first there is nothing.
LEMMA InstallStarts == InstallInit => InstallInv
  <1>1. SUFFICES ASSUME InstallInit PROVE InstallInv
    OBVIOUS
  <1>2. install \in {"bigquery", "direct"} /\ overlap \in {"none", "jobs", "commands"}
    BY <1>1, InstallationAssumption DEF InstallInit
  <1>3. /\ AtRest \in AdminType /\ AtRest.at = "idle" /\ ~AtRest.fresh /\ AtRest.existing = {}
        /\ NoScript \in ScriptType /\ NoScript.state = "none"
    <2>1. <<>> \in Seq(Statements)
      OBVIOUS
    <2> QED
      BY <2>1 DEF AtRest, NoScript, AdminType, ScriptType, AdminPlaces, MarkerLabels
  <1>4. \A a \in Admins : admin[a] = AtRest /\ job[a] = NoScript
    BY <1>1 DEF InstallInit
  <1>5. admin \in [Admins -> AdminType] /\ job \in [Admins -> ScriptType]
    BY <1>1, <1>3 DEF InstallInit
  <1>6. marker = "absent" /\ made = {} /\ expiring = {} /\ locks = 0 /\ schedules = 0
    BY <1>1 DEF InstallInit
  <1>7. views \in BOOLEAN
    BY <1>1 DEF InstallInit
  <1>8. InstallTypeOK
    BY <1>2, <1>5, <1>6, <1>7 DEF InstallTypeOK, MarkerLabels
  <1>9. (\A a \in Admins : KnowsAs(admin[a]) /\ MakesAs(job[a]) /\ Awaits(admin[a], job[a])) /\ OneCommand
    BY <1>3, <1>4 DEF KnowsAs, MakesAs, Awaits, OneCommand, Creating, Claiming
  <1>10. InTurns
    BY <1>3, <1>4, <1>6 DEF InTurns, Moving, OneEach
  <1>11. ReadyIsWhole
    BY <1>6 DEF ReadyIsWhole, Opens
  <1> QED
    BY <1>6, <1>8, <1>9, <1>10, <1>11 DEF InstallInv

\* Every step of an init and of its jobs keeps the account.
LEMMA InstallKeeps ==
  ASSUME InstallInv, [InstallNext]_ivars
  PROVE  InstallInv'
  <1>1. ASSUME NEW a \in Admins, BeginInit(a) PROVE InstallInv'
    BY <1>1, BeginKeeps
  <1>2. ASSUME NEW a \in Admins, InitProceeds(a) PROVE InstallInv'
    <2>1. ASSUME ReadMarker(a) \/ Install(a) \/ ListTables(a) \/ SubmitMarker(a) \/ FetchMarker(a) \/ Claim(a)
          PROVE  InstallInv'
      BY <2>1, ReadKeeps, DirectKeeps, ListKeeps, MarkerSubmitted, FetchKeeps, ClaimKeeps
    <2>2. ASSUME SubmitScript(a) \/ JobReturns(a) \/ Retain(a) \/ CreateViews(a) \/ Reread(a) \/ Finish(a)
          PROVE  InstallInv'
      BY <2>2, SubmitKeeps, ReturnKeeps, RetainKeeps, ViewsKeep, RereadKeeps, FinishKeeps
    <2>3. ASSUME ListSchedules(a) \/ Provision(a) PROVE InstallInv'
      BY <2>3, SchedulesListed, ProvisionKeeps
    <2> QED
      BY <1>2, <2>1, <2>2, <2>3 DEF InitProceeds
  <1>3. ASSUME NEW a \in Admins, InitFails(a) \/ JobTimesOut(a) PROVE InstallInv'
    BY <1>3, FailKeeps
  <1>4. ASSUME NEW a \in Admins, Script(a) \/ JobStops(a) PROVE InstallInv'
    BY <1>4, MarkerKeeps, TableKeeps, LockRead, LockWritten, StopKeeps DEF Script
  <1>5. ASSUME UNCHANGED ivars PROVE InstallInv'
    <2>1. UNCHANGED <<install, overlap, marker, made, expiring, locks, views, schedules, admin, job>>
      BY <1>5 DEF ivars, schema
    <2>2. InstallTypeOK'
      BY <2>1 DEF InstallInv, InstallTypeOK
    <2>3. (\A a \in Admins : KnowsAs(admin[a]) /\ MakesAs(job[a]) /\ Awaits(admin[a], job[a]))' /\ OneCommand'
      BY <2>1 DEF InstallInv, KnowsAs, MakesAs, MakesTheRest, Awaits, TablesMade, OneCommand, Alone
    <2>4. ReadyIsWhole' /\ (install = "direct" => expiring = {} /\ locks <= 1)'
      BY <2>1 DEF InstallInv, ReadyIsWhole, Opens
    <2>5. InTurns'
      BY <2>1 DEF InstallInv, InTurns, Moving, OneEach
    <2> QED
      BY <2>2, <2>3, <2>4, <2>5 DEF InstallInv
  <1> QED
    BY <1>1, <1>2, <1>3, <1>4, <1>5 DEF InstallNext

\* Who takes a label back has seen it, and sees it still: it has read back the marker it made.
LEMMA ReadyKeeps ==
  ASSUME InstallInv, [InstallNext]_ivars, Opens, ~Opens'
  PROVE  /\ overlap = "commands"
         /\ \E a \in Admins : AdminAt(a, "claim") /\ admin[a].seen = "ready" /\ admin[a].fresh
  <1>1. marker = "ready" /\ marker' # "ready"
    BY DEF Opens
  <1>2. PICK a \in Admins : Install(a) \/ Claim(a) \/ Retain(a) \/ Finish(a) \/ CreatesMarker(a)
    <2>1. ~UNCHANGED ivars /\ ~UNCHANGED schema
      BY <1>1 DEF ivars, schema
    <2>2. \A a \in Admins : ~BeginInit(a) /\ ~ReadMarker(a) /\ ~ListTables(a) /\ ~SubmitMarker(a)
      BY <2>1 DEF BeginInit, ReadMarker, ListTables, SubmitMarker
    <2>3. \A a \in Admins : ~FetchMarker(a) /\ ~SubmitScript(a)
      BY <2>1 DEF FetchMarker, SubmitScript
    <2>4. \A a \in Admins : ~JobReturns(a) /\ ~Reread(a) /\ ~ListSchedules(a) /\ ~Provision(a)
      BY <2>1 DEF JobReturns, Reread, ListSchedules, Provision
    <2>5. \A a \in Admins : ~InitFails(a) /\ ~JobTimesOut(a) /\ ~JobStops(a)
      BY <2>1 DEF InitFails, JobTimesOut, JobStops
    <2>6. \A a \in Admins : ~CreateViews(a) /\ ~CreatesTable(a) /\ ~ReadsLock(a) /\ ~WritesLock(a)
      BY <1>1 DEF CreateViews, CreatesTable, ReadsLock, WritesLock
    <2>7. PICK a \in Admins :
            \/ BeginInit(a) \/ InitProceeds(a) \/ JobTimesOut(a) \/ InitFails(a)
            \/ Script(a) \/ JobStops(a)
      BY <2>1 DEF InstallNext
    <2> QED
      BY <2>2, <2>3, <2>4, <2>5, <2>6, <2>7 DEF InitProceeds, Script
  <1>3. KnowsAs(admin[a])
    BY InstallHas
  <1>4. CASE Install(a)
    BY <1>1, <1>4 DEF Install, schema
  <1>5. CASE CreatesMarker(a)
    BY <1>1, <1>5 DEF CreatesMarker
  <1>6. CASE Retain(a)
    BY <1>1, <1>6 DEF Retain, WritesMarker
  <1>7. CASE Finish(a)
    BY <1>1, <1>7 DEF Finish, Labels, WritesMarker
  <1>8. CASE Claim(a)
    <2>1. AdminAt(a, "claim") /\ admin[a].fresh
      BY <1>1, <1>8 DEF Claim, Labels
    <2>2. admin[a].seen = "ready" /\ overlap = "commands"
      BY <1>1, <1>3, <2>1 DEF KnowsAs, AdminAt
    <2> QED
      BY <2>1, <2>2
  <1> QED
    BY <1>2, <1>4, <1>5, <1>6, <1>7, <1>8

\* apply_ddl(), install_compaction(): for any number of inits, however they overlap and wherever
\* they are cut off, what passes preflight is whole; it is taken back by an overlapping init only
\* that reads back the marker it made; if inits take turns, there is one control row and one
\* schedule.
THEOREM InitIsSafe == InstallInit /\ [][InstallNext]_ivars => InitHolds
  <1>1. InstallInv => ReadyIsWhole /\ OneOfEachInTurn
    BY DEF InstallInv, InTurns, OneOfEachInTurn, OneOfEach
  <1>2. InstallInv /\ [InstallNext]_ivars =>
          InstallInv'
          /\ [Opens /\ ~Opens' =>
                /\ overlap = "commands"
                /\ \E a \in Admins : AdminAt(a, "claim") /\ admin[a].seen = "ready" /\ admin[a].fresh]_ivars
    BY InstallKeeps, ReadyKeeps
  <1> QED
    BY <1>1, <1>2, InstallStarts, PTL DEF InitHolds, ReadyStands

-----------------------------------------------------------------------------
(* The parts together: a behaviour of MCHost is one of each of its parts.  *)

\* What is promised by the parts on a host holds among the other parts.
THEOREM HostIsSafe == HostSpec => [](ReturnsWhole /\ RestoresOnce /\ SettingsHold /\ ExchangesApart)
  <1>1. HostInit => CaptureInit /\ RestoreInit /\ SettingsInit /\ SupervisedInit
    BY DEF HostInit
  <1>2. [HostNext]_hostvars =>
          [CaptureNext]_kvars /\ [RestoreNext]_rvars /\ [SettingsNext]_tvars /\ [SupervisedNext]_svars
    BY DEF HostNext, hostvars
  <1> QED
    BY <1>1, <1>2, CaptureAlways, RestoreAlways, SettingsAlways, SupervisedAlways, PTL DEF HostSpec

\* So does what the worker promises.
THEOREM HostWorkersAreFound == HostSpec => []WorkerRecorded
  <1>1. HostInit => WorkerInit
    BY DEF HostInit
  <1>2. [HostNext]_hostvars => [WorkerNext]_wvars
    BY DEF HostNext, hostvars
  <1> QED
    BY <1>1, <1>2, WorkerAlways, PTL DEF HostSpec

\* So do the deadlines: no operation on this host waits past the budgets that bind it.
THEOREM DeadlinesAreKept == HostSpec => DeadlinesHold
  <1>1. HostInit => BudgetsInit /\ SupervisedInit
    BY DEF HostInit
  <1>2. [HostNext]_hostvars => [BudgetsNext]_zvars /\ [SupervisedNext]_svars
    BY DEF HostNext, hostvars
  <1>3. HostSpec => BudgetsSpec
    BY <1>1, <1>2, PTL DEF HostSpec, BudgetsSpec
  <1>4. HostSpec => [](WaitsWithinBudget /\ OneAllowance) /\ LeavesInTime
    BY <1>3, BudgetsHold
  <1>5. HostSpec => []ExchangesApart
    BY <1>1, <1>2, SupervisedAlways, PTL DEF HostSpec
  <1> QED
    BY <1>4, <1>5 DEF DeadlinesHold

\* So do the schedules: a command of theirs that returns has done its work.
THEOREM SchedulesAreSafe == HostSpec => SchedulesHeal
  <1>1. HostInit => ScheduleInit
    BY DEF HostInit
  <1>2. [HostNext]_hostvars => [ScheduleNext]_nvars
    BY DEF HostNext, hostvars
  <1>3. HostSpec => ScheduleSpec
    BY <1>1, <1>2, PTL DEF HostSpec, ScheduleSpec
  <1> QED
    BY <1>3, SchedulesAreHealed

\* So do the inits, whatever they overlap with.
THEOREM InitsAreSafe == HostSpec => InitHolds
  <1>1. HostInit => InstallInit
    BY DEF HostInit
  <1>2. [HostNext]_hostvars => [InstallNext]_ivars
    BY DEF HostNext, hostvars
  <1> QED
    BY <1>1, <1>2, InitIsSafe, PTL DEF HostSpec
=============================================================================
