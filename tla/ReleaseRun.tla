------------------------------ MODULE ReleaseRun ------------------------------
(***************************************************************************)
(* release/run.py on one host: which containers it starts and restarts.    *)
(* A host has its own clone of the repository and its own docker daemon,   *)
(* and no step reads the other host's, so the module is one host; the      *)
(* report it reads covers every host of the platform.                      *)
(*                                                                         *)
(* A profile is the selection a server runs with.  Its settings that are   *)
(* compared alike (limits, memory, vocabulary, layout) are one field.      *)
(* A report is named by its content, as its hash names it.  Containers are *)
(* also made by the development launchers, which check nothing, and die.   *)
(***************************************************************************)
EXTENDS Naturals, FiniteSets

CONSTANTS
  Platform,     \* "rtx" or "spark"
  Images,       \* image digests
  Labelled,     \* those with the verified parser label
  Profiles,     \* profiles a container or a settings file may have
  Reports,      \* what the qualification report may contain
  SettingsFiles \* what settings.json may contain for the platform

\* A profile's fields that are compared alike, and all of them.
Compared == {"common", "native", "parser", "attention", "fraction", "partition",
             "packed", "fused", "pcie", "exact", "roce", "mtp"}
IsProfile(p) ==
  /\ DOMAIN p = Compared \cup {"exactRows", "eager", "roceRows"}
  /\ p = [field \in DOMAIN p |-> p[field]]
  /\ {p.exact, p.roce, p.eager} \subseteq BOOLEAN

RunAssumption ==
  /\ Platform \in {"rtx", "spark"} /\ Labelled \subseteq Images
  /\ \A s \in SettingsFiles : s.report \in Reports /\ s.report.measured /\ IsProfile(s.profile)
  /\ \A r \in Reports : \A h \in DOMAIN r.profiles : IsProfile(r.profiles[h])
  /\ \A p \in Profiles : IsProfile(p)

VARIABLES
  settings,  \* settings.json
  report,    \* the file at the report's path
  pulled,    \* images docker has
  container, \* [image, profile, flags, state, by]
  restarting \* a restart that has inspected and not yet restarted: "no", or what
             \* became of the container it saw, "inspected" or "replaced"

vars == <<settings, report, pulled, container, restarting>>

Absent == [image |-> "none", profile |-> "none", flags |-> "none",
           state |-> "absent", by |-> "none"]

Init ==
  /\ settings \in SettingsFiles /\ report \in Reports
  /\ pulled = {} /\ container = Absent /\ restarting = "no"

-----------------------------------------------------------------------------
(* What settings(), validate_report() and validate_existing_container() check. *)

\* allocator_environment: a fraction of the memory is for Spark alone.
AllocatorAllowed(p) == p.fraction # "none" => Platform = "spark"

\* Options that need another, or the other platform.
WellFormed(p) ==
  /\ p.parser = "dots3"
  /\ AllocatorAllowed(p)
  /\ p.packed => p.partition # "none"
  /\ p.fused => p.packed
  /\ p.pcie => Platform = "rtx"
  /\ p.roce => Platform = "spark"

\* parse_rows: a selection of rows lists single rows and ranges <<low, high>>.
ParsedRows(text) == UNION {text[i][1] .. text[i][2] : i \in DOMAIN text}

\* A server's profile is a configured one, its inactive rows aside.  Without
\* speculation it has no speculative_config to be read.
SameProfile(p, c) ==
  /\ \A field \in Compared : p[field] = c[field]
  /\ p.mtp # 0
  /\ c.exact => ParsedRows(p.exactRows) = ParsedRows(c.exactRows)
  /\ c.roce => p.eager = c.eager /\ ParsedRows(p.roceRows) = ParsedRows(c.roceRows)

\* The hosts a report covers are counted; nothing looks at their names.
HostCount == IF Platform = "rtx" THEN 1 ELSE 2

ValidReport(r, s) ==
  /\ r.completed /\ r.image = s.image
  /\ Cardinality(DOMAIN r.profiles) = HostCount
  /\ \A h \in DOMAIN r.profiles : SameProfile(r.profiles[h], s.profile)

\* A native-context or hybrid profile needs the whole second tool suite.
ValidTools(r, s) ==
  s.profile.native \/ s.profile.partition # "none" => r.tools = "complete"

Accepted(s) ==
  /\ s.status = "qualified"
  /\ WellFormed(s.profile)
  /\ Platform = "spark" => s.guard
  /\ report = s.report
  /\ ValidReport(report, s) /\ ValidTools(report, s)

\* Mutant: the image is not compared.
ProfileMatches(k, s) == SameProfile(k.profile, s.profile) /\ k.flags # "repeated"

\* One value for each compared flag; flags it does not name are not looked at.
ContainerMatches(k, s) ==
  /\ k.image = s.image
  /\ SameProfile(k.profile, s.profile)
  /\ k.flags # "repeated"

-----------------------------------------------------------------------------
(* The operator and the development launchers.                             *)

EditSettings(s) == settings' = s /\ UNCHANGED <<report, pulled, container, restarting>>

\* A checkout, a new report or an edit changes the file.
EditReport(r) == report' = r /\ UNCHANGED <<settings, pulled, container, restarting>>

PullAny(i) == pulled' = pulled \cup {i} /\ UNCHANGED <<settings, report, container, restarting>>

\* The extra arguments: none, one that repeats a compared flag, another.
Extras == {"none", "repeated", "other"}

Create(i, p, flags, by) ==
  /\ container.state = "absent" /\ i \in pulled
  /\ container' = [image |-> i, profile |-> p, flags |-> flags, state |-> "running", by |-> by]
  /\ UNCHANGED <<settings, report, pulled, restarting>>

StartDevelopment(i, p) == \E flags \in Extras : Create(i, p, flags, "development")

\* docker start, docker rm (which refuses a running container), or its end.
DockerStart ==
  /\ container.state = "stopped"
  /\ container' = [container EXCEPT !.state = "running", !.by = "development"]
  /\ UNCHANGED <<settings, report, pulled, restarting>>

DockerRemove ==
  /\ container.state = "stopped"
  /\ container' = Absent
  /\ restarting' = IF restarting = "inspected" THEN "replaced" ELSE restarting
  /\ UNCHANGED <<settings, report, pulled>>

Ends ==
  /\ container.state = "running"
  /\ container' = [container EXCEPT !.state = "stopped"]
  /\ UNCHANGED <<settings, report, pulled, restarting>>

-----------------------------------------------------------------------------
(* run.py: every action reads the settings first.  A restart inspects and  *)
(* validates the container of that name, and then restarts by name; between *)
(* the two another command may have replaced it.                           *)

Pull == Accepted(settings) /\ PullAny(settings.image)

\* headroom: enough physical memory is available now (Spark).
MayRun(headroom) ==
  /\ Accepted(settings)
  /\ Platform = "spark" => headroom
  /\ settings.image \in pulled \cap Labelled

\* Parser and attention flags among the extra arguments are refused.
Start(flags, headroom) ==
  /\ MayRun(headroom)
  /\ Create(settings.image, settings.profile, flags, "start")

\* docker inspect by name, and what is seen compared; absent, it fails.
Inspect(headroom) ==
  /\ restarting = "no" /\ MayRun(headroom)
  /\ container.state # "absent" /\ ContainerMatches(container, settings)
  /\ restarting' = "inspected"
  /\ UNCHANGED <<settings, report, pulled, container>>

\* docker restart by name: whatever container has it now.
Restart ==
  /\ restarting # "no" /\ container.state # "absent"
  /\ container' = [container EXCEPT !.state = "running",
                     !.by = IF restarting = "inspected" THEN "restart" ELSE "unseen"]
  /\ restarting' = "no"
  /\ UNCHANGED <<settings, report, pulled>>

\* Without one, or on an error, the restart fails; on Spark that kills, by name.
RestartFails ==
  /\ restarting # "no"
  /\ \/ UNCHANGED container
     \/ /\ Platform = "spark" /\ container.state # "absent"
        /\ container' = [container EXCEPT !.state = "stopped"]
  /\ restarting' = "no"
  /\ UNCHANGED <<settings, report, pulled>>

Stop ==
  /\ Accepted(settings) /\ container.state # "absent"
  /\ container' = [container EXCEPT !.state = "stopped"]
  /\ UNCHANGED <<settings, report, pulled, restarting>>

Remove == Accepted(settings) /\ DockerRemove

Next ==
  \/ \E s \in SettingsFiles : EditSettings(s)
  \/ \E r \in Reports : EditReport(r)
  \/ \E i \in Images : PullAny(i) \/ \E p \in Profiles : StartDevelopment(i, p)
  \/ DockerStart \/ DockerRemove \/ Ends \/ Pull \/ Stop \/ Remove \/ Restart \/ RestartFails
  \/ \E headroom \in BOOLEAN : Inspect(headroom) \/ \E flags \in Extras : Start(flags, headroom)

Spec == Init /\ [][Next]_vars

-----------------------------------------------------------------------------

\* What a server does with a profile.
Effective(p) ==
  [p EXCEPT !.exactRows = IF p.exact THEN ParsedRows(@) ELSE {},
            !.eager = p.roce /\ @,
            !.roceRows = IF p.roce THEN ParsedRows(@) ELSE {}]

Vouches(r, i, p) ==
  /\ r.measured /\ r.completed /\ r.image = i
  /\ Cardinality(DOMAIN r.profiles) = HostCount
  /\ \A h \in DOMAIN r.profiles : Effective(r.profiles[h]) = Effective(p)
  /\ p.native \/ p.partition # "none" => r.tools = "complete"

\* A running server's image and profile are those of a measured, complete report
\* of as many hosts as the platform has.
Qualified == \E r \in Reports : Vouches(r, container.image, container.profile)

\* What run.py starts without extra arguments (main), and what it restarts when
\* the container is the one it inspected (validate_existing_container) and has no
\* flags outside its comparison, is qualified, whoever made the container and
\* whatever became of the settings and the report since.
ServedIsQualified ==
  container.state = "running" /\ container.flags # "other" =>
    /\ container.by = "restart" => container.flags = "none"
    /\ container.by \in {"start", "restart"} /\ container.flags = "none" => Qualified

\* "restart uses its original settings and verifies its image, checkpoint, parser,
\* memory/context limits, fixed MTP and active B12x settings against the qualified
\* profile" (release/README.md:265): whatever a restart has restarted, flags
\* outside its comparison aside, is qualified.  Not so: README.md, 4.1.
RestartedIsQualified ==
  container.state = "running" /\ container.by \in {"restart", "unseen"} =>
    container.flags = "other" \/ (container.flags = "none" /\ Qualified)
=============================================================================
