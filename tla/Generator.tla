----------------------------- MODULE Generator -----------------------------
(***************************************************************************)
(* The code generator.  hexa make:feature renders a module into a project, *)
(* adds to arch-go.yml the rule that seals it, then builds and tests the   *)
(* whole; hexa new copies the tracked files of the starter under another   *)
(* module path, looks for what is left of the old one, and builds.  Both   *)
(* write file by file and undo nothing, and commands may overlap.          *)
(***************************************************************************)
EXTENDS Naturals, FiniteSets

CONSTANTS
  Features,   \* the modules asked for, one command each
  Templates,  \* the files of a module
  Demo        \* the module the project comes with

VARIABLES
  feature,  \* a command make:feature: where it is
  anchor,   \* what its plan read of arch-go.yml
  rendered, \* the files of each module
  rules,    \* arch-go.yml: the modules a rule seals
  project,  \* the command new: where it is
  starter,  \* the tracked files of the starter: name -> kind
  target,   \* the module path asked for
  copied,   \* the destination: file -> the module path its content cites
  git       \* whether the repository was initialised

\* History: the commands that wrote arch-go.yml, and whether the last write was
\* cut short.
VARIABLES wrote, cut

featureVars == <<feature, anchor, rendered, rules, wrote, cut>>
projectVars == <<project, starter, target, copied, git>>

FeatureInit ==
  /\ feature = [f \in Features |-> "called"]
  /\ anchor = [f \in Features |-> {}]
  /\ rendered = [f \in Features |-> {}]
  /\ rules \in {{}, {Demo}}
  /\ wrote = {} /\ cut = FALSE

Moves(f, from, to) == feature[f] = from /\ feature' = [feature EXCEPT ![f] = to]

\* PlanFeature: an occupied destination, a rule that exists already and an
\* arch-go.yml without any rule to follow are refused, before anything is
\* written; so is a name that is no module name.
Plannable(f) == rendered[f] = {} /\ f \notin rules /\ rules # {}

PlanFeature(f) ==
  /\ \/ Plannable(f) /\ Moves(f, "called", "rendering")
        /\ anchor' = [anchor EXCEPT ![f] = rules]
     \/ Moves(f, "called", "failed") /\ UNCHANGED anchor
  /\ UNCHANGED <<rendered, rules, wrote, cut>>

\* renderOne, one template after the other.
RenderOne(f, t) ==
  /\ feature[f] = "rendering" /\ t \notin rendered[f]
  /\ rendered' = [rendered EXCEPT ![f] = @ \union {t}]
  /\ UNCHANGED <<feature, anchor, rules, wrote, cut>>

RenderFeature(f) ==
  /\ rendered[f] = Templates /\ Moves(f, "rendering", "declaring")
  /\ UNCHANGED <<anchor, rendered, rules, wrote, cut>>

\* Broken on purpose: an arch-go.yml that cannot be written is not an error.
DeclareIsolation_Ignored(f) ==
  \/ /\ Moves(f, "declaring", "proving")
     /\ rules' = anchor[f] \union {f}
     /\ wrote' = wrote \union {f} /\ cut' = FALSE
     /\ UNCHANGED <<anchor, rendered>>
  \/ /\ Moves(f, "declaring", "proving")
     /\ UNCHANGED <<anchor, rendered, rules, wrote, cut>>

\* DeclareIsolation writes what the plan had read, and the rule; a failure (or
\* the death of the process) leaves the file as it was, or cut short:
\* some of the rules read, the new one last if at all.
DeclareIsolation(f) ==
  \/ /\ Moves(f, "declaring", "proving")
     /\ rules' = anchor[f] \union {f}
     /\ wrote' = wrote \union {f} /\ cut' = FALSE
     /\ UNCHANGED <<anchor, rendered>>
  \/ /\ Moves(f, "declaring", "failed")
     /\ \/ UNCHANGED <<rules, cut>>
        \/ cut' = TRUE /\ rules' \in {anchor[f] \union {f}} \union SUBSET anchor[f]
     /\ UNCHANGED <<anchor, rendered, wrote>>

\* go build and go test, on the whole project.
ProveFeature(f) ==
  /\ Moves(f, "proving", "created")
  /\ UNCHANGED <<anchor, rendered, rules, wrote, cut>>

\* A file that cannot be written, a build or a test that fails, a process that
\* is killed: what is written stays.
FeatureFails(f) ==
  /\ \E from \in {"rendering", "declaring", "proving"} : Moves(f, from, "failed")
  /\ UNCHANGED <<anchor, rendered, rules, wrote, cut>>

-----------------------------------------------------------------------------
(* hexa new.                                                               *)

\* Code cites the starter's path, some text does too, a decision record cites it
\* as history; a link is no file to copy.
Kinds == {"code", "text", "record", "link"}

ProjectInit ==
  /\ project = "called"
  /\ starter \in [{"first", "second"} -> Kinds]
  /\ target \in {"other", "starter", "starter/app", "empty"}
  /\ copied = [f \in {} |-> ""]
  /\ git = FALSE

Reaches(from, to) == project = from /\ project' = to

\* The records of the past keep their citations.
CitesSocleByHistory(kind) == kind = "record"

\* Whether a content that cites p contains the starter's path.
Contains(p) == p \in {"starter", "starter/app"}

\* PlanProject refuses a path that is missing, or the starter's own, and a
\* destination that is not empty.
PlanProject ==
  /\ \/ target \notin {"empty", "starter"} /\ Reaches("called", "copying")
     \/ Reaches("called", "failed")
  /\ UNCHANGED <<starter, target, copied, git>>

\* copyOne: a link is refused; the path is replaced, but in the history.
CopyOne(f) ==
  /\ f \notin DOMAIN copied /\ starter[f] # "link"
  /\ project = "copying"
  /\ copied' = [g \in DOMAIN copied \union {f} |->
       IF g # f THEN copied[g]
       ELSE IF CitesSocleByHistory(starter[f]) THEN "starter" ELSE target]
  /\ UNCHANGED <<project, starter, target, git>>

CopyProject ==
  /\ DOMAIN copied = DOMAIN starter /\ Reaches("copying", "verifying")
  /\ UNCHANGED <<starter, target, copied, git>>

\* VerifyNoTrace finds nothing; that a target extends the starter's path is
\* enough for every file to be found.
VerifyNoTrace ==
  /\ \A f \in DOMAIN copied :
       Contains(copied[f]) => CitesSocleByHistory(starter[f])
  /\ Reaches("verifying", "compiling")
  /\ UNCHANGED <<starter, target, copied, git>>

\* compile, then initGit, whose failure is reported and fails nothing.
Compile ==
  /\ Reaches("compiling", "created")
  /\ git' \in BOOLEAN
  /\ UNCHANGED <<starter, target, copied>>

ProjectFails ==
  /\ \E from \in {"copying", "verifying", "compiling"} : Reaches(from, "failed")
  /\ UNCHANGED <<starter, target, copied, git>>

-----------------------------------------------------------------------------
FeatureNext ==
  \E f \in Features :
    \/ PlanFeature(f) \/ RenderFeature(f) \/ DeclareIsolation(f)
    \/ ProveFeature(f) \/ FeatureFails(f)
    \/ \E t \in Templates : RenderOne(f, t)

ProjectNext ==
  \/ PlanProject \/ CopyProject \/ VerifyNoTrace \/ Compile \/ ProjectFails
  \/ \E f \in DOMAIN starter : CopyOne(f)

-----------------------------------------------------------------------------
\* isolation.go, create_feature.go, create_project.go: whatever failed on the
\* way, a module announced as created is complete and a rule seals it, unless
\* another command that had planned without that rule wrote the file, or the
\* last to write it was cut short; a project announced as created has every
\* tracked file, and the starter's path in none but the records of its history.
CreatedIsComplete ==
  /\ \A f \in Features :
       feature[f] = "created" =>
         /\ rendered[f] = Templates
         /\ \/ f \in rules \/ cut
            \/ \E g \in wrote \ {f} : f \notin anchor[g]
  /\ project = "created" =>
       /\ DOMAIN copied = DOMAIN starter
       /\ \A f \in DOMAIN copied : Contains(copied[f]) => starter[f] = "record"
=============================================================================
