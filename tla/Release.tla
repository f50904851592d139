------------------------------- MODULE Release -------------------------------
(***************************************************************************)
(* Releases of the knowledge base (knowledge_tools/core.py): a builder     *)
(* validates the workspace, indexes its cards, stages a copy, renames it   *)
(* to its final name and moves the pointer current.  Builders run beside   *)
(* each other and beside the commands of module Literature, without locks. *)
(***************************************************************************)
EXTENDS Literature

CONSTANTS
  Builders,  (* builds that may run at the same time                         *)
  Ids,       (* names of releases                                            *)
  MaxBuilds  (* bound: builds that pass the validation                       *)

(* What a release holds: the index of its entries, the sources, a copy of  *)
(* the bodies, the release before it, and whether the workspace was calm.  *)
Entry    == [sha : Texts \cup {Torn}, meta : Metas]
Contents == [index : [Cards -> Entry \cup {Missing}], sources : Sources,
             body : [Cards -> Texts \cup {Missing, Torn}], before : Ids \cup {Missing},
             calm : BOOLEAN]

ASSUME ReleaseAssumption ==
  MaxBuilds \in Nat /\ Missing \notin Ids /\ Missing \notin Entry /\ Missing \notin Contents

VARIABLES
  build,    (* each builder: its step, what it read, and whether the         *)
            (* workspace was left alone since it began                       *)
  shelf,    (* the published releases                                        *)
  current,  (* the pointer                                                   *)
  litter,   (* staging directories a dead build left behind                  *)
  builds    (* how many builds there were                                    *)

vars == <<litVars, build, shelf, current, litter, builds>>

BuildRow == [at : {"idle", "valid", "claimed", "staged", "published"}, id : Ids \cup {Missing},
             content : Contents \cup {Missing}, calm : BOOLEAN]
NoBuild == [at |-> "idle", id |-> Missing, content |-> Missing, calm |-> TRUE]

Init ==
  /\ LitInit
  /\ build = [b \in Builders |-> NoBuild]
  /\ shelf = [r \in Ids |-> Missing] /\ current = Missing /\ litter = {} /\ builds = 0

-----------------------------------------------------------------------------
(* validate_workspace                                                      *)

Described(ws)  == {c \in Cards : ws.meta[c] # Missing}
Readable(ws) == ws.sources # Torn /\ \A c \in Described(ws) : ws.meta[c] # Torn

(* Fault: a source without a year is accepted. *)
SourcesValidAnyway(ws) == TRUE

SourcesValid(ws) == \A d \in Dois : ws.sources[d] # Missing => ws.sources[d]

RefsValid(ws, c) ==
  LET m == ws.meta[c] IN
  /\ \A d \in m.sources : ws.sources[d] # Missing
  /\ \A n \in m.methods \cup {Problem} : ws.meta[<<c[1], n>>] # Missing

(* Fault: the hash of the body is not compared. *)
BodyPresent(ws, c) == ws.body[c] # Missing

BodyValid(ws, c) == ws.body[c] # Missing /\ ws.body[c] = ws.meta[c].sha

Valid(ws) ==
  /\ Readable(ws) /\ Described(ws) # {}
  /\ SourcesValid(ws)
  /\ \A c \in Described(ws) : RefsValid(ws, c) /\ BodyValid(ws, c)
  /\ \A c \in Cards : ws.body[c] # Missing => ws.meta[c] # Missing

-----------------------------------------------------------------------------
(* build_release                                                           *)

Goto(b, r) == build' = [build EXCEPT ![b] = r]
LitFrame   == UNCHANGED litVars
Frame      == LitFrame /\ UNCHANGED builds

Check(b) ==
  /\ build[b].at = "idle" /\ Valid(workspace) /\ builds < MaxBuilds /\ builds' = builds + 1
  /\ Goto(b, [NoBuild EXCEPT !.at = "valid"])
  /\ LitFrame /\ UNCHANGED <<shelf, current, litter>>

(* The entries: the cards that have both files; what is hashed is the body *)
(* as it is now.                                                           *)
Index(ws) == [c \in Cards |-> IF Missing \in {ws.meta[c], ws.body[c]} THEN Missing
                              ELSE [sha |-> ws.body[c], meta |-> ws.meta[c]]]

Digest(content) == <<content.index, content.sources>>

Published(r) == shelf[r] # Missing

Free(r) == ~Published(r)

(* The index is made; the name is refused when a release has it, or has    *)
(* this content under another name.                                        *)
Claim(b, r) ==
  LET c == [index |-> Index(workspace), sources |-> workspace.sources,
            body |-> NoFiles, before |-> Missing, calm |-> FALSE] IN
  /\ build[b].at = "valid" /\ Readable(workspace)
  /\ IF /\ Free(r)
        /\ \A p \in Ids \ {r} : Published(p) => Digest(shelf[p]) # Digest(c)
     THEN Goto(b, [build[b] EXCEPT !.at = "claimed", !.id = r, !.content = c])
     ELSE Goto(b, NoBuild)
  /\ Frame /\ UNCHANGED <<shelf, current, litter>>

(* The files are copied, the release before this one is found, and the     *)
(* manifest is written and verified against the copies.                    *)
Previous(r) ==
  IF current # Missing /\ current # r THEN {current}
  ELSE LET others == {p \in Ids \ {r} : Published(p)} IN
       IF others = {} THEN {Missing} ELSE others

Stage(b) ==
  /\ build[b].at = "claimed"
  /\ \E p \in Previous(build[b].id) :
       Goto(b, [build[b] EXCEPT !.at = "staged", !.content.body = workspace.body,
                                !.content.before = p])
  /\ Frame /\ UNCHANGED <<shelf, current, litter>>

(* Fault: the rename replaces a release that came first. *)
RenamesOver(r) == TRUE

(* A directory is not renamed to one that is there.                        *)
Renames(r) == ~Published(r)

Publish(b) ==
  /\ build[b].at = "staged"
  /\ IF Renames(build[b].id)
     THEN /\ shelf' = [shelf EXCEPT ![build[b].id] =
                         [build[b].content EXCEPT !.calm = build[b].calm]]
          /\ Goto(b, [NoBuild EXCEPT !.at = "published", !.id = build[b].id])
     ELSE UNCHANGED shelf /\ Goto(b, NoBuild)
  /\ Frame /\ UNCHANGED <<current, litter>>

(* _atomic_pointer: one rename of a symbolic link.                         *)
Repoint(b) ==
  /\ build[b].at = "published" /\ current' = build[b].id
  /\ Goto(b, NoBuild)
  /\ Frame /\ UNCHANGED <<shelf, litter>>

(* An error removes the stage; what was renamed before stays.              *)
BuildFails(b) ==
  /\ build[b].at \in {"claimed", "staged", "published"}
  /\ Goto(b, NoBuild)
  /\ Frame /\ UNCHANGED <<shelf, current, litter>>

BuildDies(b) ==
  /\ build[b].at \in {"claimed", "staged", "published"}
  /\ crashes < MaxCrashes /\ crashes' = crashes + 1
  /\ Goto(b, NoBuild)
  /\ litter' = IF build[b].at = "staged" THEN litter \cup {build[b].id} ELSE litter
  /\ UNCHANGED <<queue, packed, screen, drafts, workspace, job, loads, screens,
                 shelf, current, builds>>

Building ==
  \E b \in Builders :
    \/ Check(b) \/ Stage(b) \/ Publish(b) \/ Repoint(b) \/ BuildFails(b) \/ BuildDies(b)
    \/ \E r \in Ids : Claim(b, r)

(* Going back: current is made to name an older release by hand.           *)
Rollback == /\ \E r \in Ids : Published(r) /\ current # r /\ current # Missing /\ current' = r
            /\ Frame /\ UNCHANGED <<build, shelf, litter>>

(* The literature commands run beside the builders.                        *)
Beside ==
  /\ Reading \/ Writing
  /\ build' = [b \in Builders |->
                 IF workspace' = workspace \/ build[b].at = "idle" THEN build[b]
                 ELSE [build[b] EXCEPT !.calm = FALSE]]
  /\ UNCHANGED <<shelf, current, litter, builds>>

Next == Beside \/ Building \/ Rollback

Spec == Init /\ [][Next]_vars

-----------------------------------------------------------------------------
(* resolve_release(store): what a reader is sent to; without a pointer the *)
(* newest manifest is taken, a left staging directory's too.               *)
Resolved == IF current # Missing THEN {current}
            ELSE {r \in Ids : Published(r)} \cup litter

TypeOK ==
  /\ queue \in [Subs -> (SUBSET Dois) \cup {Missing}] /\ packed \subseteq Subs
  /\ screen \in [Subs -> Screen \cup {Missing}]
  /\ drafts \in Folder /\ workspace \in Folder
  /\ build \in [Builders -> BuildRow] /\ shelf \in [Ids -> Contents \cup {Missing}]
  /\ current \in Ids \cup {Missing} /\ litter \subseteq Ids

(* validate_release: every body is the one that was indexed.               *)
Entries(x)  == {c \in Cards : x.index[c] # Missing}
Accepted(x) == \A c \in Entries(x) : x.body[c] = x.index[c].sha

(* A release is sound: every entry has the body that was hashed, and that  *)
(* its metadata describes, and every work an entry cites is in the release *)
(* with its year, as is every card it refers to.                           *)
SoundRelease(x) ==
  Accepted(x) /\ \A c \in Entries(x) :
    /\ x.index[c].sha = x.index[c].meta.sha
    /\ \A d \in x.index[c].meta.sources : x.sources[d] = TRUE
    /\ \A n \in x.index[c].meta.methods \cup {Problem} : <<c[1], n>> \in Entries(x)

(* Whatever happened before - works that were harvested again after they   *)
(* were screened, drafts of several screens, commands that died between    *)
(* two files, rival builds - a release built from a workspace nobody wrote *)
(* to meanwhile is sound.                                                  *)
ReleasesAreSound == \A r \in Ids : Published(r) /\ shelf[r].calm => SoundRelease(shelf[r])

(* Rival builds, dead builds and rollbacks implement the shelf.            *)
Shelf == INSTANCE ReleaseShelf WITH Nowhere <- Missing
ImplementsShelf == Shelf!Spec

(* What the code does not keep: a release built beside a promotion, and    *)
(* the directory a reader finds after a first build died.                  *)
ReleasesAreSoundAnyway == \A r \in Ids : Published(r) => SoundRelease(shelf[r])
ReadersSeeReleases == \A r \in Resolved : Published(r)

=============================================================================
