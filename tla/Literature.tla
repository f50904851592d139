------------------------------ MODULE Literature ------------------------------
(***************************************************************************)
(* How literature becomes knowledge cards (knowledge_tools/literature.py): *)
(* harvests fill the queue of a subproblem with works, an Agent screens a  *)
(* packed batch, ingest writes draft cards, promote copies them into the   *)
(* workspace.  Every file is written by itself and not atomically.  One    *)
(* host runs these commands, one at a time.                                *)
(***************************************************************************)
EXTENDS Naturals, FiniteSets, SequencesExt

CONSTANTS
  Subs,      (* subproblems of the catalog                                   *)
  Names,     (* names of heuristics                                          *)
  Dois,      (* works                                                        *)
  Abstracts, (* the works whose record has an abstract                       *)
  Seeds,     (* the canonical works of each subproblem                       *)
  Offers,    (* what a screen may select: functions from names to works      *)
  Problem,   (* the card of the subproblem itself, beside its methods        *)
  Missing,   (* no such file                                                 *)
  Torn,      (* a file whose writer died                                     *)
  MaxLoads, MaxScreens, MaxCrashes  (* bounds: harvests, screens, crashes    *)

ASSUME LiteratureAssumption ==
  /\ IsFiniteSet(Subs) /\ IsFiniteSet(Names)
  /\ Abstracts \subseteq Dois /\ Seeds \in [Subs -> SUBSET Dois]
  /\ \A o \in Offers : DOMAIN o \subseteq Names /\ \A n \in DOMAIN o : o[n] \in Dois
  /\ Problem \notin Names /\ Missing # Torn
  /\ {MaxLoads, MaxScreens, MaxCrashes} \subseteq Nat

VARIABLES
  queue,     (* the works harvested for a subproblem                         *)
  packed,    (* the subproblems the Agent was asked to screen                *)
  screen,    (* its answer for a subproblem                                  *)
  drafts, workspace,  (* the cards: bodies, metadata, sources                *)
  job,       (* the folder the host's command writes, and the files to go    *)
  loads, screens, crashes

litVars == <<queue, packed, screen, drafts, workspace, job, loads, screens, crashes>>

Cards   == Subs \X (Names \cup {Problem})
NoFiles == [c \in Cards |-> Missing]
NoSource == [d \in Dois |-> Missing]
Empty   == [body |-> NoFiles, meta |-> NoFiles, sources |-> NoSource, record |-> Missing]
Idle    == [to |-> "nowhere", files |-> <<>>]
Screen  == [picks : Offers, cannot : BOOLEAN]
Texts   == (Dois \cup {Missing}) \X BOOLEAN
Metas   == [sha : Texts, sources : SUBSET Dois, methods : SUBSET Names]
Sources == [Dois -> BOOLEAN \cup {Missing}]
Folder  == [body : [Cards -> Texts \cup {Missing, Torn}],
            meta : [Cards -> Metas \cup {Missing, Torn}],
            sources : Sources \cup {Missing, Torn},
            record : {Missing, Torn, "written"}]

(* A file that is missing or torn is not one that has a content.           *)
ASSUME FilesAssumption == \A f \in {Missing, Torn} : f \notin Texts /\ f \notin Metas

LitInit ==
  /\ queue = [s \in Subs |-> Missing] /\ packed = {} /\ screen = [s \in Subs |-> Missing]
  /\ drafts = [Empty EXCEPT !.sources = Missing] /\ workspace = Empty /\ job = Idle
  /\ loads = 0 /\ screens = 0 /\ crashes = 0

-----------------------------------------------------------------------------
(* The queue                                                               *)

Queued(s)     == IF queue[s] = Missing THEN {} ELSE queue[s]
Count(works)  == Cardinality(works \cap Abstracts)
Cannot(s)     == screen[s] # Missing /\ screen[s].cannot
Selects(s)    == screen[s] # Missing /\ DOMAIN screen[s].picks # {}
Classified(s) == Selects(s) /\ ~Cannot(s)

(* harvest_catalog, one subproblem; floor is 0 when nothing is refreshed.  *)
Harvest(s, found, force, floor) ==
  /\ loads < MaxLoads /\ loads' = loads + 1
  /\ \/ queue[s] = Missing \/ force
     \/ Count(Queued(s)) < floor /\ Count(found) >= Count(Queued(s))
  /\ queue' = [queue EXCEPT ![s] = found]
  /\ screen' = IF Cannot(s) THEN [screen EXCEPT ![s] = Missing] ELSE screen
  /\ UNCHANGED <<packed, drafts, workspace, job, screens, crashes>>

(* harvest_doi_seeds: the works that were found are put before the others. *)
Seed(s, found, onlyOpen) ==
  /\ loads < MaxLoads /\ loads' = loads + 1
  /\ onlyOpen => ~Classified(s)
  /\ found \subseteq Seeds[s] /\ found \cap Queued(s) = {}
  /\ queue' = [queue EXCEPT ![s] = Queued(s) \cup found]
  /\ screen' = IF found # {} /\ (Cannot(s) \/ ~Selects(s))
               THEN [screen EXCEPT ![s] = Missing] ELSE screen
  /\ UNCHANGED <<packed, drafts, workspace, job, screens, crashes>>

-----------------------------------------------------------------------------
(* Screening                                                               *)

Packable(s, skip, bare) ==
  /\ queue[s] # Missing
  /\ skip = "classified" => ~Classified(s)
  /\ skip = "screened" => screen[s] = Missing
  /\ ~bare => Count(Queued(s)) > 0

Pack(skip, bare) ==
  /\ packed = {} /\ screens < MaxScreens /\ \E s \in Subs : Packable(s, skip, bare)
  /\ packed' = {s \in Subs : Packable(s, skip, bare)}
  /\ UNCHANGED <<queue, screen, drafts, workspace, job, loads, screens, crashes>>

ValidScreen(a) == a.cannot => DOMAIN a.picks = {}

(* split_batch_screen: the DOIs of the answer are not looked up.           *)
Split(s, a) ==
  /\ s \in packed /\ packed' = packed \ {s}
  /\ screens < MaxScreens /\ screens' = screens + 1
  /\ screen' = IF ValidScreen(a) THEN [screen EXCEPT ![s] = a] ELSE screen
  /\ UNCHANGED <<queue, drafts, workspace, job, loads, crashes>>

-----------------------------------------------------------------------------
(* Ingest and promote: commands that write a list of files                 *)

File(kind, card, data) == [kind |-> kind, card |-> card, data |-> data]

(* A body names the work it cites, and its year if the queue has it.       *)
MethodText(s, n) == <<screen[s].picks[n], screen[s].picks[n] \in queue[s]>>
ProblemText      == <<Missing, TRUE>>
Cited(s)         == {screen[s].picks[n] : n \in DOMAIN screen[s].picks}

Method(s, n) ==
  << File("body", <<s, n>>, MethodText(s, n)),
     File("meta", <<s, n>>, [sha |-> MethodText(s, n), sources |-> {screen[s].picks[n]},
                             methods |-> {}]) >>

(* The card of the subproblem, and the sources: those of this screen only. *)
Closing(s) ==
  << File("meta", <<s, Problem>>, [sha |-> ProblemText, sources |-> Cited(s),
                                   methods |-> DOMAIN screen[s].picks]),
     File("sources", Missing, [d \in Dois |-> IF d \in Cited(s) THEN d \in queue[s] ELSE Missing]),
     File("record", Missing, "written") >>

Ingest(s) ==
  /\ job = Idle /\ queue[s] # Missing /\ Classified(s)
  /\ \E l \in SetToSeqs(DOMAIN screen[s].picks) :
       job' = [to |-> "drafts",
               files |-> << File("body", <<s, Problem>>, ProblemText) >>
                         \o FlattenSeq([i \in DOMAIN l |-> Method(s, l[i])]) \o Closing(s)]
  /\ UNCHANGED <<queue, packed, screen, drafts, workspace, loads, screens, crashes>>

(* promote_drafts goes through the cards by name, metadata before body,    *)
(* methods before problems.                                                *)
ByName == {l \in SetToSeqs({c \in Cards : drafts.meta[c] # Missing \/ drafts.body[c] # Missing}) :
             \A i, j \in DOMAIN l : l[i][2] = Problem /\ l[j][2] # Problem => j < i}

Copy(kind, c, data) == IF data = Missing THEN <<>> ELSE << File(kind, c, data) >>
Copies(c) == Copy("meta", c, drafts.meta[c]) \o Copy("body", c, drafts.body[c])

Promote ==
  /\ job = Idle
  /\ \E l \in ByName :
       job' = [to |-> "workspace",
               files |-> FlattenSeq([i \in DOMAIN l |-> Copies(l[i])])
                         \o << File("sources", Missing, drafts.sources) >>]
  /\ UNCHANGED <<queue, packed, screen, drafts, workspace, loads, screens, crashes>>

-----------------------------------------------------------------------------
(* One file of the command                                                 *)

Put(folder, f, data) ==
  CASE f.kind = "meta" -> [folder EXCEPT !.meta[f.card] = data]
    [] f.kind = "body" -> [folder EXCEPT !.body[f.card] = data]
    [] f.kind = "sources" -> [folder EXCEPT !.sources = data]
    [] f.kind = "record" -> [folder EXCEPT !.record = data]

Held(folder, f) == IF f.kind = "meta" THEN folder.meta[f.card] ELSE folder.body[f.card]

(* Fault: a card is skipped when its metadata is there. *)
SkippedCard(f) == f.kind # "sources" /\ workspace.meta[f.card] # Missing
Skipped(f) == f.kind # "sources" /\ Held(workspace, f) # Missing

(* The workspace keeps the source it has; a new one is added.              *)
Merged(old, new) == [d \in Dois |-> IF old[d] = Missing THEN new[d] ELSE old[d]]

(* The sources are merged last, when the drafts' record can be read too.   *)
Mergeable == /\ {drafts.sources, drafts.record} \cap {Missing, Torn} = {}
             /\ workspace.sources # Torn

Data(f) == IF job.to = "workspace" /\ f.kind = "sources"
           THEN Merged(workspace.sources, f.data) ELSE f.data

Pass == /\ job.to = "workspace" /\ Skipped(Head(job.files))
        /\ UNCHANGED <<drafts, workspace>>

Fail == /\ job.to = "workspace" /\ Head(job.files).kind = "sources" /\ ~Mergeable
        /\ UNCHANGED <<drafts, workspace>>

Write(data) ==
  LET f == Head(job.files) IN
  IF job.to = "drafts"
  THEN /\ drafts' = Put(drafts, f, data) /\ UNCHANGED workspace
  ELSE /\ ~Skipped(f) /\ (f.kind = "sources" => Mergeable)
       /\ workspace' = Put(workspace, f, data) /\ UNCHANGED drafts

HostStep ==
  /\ job # Idle
  /\ Pass \/ Fail \/ Write(Data(Head(job.files)))
  /\ job' = IF Len(job.files) = 1 THEN Idle ELSE [job EXCEPT !.files = Tail(@)]
  /\ UNCHANGED <<queue, packed, screen, loads, screens, crashes>>

(* The host dies, perhaps in the middle of a file.                         *)
HostDies ==
  /\ job # Idle /\ crashes < MaxCrashes /\ crashes' = crashes + 1 /\ job' = Idle
  /\ Write(Torn) \/ UNCHANGED <<drafts, workspace>>
  /\ UNCHANGED <<queue, packed, screen, loads, screens>>

Reading ==
  /\ job = Idle
  /\ \/ \E s \in Subs, found \in SUBSET Dois, force \in BOOLEAN, floor \in 0..Cardinality(Dois) :
          Harvest(s, found, force, floor)
     \/ \E s \in Subs, found \in SUBSET Dois, onlyOpen \in BOOLEAN : Seed(s, found, onlyOpen)
     \/ \E skip \in {"screened", "classified", "nothing"}, bare \in BOOLEAN : Pack(skip, bare)
     \/ \E s \in Subs, a \in Screen : Split(s, a)

Writing == (\E s \in Subs : Ingest(s)) \/ Promote \/ HostStep \/ HostDies

-----------------------------------------------------------------------------
(* A promotion that comes to its end leaves every card of the drafts whole *)
(* in the workspace, one that an earlier promotion left without its body   *)
(* included: promote skips the files it finds, not the cards.              *)
Promoted == /\ job.to = "workspace" /\ job' = Idle /\ crashes' = crashes
PromotionIsWhole ==
  [][Promoted => \A c \in Cards : drafts.meta[c] # Missing =>
       Missing \notin {workspace'.meta[c], workspace'.body[c]}]_litVars

=============================================================================
