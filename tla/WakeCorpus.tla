----------------------------- MODULE WakeCorpus -----------------------------
(***************************************************************************)
(* The training corpus: collect_hard_negatives.py fills it from the store of *)
(* wake samples, either with the clips labelled there (sync) or with copies  *)
(* that are sorted by hand (fetch, label, stage). Its commands run one at a  *)
(* time, beside the backend, and may end in the middle of a write.           *)
(***************************************************************************)
EXTENDS WakeStore

CONSTANTS
  MaxTaken,  \* bound: the tool is not run on later uploads than this one
  MaxCuts    \* bound: writes of the tool cut short

ASSUME WakeCorpusAssumption == MaxTaken \in Nat /\ MaxCuts \in Nat /\ "inbox" \notin Verdicts

VARIABLES
  todo,    \* sync, fetch: the downloads left, each a sample and where it goes
  pen,     \* the file being written: the sample, the directory, what it was read as
  taken,   \* each sample's copy in captured_wakes: absent, begun, complete
  sorted,  \* where that copy lies: the inbox, or the directory of a verdict
  corpus,  \* each verdict's directory of the corpus, and how complete its clips are
  cuts     \* writes cut short (read by the bound and by properties only)

tools      == <<todo, pen, taken, sorted, corpus, cuts>>
corpusvars == <<storevars, tools>>

CorpusInit ==
  /\ StoreInit
  /\ todo = {} /\ pen = Idle /\ cuts = 0
  /\ taken = [n \in Samples |-> "none"] /\ sorted = [n \in Samples |-> "inbox"]
  /\ corpus = [v \in Verdicts |-> [n \in Samples |-> "none"]]

AtPrompt == pen = Idle /\ todo = {}

----------------------------------------------------------------------------
(* A file that is opened for writing is empty until its last byte is there.  *)

Opens(n, to, got) ==
  /\ pen' = [op |-> "write", of |-> n, to |-> to, got |-> got]
  /\ IF to = "inbox"
     THEN taken' = [taken EXCEPT ![n] = "begun"] /\ UNCHANGED corpus
     ELSE corpus' = [corpus EXCEPT ![to][n] = "begun"] /\ UNCHANGED taken

Closes ==
  /\ pen # Idle
  /\ pen' = Idle
  /\ IF pen.to = "inbox"
     THEN taken' = [taken EXCEPT ![pen.of] = pen.got] /\ UNCHANGED corpus
     ELSE corpus' = [corpus EXCEPT ![pen.to][pen.of] = pen.got] /\ UNCHANGED taken
  /\ UNCHANGED <<todo, sorted, cuts>>

\* The command ends in the write, or the disk is full.
ToolCut ==
  /\ pen # Idle /\ cuts < MaxCuts
  /\ cuts' = cuts + 1
  /\ pen' = Idle /\ todo' = {}
  /\ UNCHANGED <<taken, sorted, corpus>>

----------------------------------------------------------------------------
(* sync and fetch: GET /wake-samples, then GET /wake-samples/{name} for each *)
(* clip that is not there yet                                                *)

\* Every clip with a verdict whose directory does not hold it.
SyncLists ==
  /\ Free /\ AtPrompt
  /\ todo' = {s \in Wavs \X Verdicts :
                /\ meta[s[1]] \in {"bare", "full"} /\ label[s[1]] = s[2]
                /\ corpus[s[2]][s[1]] = "none" /\ s[1] <= MaxTaken}
  /\ UNCHANGED <<pen, taken, sorted, corpus, cuts>>

\* Every clip, labelled or not, of which there is no copy.
FetchLists ==
  /\ Free /\ AtPrompt
  /\ todo' = {n \in Wavs : taken[n] = "none" /\ n <= MaxTaken} \X {"inbox"}
  /\ UNCHANGED <<pen, taken, sorted, corpus, cuts>>

\* Newest first.
Downloads ==
  /\ Free /\ pen = Idle
  /\ \E next \in todo :
       /\ \A s \in todo : s[1] <= next[1]
       /\ wav[next[1]] # "none"
       /\ todo' = todo \ {next}
       /\ Opens(next[1], next[2], wav[next[1]])
  /\ UNCHANGED <<sorted, cuts>>

\* A request fails, for a clip rotated meanwhile say, or the user ends the command.
Abandons ==
  /\ pen = Idle /\ todo # {}
  /\ todo' = {}
  /\ UNCHANGED <<pen, taken, sorted, corpus, cuts>>

----------------------------------------------------------------------------
(* label and stage: a run is any number of these, as either may be ended     *)
(* between two clips                                                         *)

Sorts(n, v) ==
  /\ AtPrompt /\ taken[n] # "none" /\ sorted[n] = "inbox"
  /\ sorted' = [sorted EXCEPT ![n] = v]
  /\ UNCHANGED <<todo, pen, taken, corpus, cuts>>

\* A clip that the corpus holds already is written again.
Stages(n) ==
  /\ AtPrompt /\ taken[n] # "none" /\ sorted[n] # "inbox"
  /\ Opens(n, sorted[n], taken[n])
  /\ UNCHANGED <<todo, sorted, cuts>>

----------------------------------------------------------------------------
Tools ==
  \/ SyncLists \/ FetchLists \/ Downloads \/ Abandons \/ Closes \/ ToolCut
  \/ \E n \in Samples : Stages(n) \/ \E v \in Verdicts : Sorts(n, v)

CorpusNext ==
  \/ StoreNext /\ UNCHANGED tools
  \/ Tools /\ UNCHANGED storevars

CorpusSpec == CorpusInit /\ [][CorpusNext]_corpusvars

(* An incomplete clip in the corpus is owed to one write cut short, of its own: an     *)
(* upload's or the tool's. So a sample whose audio is incomplete never takes two       *)
(* places there, because no label leads to it (bot.py:945-947, 1014-1016), and what is *)
(* read while it is written is never kept (collect_hard_negatives.py:63-107, 165-180). *)
TornClips ==
  {s \in Verdicts \X Samples :
     corpus[s[1]][s[2]] = "begun" /\ ~ (pen # Idle /\ pen.to = s[1] /\ pen.of = s[2])}
TornClipsOwed == Cardinality(TornClips) <= crashes + cuts
=============================================================================
