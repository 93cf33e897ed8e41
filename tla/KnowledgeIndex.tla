--------------------------- MODULE KnowledgeIndex ---------------------------
(***************************************************************************)
(* The project knowledge index (app/knowledge): a SQLite store shared by   *)
(* the coding agents of one repository.  Agents run `knowledge index`,     *)
(* `knowledge index --changed` and `knowledge clear` as separate           *)
(* processes, each with its own embedding configuration; one flock makes   *)
(* them one writer at a time.  Documents are edited meanwhile, embedding   *)
(* can raise, and a process can be killed between two commits.             *)
(*                                                                         *)
(* A document has one chunk: the section under its heading.  Its chunk id  *)
(* is the document and the heading, its checksum is its content.           *)
(***************************************************************************)
EXTENDS Integers

CONSTANTS
  Agents,      \* processes, each running one command
  NDocs,       \* documents are 1 .. NDocs, in the order of their paths
  Headings, Texts,
  Configs,     \* (provider, model, dim) an agent may be configured with
  None,
  MaxEdits,    \* edits of documents while agents run (bound)
  MaxCrashes   \* agents killed (bound)

ASSUME NoneAssumption == None \notin Agents \cup Configs \cup Headings
ASSUME NDocsAssumption == NDocs \in Nat
ASSUME BoundsAssumption == MaxEdits \in Nat /\ MaxCrashes \in Nat

Docs     == 1 .. NDocs
Contents == [heading : Headings, text : Texts]
Absent   == [heading |-> None, text |-> None]
Files    == [Docs -> Contents \cup {Absent}]

VARIABLES
  repo,        \* the documents on disk
  documents,   \* table documents: the checksum of each indexed path
  chunks,      \* table chunks: rows with an embedding
  keywords,    \* table chunks_fts: rows of the keyword index
  meta,        \* table index_meta: the configuration the index was built with
  lock,        \* who holds the flock
  pc, command, config,   \* each agent: where it stands, what it runs, with which embeddings
  todo,        \* documents it still has to look at
  gone,        \* indexed paths it found no file for
  got,         \* the content it read and embedded
  current,     \* history: agents whose listing no edit has outdated
  edits, crashes

tables == <<documents, chunks, keywords, meta>>
vars   == <<repo, documents, chunks, keywords, meta, lock, pc, command, config, todo, gone,
            got, current, edits, crashes>>

Chunks   == [doc : Docs, content : Contents, config : Configs]
Keywords == [doc : Docs, content : Contents]

Commands == {"index", "changed", "clear"}
Writing  == {"check", "list", "look", "embed", "store", "prune", "meta",
             "clear chunks", "clear keywords", "clear documents", "clear meta", "release"}
Over     == {"done", "deferred", "refused", "raised", "killed"}

TypeOK ==
  /\ repo \in Files /\ documents \in Files
  /\ chunks \subseteq Chunks /\ keywords \subseteq Keywords
  /\ meta \in Configs \cup {None}
  /\ lock \in Agents \cup {None}
  /\ pc \in [Agents -> {"waiting"} \cup Writing \cup Over]
  /\ command \in [Agents -> Commands]
  /\ config \in [Agents -> Configs]
  /\ todo \in [Agents -> SUBSET Docs] /\ gone \in [Agents -> SUBSET Docs]
  /\ got \in [Agents -> Contents \cup {Absent}]
  /\ current \subseteq Agents
  /\ edits \in 0 .. MaxEdits /\ crashes \in 0 .. MaxCrashes

NoFiles == [d \in Docs |-> Absent]

Init ==
  /\ repo \in [Docs -> Contents]
  /\ documents = NoFiles /\ chunks = {} /\ keywords = {} /\ meta = None
  /\ lock = None
  /\ pc = [a \in Agents |-> "waiting"]
  /\ command \in [Agents -> Commands]
  /\ config \in [Agents -> Configs]
  /\ todo = [a \in Agents |-> {}] /\ gone = [a \in Agents |-> {}]
  /\ got = [a \in Agents |-> Absent]
  /\ current = {}
  /\ edits = 0 /\ crashes = 0

-----------------------------------------------------------------------------
Goes(a, to) == pc' = [pc EXCEPT ![a] = to]

Local == <<todo, gone, got, current>>

FirstStep == [index |-> "list", changed |-> "check", clear |-> "clear chunks"]

(* Mutant: the lock is shared.                                              *)
AcquireShared(a) ==
  /\ pc[a] = "waiting"
  /\ lock' = a
  /\ Goes(a, FirstStep[command[a]])
  /\ UNCHANGED <<repo, tables, command, config, Local, edits, crashes>>

(* acquire: one attempt per poll, until the deadline.                       *)
Acquire(a) ==
  /\ pc[a] = "waiting" /\ lock = None
  /\ lock' = a
  /\ Goes(a, FirstStep[command[a]])
  /\ UNCHANGED <<repo, tables, command, config, Local, edits, crashes>>

(* Mutant: a clear whose wait is over goes ahead.                           *)
ClearAnyway(a) ==
  /\ pc[a] = "waiting" /\ lock # None
  /\ Goes(a, IF command[a] = "clear" THEN "clear chunks" ELSE "deferred")
  /\ UNCHANGED <<repo, tables, lock, command, config, Local, edits, crashes>>

(* The bounded wait is over: an index run is deferred, a clear refused.     *)
GiveUp(a) ==
  /\ pc[a] = "waiting" /\ lock # None
  /\ Goes(a, IF command[a] = "clear" THEN "refused" ELSE "deferred")
  /\ UNCHANGED <<repo, tables, lock, command, config, Local, edits, crashes>>

(* An exception leaves the `with` block, which releases the lock.           *)
Raise(a) == Goes(a, "raised") /\ lock' = None

(* _assert_embedding_config_compatible (index_changed only).                *)
CheckConfig(a) ==
  /\ pc[a] = "check"
  /\ IF meta \in {None, config[a]} THEN Goes(a, "list") /\ UNCHANGED lock ELSE Raise(a)
  /\ UNCHANGED <<repo, tables, command, config, Local, edits, crashes>>

Present(files) == {d \in Docs : files[d] # Absent}

(* discover_source_files and all_document_checksums.                        *)
List(a) ==
  /\ pc[a] = "list"
  /\ todo' = [todo EXCEPT ![a] = Present(repo)]
  /\ gone' = [gone EXCEPT ![a] = Present(documents) \ Present(repo)]
  /\ current' = current \cup {a}
  /\ Goes(a, "look")
  /\ UNCHANGED <<repo, tables, lock, command, config, got, edits, crashes>>

(* The path the loop has reached: paths are visited in order.               *)
First(paths) == {d \in paths : \A e \in paths : d <= e}

(* Mutant: an indexed document is never looked at again.                    *)
IsIndexed(d) == documents[d] # Absent

IsUnchanged(d) == repo[d] = documents[d]

(* Mutant: the loop does not move on.                                       *)
StaysAt(a, d) == UNCHANGED todo

Passes(a, d) == todo' = [todo EXCEPT ![a] = @ \ {d}]

(* index_changed reads the file and skips it when its checksum is the       *)
(* recorded one; a file gone since the listing raises.  index_all reads     *)
(* nothing here.                                                            *)
Look(a) ==
  /\ pc[a] = "look"
  /\ \/ todo[a] = {} /\ Goes(a, "prune") /\ UNCHANGED <<lock, todo>>
     \/ \E d \in First(todo[a]) :
          \/ command[a] = "index" /\ Goes(a, "embed") /\ UNCHANGED <<lock, todo>>
          \/ command[a] # "index" /\ repo[d] = Absent /\ Raise(a) /\ UNCHANGED todo
          \/ /\ command[a] # "index" /\ repo[d] # Absent
             /\ IF IsUnchanged(d) THEN Passes(a, d) /\ UNCHANGED <<lock, pc>>
                                  ELSE Goes(a, "embed") /\ UNCHANGED <<lock, todo>>
  /\ UNCHANGED <<repo, tables, command, config, gone, got, current, edits, crashes>>

(* Mutant: a document that cannot be read is indexed as an empty one.       *)
EmbedAnything(a) ==
  /\ pc[a] = "embed"
  /\ \E d \in First(todo[a]) : got' = [got EXCEPT ![a] = repo[d]]
  /\ Goes(a, "store")
  /\ UNCHANGED <<repo, tables, lock, command, config, todo, gone, current, edits, crashes>>

(* _index_file: read (again), chunk, embed.  The provider may raise.        *)
Embed(a) ==
  /\ pc[a] = "embed"
  /\ \E d \in First(todo[a]) :
       \/ /\ repo[d] # Absent
          /\ got' = [got EXCEPT ![a] = repo[d]]
          /\ Goes(a, "store") /\ UNCHANGED lock
       \/ Raise(a) /\ UNCHANGED got
  /\ UNCHANGED <<repo, tables, command, config, todo, gone, current, edits, crashes>>

ChunkIds(rows) == {<<r.doc, r.content.heading>> : r \in rows}
RowsOf(rows, d) == {r \in rows : r.doc = d}
WithIds(rows, ids) == {r \in rows : <<r.doc, r.content.heading>> \in ids}

(* Mutant: the checksum recorded is that of the file as it is by now.       *)
UpsertChecksumOfFile(a, d, content) ==
  /\ chunks' = (chunks \ RowsOf(chunks, d))
                 \cup {[doc |-> d, content |-> content, config |-> config[a]]}
  /\ keywords' = keywords \cup {[doc |-> d, content |-> content]}
  /\ documents' = [documents EXCEPT ![d] = repo[d]]
  /\ UNCHANGED meta

(* upsert_document, one transaction: the document's chunks are deleted      *)
(* first, so the deletion of the keyword rows of "its chunks" finds none.   *)
Upsert(a, d, content) ==
  LET left == chunks \ RowsOf(chunks, d)
  IN  /\ chunks' = left \cup {[doc |-> d, content |-> content, config |-> config[a]]}
      /\ keywords' = (keywords \ WithIds(keywords, ChunkIds(RowsOf(left, d))))
                       \cup {[doc |-> d, content |-> content]}
      /\ documents' = [documents EXCEPT ![d] = content]
      /\ UNCHANGED meta

Store(a) ==
  /\ pc[a] = "store"
  /\ \E d \in First(todo[a]) : Upsert(a, d, got[a]) /\ Passes(a, d)
  /\ got' = [got EXCEPT ![a] = Absent]
  /\ Goes(a, "look")
  /\ UNCHANGED <<repo, lock, command, config, gone, current, edits, crashes>>

(* delete_document, one transaction for each path without a file.           *)
Delete(d) ==
  /\ keywords' = keywords \ WithIds(keywords, ChunkIds(RowsOf(chunks, d)))
  /\ chunks' = chunks \ RowsOf(chunks, d)
  /\ documents' = [documents EXCEPT ![d] = Absent]
  /\ UNCHANGED meta

Prune(a) ==
  /\ pc[a] = "prune"
  /\ \/ /\ gone[a] = {} /\ Goes(a, "meta") /\ UNCHANGED <<tables, gone>>
     \/ \E d \in gone[a] :
          /\ Delete(d)
          /\ gone' = [gone EXCEPT ![a] = @ \ {d}]
          /\ UNCHANGED pc
  /\ UNCHANGED <<repo, lock, command, config, todo, got, current, edits, crashes>>

(* Mutant: the first configuration stays on record.                         *)
FinalizeMetaOnce(a) ==
  /\ pc[a] = "meta"
  /\ meta' = IF meta = None THEN config[a] ELSE meta
  /\ Goes(a, "release")
  /\ UNCHANGED <<repo, documents, chunks, keywords, lock, command, config, Local, edits, crashes>>

(* _finalize_meta.  index_changed skips it when nothing changed; the meta   *)
(* row is then its own configuration already, so writing it is the same.    *)
FinalizeMeta(a) ==
  /\ pc[a] = "meta"
  /\ meta' = config[a]
  /\ Goes(a, "release")
  /\ UNCHANGED <<repo, documents, chunks, keywords, lock, command, config, Local, edits, crashes>>

(* clear: executescript commits each DELETE by itself.                      *)
Clear(a) ==
  /\ \/ pc[a] = "clear chunks" /\ chunks' = {} /\ Goes(a, "clear keywords")
        /\ UNCHANGED <<documents, keywords, meta>>
     \/ pc[a] = "clear keywords" /\ keywords' = {} /\ Goes(a, "clear documents")
        /\ UNCHANGED <<documents, chunks, meta>>
     \/ pc[a] = "clear documents" /\ documents' = NoFiles /\ Goes(a, "clear meta")
        /\ UNCHANGED <<chunks, keywords, meta>>
     \/ pc[a] = "clear meta" /\ meta' = None /\ Goes(a, "release")
        /\ UNCHANGED <<documents, chunks, keywords>>
  /\ UNCHANGED <<repo, lock, command, config, Local, edits, crashes>>

Release(a) ==
  /\ pc[a] = "release"
  /\ lock' = None
  /\ Goes(a, "done")
  /\ UNCHANGED <<repo, tables, command, config, Local, edits, crashes>>

-----------------------------------------------------------------------------
(* The world around the agents.                                             *)

(* Somebody writes, adds or deletes a document.                             *)
Edit ==
  /\ edits < MaxEdits
  /\ \E d \in Docs, c \in Contents \cup {Absent} :
       c # repo[d] /\ repo' = [repo EXCEPT ![d] = c]
  /\ edits' = edits + 1
  /\ current' = {}
  /\ UNCHANGED <<tables, lock, pc, command, config, todo, gone, got, crashes>>

(* An agent is killed; the kernel drops its flock.                          *)
Kill(a) ==
  /\ crashes < MaxCrashes
  /\ pc[a] \in Writing
  /\ crashes' = crashes + 1
  /\ Goes(a, "killed")
  /\ lock' = None
  /\ UNCHANGED <<repo, tables, command, config, Local, edits>>

AllOver == (\A a \in Agents : pc[a] \in Over) /\ UNCHANGED vars

Run(a) ==
  \/ Acquire(a) \/ GiveUp(a)
  \/ CheckConfig(a) \/ List(a) \/ Look(a) \/ Embed(a) \/ Store(a) \/ Prune(a)
  \/ FinalizeMeta(a) \/ Clear(a) \/ Release(a)

Next == (\E a \in Agents : Run(a) \/ Kill(a)) \/ Edit \/ AllOver

Spec == Init /\ [][Next]_vars

(* A process that can run is scheduled, and polling ends.                   *)
FairSpec == Spec /\ \A a \in Agents : WF_vars(Run(a))

-----------------------------------------------------------------------------
(* Properties.                                                              *)

(* One writer at a time: an agent that is past the lock is its holder, also *)
(* when holders raise or are killed.                                        *)
OneWriter == \A a \in Agents : pc[a] \in Writing <=> lock = a

(* The tables change only by the holder of the lock: an agent whose wait    *)
(* timed out writes and clears nothing.                                     *)
OnlyHolderWrites ==
  [][tables' # tables =>
       \E a \in Agents : /\ lock = a /\ pc[a] \in Writing
                        /\ \A b \in Agents \ {a} : pc'[b] = pc[b]]_vars

(* Whatever search returns is the text the recorded checksum stands for:    *)
(* edits during a run, interrupted runs and an interrupted clear included.  *)
ChunksAreOfTheChecksum == \A c \in chunks : documents[c.doc] = c.content

(* A run that listed the documents and finished before any edit leaves the  *)
(* index equal to the repository; and the chunks with it, unless a clear    *)
(* was killed half way (its deletions are committed one by one, and a       *)
(* checksum that outlives its chunks is taken for an indexed document).     *)
RefreshCatchesUp ==
  \A a \in Agents :
    pc[a] = "release" /\ a \in current /\ command[a] # "clear" =>
      /\ documents = repo
      /\ (\A b \in Agents : pc[b] = "killed" => command[b] # "clear") =>
           {c.doc : c \in chunks} = Present(repo)

(* A full rebuild that finishes leaves vectors of its own configuration     *)
(* only, and records it.                                                    *)
RebuildIsUniform ==
  \A a \in Agents :
    pc[a] = "release" /\ command[a] = "index" =>
      meta = config[a] /\ \A c \in chunks : c.config = config[a]

(* Everybody who asks for the lock is served or told so, whoever dies: the  *)
(* wait is bounded and every pass over the documents ends.                  *)
EveryoneEnds == \A a \in Agents : <>(pc[a] \in Over)

(* "never mixing vectors from two different embedding configs"              *)
(* (app/knowledge/indexer.py): when nobody writes, every vector is of the   *)
(* configuration the index says it was built with.                          *)
VectorsMatchMeta ==
  lock = None /\ meta # None => \A c \in chunks : c.config = meta

(* "removes deleted ones" (docs/PROJECT_KNOWLEDGE_RAG.md): when nobody      *)
(* writes, every row of the keyword index is a row of an indexed chunk.     *)
KeywordRowsAreChunks ==
  lock = None => \A k \in keywords : \E c \in chunks : c.doc = k.doc /\ c.content = k.content
=============================================================================
