------------------------- MODULE ConversationStore -------------------------
(***************************************************************************)
(* What the server remembers of a conversation thread                      *)
(* (apps/api/app/persistence/conversation_store.py): the project it is     *)
(* bound to and its context.  get, set and bind_project are atomic: a dict *)
(* access, a setdefault under a lock, or one Postgres statement.           *)
(*                                                                         *)
(* Of a context only this is kept: whether there is one, the project its   *)
(* latest V1 plan was made for, and the projects its V2 turns were         *)
(* answered from (v2_recent_turns).                                        *)
(***************************************************************************)
EXTENDS Naturals, Sequences

CONSTANTS Thread, Project,
          None,            \* no binding, no plan, no request
          MemoryTurns      \* Settings.conversation_memory_turns

ASSUME ConversationConstants ==
  /\ Thread # {} /\ None \notin Project
  /\ MemoryTurns \in Nat \ {0}

VARIABLES binding,         \* thread_id -> project_id
          context          \* thread_id -> context

stores == <<binding, context>>

Context   == [exists : BOOLEAN, plan : Project \cup {None}, recent : Seq(Project)]
NoContext == [exists |-> FALSE, plan |-> None, recent |-> << >>]

Unbound    == [th \in Thread |-> None]
Forgotten  == [th \in Thread |-> NoContext]
StoresInit == binding = Unbound /\ context = Forgotten

(* bind_project: the first project to ask for the thread keeps it. *)
Bound(th, p) == IF binding[th] = None THEN p ELSE binding[th]
BindProject(th, p) == binding' = [binding EXCEPT ![th] = Bound(th, p)]

SetContext(th, c) == context' = [context EXCEPT ![th] = c]

(* What a turn writes is derived from the context it read, not from the one
   that is there when it writes.  A V2 turn adds itself to the recent turns,
   of which the last MemoryTurns are kept ... *)
AfterV2(c, p) ==
  LET turns == Append(c.recent, p)
  IN [c EXCEPT !.exists = TRUE,
               !.recent = IF Len(turns) > MemoryTurns THEN Tail(turns) ELSE turns]

(* ... a V1 turn merges its plan (_merge_conversation_context) ... *)
AfterV1(c, p) == [c EXCEPT !.exists = TRUE, !.plan = p]

(* ... and a V1 turn that only asks a question back has no context_update:
   the whole context is replaced by the (missing) plan of its trace. *)
AfterV1Question == [exists |-> TRUE, plan |-> None, recent |-> << >>]

(* A restart of the server: the Postgres stores keep everything, the
   in-memory ones nothing. *)
StoresRestart ==
  \/ UNCHANGED stores
  \/ binding' = Unbound /\ context' = Forgotten
=============================================================================
