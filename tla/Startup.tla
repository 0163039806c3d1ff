------------------------------ MODULE Startup ------------------------------
(***************************************************************************)
(* The start of the worker processes over one database: lifespan in        *)
(* backend/app/main.py, init_database and _run_migrations in               *)
(* database/session_store.py, seed_defaults in services/faq_service.py,    *)
(* and what api/faq_routes.py does to the table that is seeded.            *)
(*                                                                         *)
(* Every process looks for missing columns and adds them, one transaction  *)
(* per column; none waits for another.  The process that finds a column    *)
(* absent and present when it adds it does not come up, and is started     *)
(* again.  Left out: the warnings about Ollama and PostgreSQL, which       *)
(* nothing follows, what the services load (DocumentIndex.tla), and the    *)
(* order in which the tables are created, which does not matter.           *)
(***************************************************************************)
EXTENDS Integers, FiniteSets

CONSTANTS
    Worker,       \* processes that serve the application
    Columns,      \* number of columns the migrations know, in their order
    Defaults,     \* number of default FAQs, in their order
    MaxOwn,       \* bound: FAQs of the administrators at a time
    MaxCrashes    \* bound: deaths of a process that are not its own doing

VARIABLES
    tables,   \* the tables exist
    cols,     \* columns of the migrations its tables have, or will be created with
    faqs,     \* rows of table faqs: copies of each default, and the others (0)
    boot,     \* how far each process is
    crashes   \* deaths so far

vars == <<tables, cols, faqs, boot, crashes>>

Column  == 1..Columns
Default == 1..Defaults
Serving == [pc |-> "serving"]
Down    == [pc |-> "down"]
At(w, pc)     == boot[w].pc = pc
Go(w, pc, n)  == boot' = [boot EXCEPT ![w] = [pc |-> pc, n |-> n]]
Settle(w, r)  == boot' = [boot EXCEPT ![w] = r]

TypeOK ==
    /\ tables \in BOOLEAN /\ cols \subseteq Column
    /\ \A i \in Default : faqs[i] \in 0..Cardinality(Worker)
    /\ faqs[0] \in 0..MaxOwn
    /\ \A w \in Worker : boot[w].pc \in {"down", "schema", "look", "alter", "count",
                                         "seed", "wire", "serving"}
    /\ crashes \in 0..MaxCrashes

\* The database of an earlier release, or none.  CREATE TABLE names the columns of
\* its day, which at no time were all that the migrations add.
Init ==
    /\ tables \in BOOLEAN
    /\ \E k \in 0..Columns : cols = 1..k /\ (~tables => k < Columns)
    /\ \E n \in 0..1 : faqs = [i \in Default \cup {0} |-> IF tables THEN n ELSE 0]
    /\ boot = [w \in Worker |-> Down]
    /\ crashes = 0

-----------------------------------------------------------------------------
(* lifespan *)

\* By the supervisor of the processes.
Start(w) ==
    /\ At(w, "down")
    /\ Go(w, "schema", 0)
    /\ UNCHANGED <<tables, cols, faqs, crashes>>

\* executescript(_SCHEMA): what exists already is left alone.
Schema(w) ==
    /\ At(w, "schema")
    /\ tables' = TRUE
    /\ Go(w, "look", 1)
    /\ UNCHANGED <<cols, faqs, crashes>>

\* The step after column n.
Onward(w, n) == IF n = Columns THEN Go(w, "count", 0) ELSE Go(w, "look", n + 1)

\* _has_column
Look_FirstOnly(w) ==
    LET n == boot[w].n IN
    /\ At(w, "look")
    /\ IF n \notin cols THEN Go(w, "alter", n)
       ELSE IF n = 1 THEN Go(w, "count", 0) ELSE Onward(w, n)
    /\ UNCHANGED <<tables, cols, faqs, crashes>>
Look(w) ==
    LET n == boot[w].n IN
    /\ At(w, "look")
    /\ IF n \in cols THEN Onward(w, n) ELSE Go(w, "alter", n)
    /\ UNCHANGED <<tables, cols, faqs, crashes>>

\* ALTER TABLE ... ADD COLUMN, or "duplicate column name", which nothing catches.
Alter(w) ==
    LET n == boot[w].n IN
    /\ At(w, "alter")
    /\ IF n \in cols THEN Settle(w, Down) /\ UNCHANGED cols
       ELSE cols' = cols \cup {n} /\ Onward(w, n)
    /\ UNCHANGED <<tables, faqs, crashes>>

\* seed_defaults: into an empty table.
CountFaqs(w) ==
    /\ At(w, "count")
    /\ IF \A i \in DOMAIN faqs : faqs[i] = 0 THEN Go(w, "seed", 1) ELSE Go(w, "wire", 0)
    /\ UNCHANGED <<tables, cols, faqs, crashes>>

\* create_faq, once for each; the rest is left out when one fails.
SeedFaq(w) ==
    LET n == boot[w].n IN
    /\ At(w, "seed")
    /\ faqs' = [faqs EXCEPT ![n] = @ + 1]
    /\ IF n = Defaults THEN Go(w, "wire", 0) ELSE Go(w, "seed", n + 1)
    /\ UNCHANGED <<tables, cols, crashes>>
SeedFails(w) ==
    /\ At(w, "count") \/ At(w, "seed")
    /\ Go(w, "wire", 0)
    /\ UNCHANGED <<tables, cols, faqs, crashes>>

\* _wire_services
Wire(w) ==
    /\ At(w, "wire")
    /\ Settle(w, Serving)
    /\ UNCHANGED <<tables, cols, faqs, crashes>>

Crash(w) ==
    /\ ~At(w, "down") /\ crashes < MaxCrashes
    /\ crashes' = crashes + 1
    /\ Settle(w, Down)
    /\ UNCHANGED <<tables, cols, faqs>>

-----------------------------------------------------------------------------
(* /faq, served by a process that is up *)

CreateFaq(w) ==
    /\ At(w, "serving") /\ faqs[0] < MaxOwn
    /\ faqs' = [faqs EXCEPT ![0] = @ + 1]
    /\ UNCHANGED <<tables, cols, boot, crashes>>
DeleteFaq(w, i) ==
    /\ At(w, "serving") /\ faqs[i] > 0
    /\ faqs' = [faqs EXCEPT ![i] = @ - 1]
    /\ UNCHANGED <<tables, cols, boot, crashes>>

-----------------------------------------------------------------------------
Boot(w) ==
    \/ Start(w) \/ Schema(w) \/ Look(w) \/ Alter(w) \/ CountFaqs(w)
    \/ SeedFaq(w) \/ SeedFails(w) \/ Wire(w)
Next ==
    \E w \in Worker :
       \/ Boot(w) \/ Crash(w) \/ CreateFaq(w)
       \/ \E i \in Default \cup {0} : DeleteFaq(w, i)

\* A process that is down is started again, and one that starts is not halted.
Fairness == \A w \in Worker : WF_vars(Boot(w))
Spec == Init /\ [][Next]_vars /\ Fairness

-----------------------------------------------------------------------------
(* Properties *)

\* In the end every process serves, over a database with every column: whatever
\* release it was left by, wherever a process died between two columns, and however
\* often one lost the race for a column to another and had to be started again
\* (_run_migrations asks for each column anew, "columns/tables that may be missing
\* from older databases").
StartsComplete == <>[](\A w \in Worker : At(w, "serving") /\ cols = Column)
=============================================================================
