----------------------------- MODULE Migrations -----------------------------
(***************************************************************************)
(* `alembic upgrade head` and `alembic downgrade`, run by an operator while *)
(* the application writes rows (backend/migrations).  A revision is a       *)
(* program of statements.  Each revision runs in a transaction of its own,  *)
(* which its autocommit blocks cut in two; an index that is built           *)
(* concurrently goes through several transactions of the database.  The     *)
(* operator may be cut off anywhere and start again.                        *)
(*                                                                         *)
(* Statements of one transaction that nobody sees apart are one statement   *)
(* here, and a name may stand for several columns or indexes that are       *)
(* always created and dropped together.                                     *)
(***************************************************************************)
EXTENDS Naturals, Sequences, FiniteSets

CONSTANTS MaxCrashes,    \* bound: how often a run is cut off
          MaxReversals,  \* bound: how often the operator turns to downgrading
          MaxBroken      \* bound: rules that rows break at a time

ASSUME MigrationsAssumption ==
  MaxCrashes \in Nat /\ MaxReversals \in Nat /\ MaxBroken \in Nat

VARIABLES version,    \* alembic_version: the number of revisions applied
          db,         \* the committed schema
          work,       \* the schema as the open transaction sees it
          job,        \* the run of alembic
          errors,     \* history: the revisions in which a statement was refused
          broken,     \* the constraints that rows there are would break, were they there
          crashes, reversals

alembic == <<version, db, work, job, errors, broken, crashes, reversals>>

-----------------------------------------------------------------------------
(* The objects of the schema. *)

Enums == {"invoice_status", "payment_status", "subscription_status", "webhook_status"}
CoreTables == {"merchants", "invoices", "invoice_addresses", "payments", "customers"}
OtherTables == {"subscriptions", "subscription_payments", "wallet_shards", "api_keys",
                "webhook_deliveries", "audit_log"}
PeriodConstraint == "uq_subscription_payments_sub_period"
PaymentConstraint == "uq_payments_invoice_tx"
CheckConstraints == "ck"
RetryColumn == "webhook_dead_letters.retry_delivery_id"

PaymentIndex == "ix_payments_invoice_tx_unique"
AddressIndex == "ix_invoice_addresses_index"
NewAddressIndex == "ix_invoice_addresses_index_unique"
\* What rows can break before it is there: uniqueness, and the checks (the amount
\* of a subscription is 0 when it is below one piconero).
Rules == {PaymentConstraint, NewAddressIndex, PeriodConstraint, CheckConstraints}
RetryIndex == "ix_webhook_dead_letters_retry_delivery"
KeyIndexes == <<"ix_subscriptions_customer_id", "ix_subscriptions_prepay_invoice_id",
                "ix_webhook_deliveries_invoice_id", "ix_subscription_payments_invoice_id",
                "ix_webhook_dead_letters_delivery_id",
                "ix_subscription_renewal_events_invoice_id">>
IndexNames == {PaymentIndex, AddressIndex, NewAddressIndex, RetryIndex}
                \cup {KeyIndexes[k] : k \in DOMAIN KeyIndexes}

\* An index is listed before it is built, takes part in writes before it is
\* checked against the rows there are, and serves reads when it is valid.
IndexState == {"absent", "building", "built", "enforcing", "valid"}
Index == [state : IndexState, unique : BOOLEAN]
NoIndex == [state |-> "absent", unique |-> FALSE]

\* What becomes of a row when the row its foreign key refers to is deleted.
Policy == {"absent", "NO ACTION", "CASCADE", "SET NULL", "RESTRICT"}
LaterKeys == {"webhook_dead_letters.merchant_id", "webhook_dead_letters.delivery_id",
              "subscription_renewal_events.invoice_id", "subscriptions.prepay_invoice_id"}
FirstKeys == {"invoice_addresses.invoice_id", "audit_log.merchant_id", "api_keys.merchant_id",
              "customers.merchant_id", "invoices.merchant_id", "payments.invoice_id",
              "subscription_payments.subscription_id", "subscription_payments.invoice_id",
              "subscriptions.merchant_id", "subscriptions.customer_id",
              "wallet_shards.merchant_id", "webhook_deliveries.merchant_id",
              "webhook_deliveries.invoice_id"}
FK_CHANGES == [f \in FirstKeys \cup LaterKeys |->
                 CASE f = "invoice_addresses.invoice_id" -> "CASCADE"
                   [] f = "audit_log.merchant_id" -> "SET NULL"
                   [] OTHER -> "RESTRICT"]
RetryKey == RetryColumn
ForeignKeys == DOMAIN FK_CHANGES \cup {RetryKey}

NoSchema == [has |-> {}, fk |-> [f \in ForeignKeys |-> "absent"],
             idx |-> [n \in IndexNames |-> NoIndex]]

-----------------------------------------------------------------------------
(* Statements: what they need, and what they do to a schema. *)

Create(S, K, I) == [op |-> "create", names |-> S, keys |-> K, indexes |-> I]
Ensure(S)       == [op |-> "ensure", names |-> S]
Drop(S, K, I)   == [op |-> "drop", names |-> S, keys |-> K, indexes |-> I]
Wipe            == [op |-> "wipe"]
COMMIT          == [op |-> "commit"]
Build(n, u)     == [op |-> "build", index |-> n, unique |-> u]
DropIndex(n)    == [op |-> "dropindex", index |-> n]
Rename(a, b)    == [op |-> "rename", from |-> a, to |-> b]
UseIndex(n, c)  == [op |-> "useindex", index |-> n, constraint |-> c]
ReplaceKeys     == [op |-> "replacekeys"]
RestoreKeys     == [op |-> "restorekeys"]

\* The statements that do not wait for a commit.
Autocommitted(st) == st.op \in {"build", "dropindex"}

Present(s, n) == s.idx[n].state # "absent"

\* What PostgreSQL refuses, whatever rows there are.
Refused(st, s) ==
  \/ /\ st.op = "create"
     /\ \/ st.names \cap s.has # {}
        \/ \E f \in st.keys : s.fk[f] # "absent"
        \/ \E n \in st.indexes : Present(s, n)
  \/ st.op = "drop" /\ ~ st.names \subseteq s.has
  \/ st.op = "rename" /\ (~ Present(s, st.from) \/ Present(s, st.to))
  \/ /\ st.op = "useindex"
     /\ \/ s.idx[st.index].state # "valid" \/ ~ s.idx[st.index].unique
        \/ st.constraint \in s.has
  \/ st.op = "restorekeys" /\ \E f \in DOMAIN FK_CHANGES : s.fk[f] # FK_CHANGES[f]

\* What it refuses for the rows: a constraint is checked against all of them.
Contradicted(st) == st.op = "create" /\ st.names \cap broken # {}

DefaultPolicy(f) == IF f = RetryKey THEN "SET NULL" ELSE "NO ACTION"
With(s, I, x) == [n \in IndexNames |-> IF n \in I THEN x ELSE s.idx[n]]
Keyed(s, K, p(_)) == [f \in ForeignKeys |-> IF f \in K THEN p(f) ELSE s.fk[f]]
Columns(S) == IF "webhook_dead_letters" \in S THEN {RetryColumn} ELSE {}

Effect(st, s) ==
  CASE st.op = "create" ->
         [has |-> s.has \cup st.names, fk |-> Keyed(s, st.keys, DefaultPolicy),
          idx |-> With(s, st.indexes, [state |-> "valid", unique |-> FALSE])]
    [] st.op = "ensure" -> [s EXCEPT !.has = @ \cup st.names]
    [] st.op = "drop" ->
         [has |-> s.has \ (st.names \cup Columns(st.names)),
          fk |-> Keyed(s, st.keys, LAMBDA f : "absent"), idx |-> With(s, st.indexes, NoIndex)]
    [] st.op = "wipe" -> NoSchema
    [] st.op = "dropindex" -> [s EXCEPT !.idx[st.index] = NoIndex]
    [] st.op = "rename" -> [s EXCEPT !.idx[st.to] = s.idx[st.from], !.idx[st.from] = NoIndex]
    [] st.op = "useindex" -> [s EXCEPT !.has = @ \cup {st.constraint},
                                       !.idx[st.index] = NoIndex]
    [] st.op = "replacekeys" ->
         [s EXCEPT !.fk = Keyed(s, DOMAIN FK_CHANGES, LAMBDA f : FK_CHANGES[f])]
    [] st.op = "restorekeys" ->
         [s EXCEPT !.fk = Keyed(s, DOMAIN FK_CHANGES, DefaultPolicy)]
    [] OTHER -> s

-----------------------------------------------------------------------------
(* The revisions, by what they do. *)

\* Phase 0-4: everything there was before alembic.
baseline_core == Create(Enums \cup CoreTables,
                        {"invoices.merchant_id", "invoice_addresses.invoice_id",
                         "payments.invoice_id", "customers.merchant_id"}, {AddressIndex})
baseline_rest == Create(OtherTables,
                        FirstKeys \ {"invoices.merchant_id", "invoice_addresses.invoice_id",
                                     "payments.invoice_id", "customers.merchant_id"},
                        {KeyIndexes[1], KeyIndexes[3], KeyIndexes[4]})
baseline_down == <<Wipe>>

\* Mutant of phase5a_step1: without IF NOT EXISTS.
phase5a_step1_Plain == <<Create({"past_due"}, {}, {})>>

phase5a_step1 == <<Ensure({"past_due"})>>
phase5a_step2 == <<Create({"subscriptions.metadata_json", PeriodConstraint,
                           "ix_subscription_payments_subscription_id"}, {}, {})>>
phase5a_step2_down == <<Drop({"subscriptions.metadata_json", PeriodConstraint,
                              "ix_subscription_payments_subscription_id"}, {}, {})>>

phase6a == <<Create({"subscriptions.pending", "subscriptions.billing_anchor_at"}, {}, {})>>
phase6a_down == <<Drop({"subscriptions.pending", "subscriptions.billing_anchor_at"}, {}, {})>>

\* The value is added without IF NOT EXISTS, and a downgrade cannot remove it.
phase6b == <<Create({"dead_lettered", "webhook_dead_letters", "idx_cursor"},
                    {"webhook_dead_letters.merchant_id", "webhook_dead_letters.delivery_id"}, {})>>
phase6b_down == <<Drop({"webhook_dead_letters", "idx_cursor"},
                       {"webhook_dead_letters.merchant_id", "webhook_dead_letters.delivery_id",
                        RetryKey}, {RetryIndex, KeyIndexes[5]})>>

phase6c == <<Create({"subscription_renewal_events"},
                    {"subscription_renewal_events.invoice_id"}, {})>>
phase6c_down == <<Drop({"subscription_renewal_events"},
                       {"subscription_renewal_events.invoice_id"}, {KeyIndexes[6]})>>

\* Mutant of phase8a: the columns come before the raw COMMIT.
phase8a_ColumnsFirst == <<Create({"subscriptions.trial"}, {}, {}), COMMIT, Ensure({"trialing"}),
                          COMMIT>>

\* A raw COMMIT and BEGIN around the new value.
phase8a == <<COMMIT, Ensure({"trialing"}), COMMIT, Create({"subscriptions.trial"}, {}, {})>>
phase8a_down == <<Drop({"subscriptions.trial"}, {}, {})>>

phase8b == <<Create({"merchants.prepay_plans", "subscriptions.prepay"},
                    {"subscriptions.prepay_invoice_id"}, {})>>
phase8b_down == <<Drop({"merchants.prepay_plans", "subscriptions.prepay"},
                       {"subscriptions.prepay_invoice_id"}, {KeyIndexes[2]})>>

license_system == <<Create({"licenses"}, {}, {})>>
license_system_down == <<Drop({"licenses"}, {}, {})>>

\* Mutant of w1_01a: the index is taken for the constraint, as in w1_02a.
w1_01a_IndexOnly == <<COMMIT, Build(PaymentIndex, TRUE)>>

w1_01a == <<COMMIT, Build(PaymentIndex, TRUE), UseIndex(PaymentIndex, PaymentConstraint)>>
w1_01a_down == <<Drop({PaymentConstraint}, {}, {})>>

w1_02a == <<COMMIT, Build(NewAddressIndex, TRUE), DropIndex(AddressIndex),
            Rename(NewAddressIndex, AddressIndex)>>
w1_02a_down == <<Rename(AddressIndex, NewAddressIndex), COMMIT, Build(AddressIndex, FALSE),
                 DropIndex(NewAddressIndex)>>

w1_03a == <<COMMIT, Build(KeyIndexes[1], FALSE), Build(KeyIndexes[2], FALSE),
            Build(KeyIndexes[3], FALSE), Build(KeyIndexes[4], FALSE),
            Build(KeyIndexes[5], FALSE), Build(KeyIndexes[6], FALSE)>>
w1_03a_down == <<COMMIT, DropIndex(KeyIndexes[6]), DropIndex(KeyIndexes[5]),
                 DropIndex(KeyIndexes[4]), DropIndex(KeyIndexes[3]),
                 DropIndex(KeyIndexes[2]), DropIndex(KeyIndexes[1])>>

w1_04a == <<Create({CheckConstraints}, {}, {})>>
w1_04a_down == <<Drop({CheckConstraints}, {}, {})>>

\* Whatever key there is on the column is replaced, by name or not.
w1_05a == <<ReplaceKeys>>
w1_05a_down == <<RestoreKeys>>

w1_06a == <<Create({RetryColumn}, {RetryKey}, {}), COMMIT, Build(RetryIndex, FALSE)>>
w1_06a_down == <<COMMIT, DropIndex(RetryIndex), Drop({RetryColumn}, {RetryKey}, {})>>

Upgrade == <<<<baseline_core, baseline_rest>>, phase5a_step1, phase5a_step2, phase6a, phase6b,
             phase6c, phase8a, phase8b, license_system, w1_01a, w1_02a, w1_03a, w1_04a,
             w1_05a, w1_06a>>
Downgrade == <<baseline_down, << >>, phase5a_step2_down, phase6a_down, phase6b_down,
               phase6c_down, phase8a_down, phase8b_down, license_system_down, w1_01a_down,
               w1_02a_down, w1_03a_down, w1_04a_down, w1_05a_down, w1_06a_down>>
LastRevision == Len(Upgrade)

-----------------------------------------------------------------------------
(* A run of alembic. *)

\* `creating`: the index of this statement was put there by this run.
NoRun == [dir |-> "idle", pc |-> 0, creating |-> FALSE]
At(dir) == [dir |-> dir, pc |-> 1, creating |-> FALSE]

Running == job.dir # "idle"
Revision == IF job.dir = "up" THEN version + 1 ELSE version
Program == IF job.dir = "up" THEN Upgrade[Revision] ELSE Downgrade[Revision]
Statement == Program[job.pc]
AtStatement == Running /\ job.pc <= Len(Program)

AlembicInit ==
  /\ version = 0 /\ db = NoSchema /\ work = NoSchema /\ job = NoRun
  /\ errors = {} /\ broken = {} /\ crashes = 0 /\ reversals = 0

\* alembic upgrade head
UpgradeHead ==
  /\ ~ Running /\ version < LastRevision
  /\ job' = At("up") /\ work' = db
  /\ UNCHANGED <<version, db, errors, broken, crashes, reversals>>

\* alembic downgrade: by one revision or more (see Stamp)
DowngradeSome ==
  /\ ~ Running /\ version > 0 /\ reversals < MaxReversals
  /\ job' = At("down") /\ work' = db /\ reversals' = reversals + 1
  /\ UNCHANGED <<version, db, errors, broken, crashes>>

NextStatement == job' = [job EXCEPT !.pc = @ + 1, !.creating = FALSE]

\* A statement other than the building of an index, or one whose index is
\* there under its name already (IF NOT EXISTS), in whatever state.
Execute ==
  /\ AtStatement /\ ~ Refused(Statement, work) /\ ~ Contradicted(Statement)
  /\ Statement.op = "build" => Present(work, Statement.index) /\ ~ job.creating
  /\ work' = Effect(Statement, work)
  /\ db' = CASE Statement.op = "commit" -> work
             [] Autocommitted(Statement) -> work'
             [] OTHER -> db
  /\ NextStatement
  /\ UNCHANGED <<version, errors, broken, crashes, reversals>>

\* The transaction is rolled back and alembic ends.
Stop == job' = NoRun /\ work' = db /\ errors' = errors \cup {<<job.dir, Revision>>}

Refuse ==
  /\ AtStatement /\ (Refused(Statement, work) \/ Contradicted(Statement)) /\ Stop
  /\ UNCHANGED <<version, db, broken, crashes, reversals>>

\* CREATE INDEX CONCURRENTLY, transaction by transaction.
Put(state) ==
  /\ db' = [db EXCEPT !.idx[Statement.index] = [state |-> state, unique |-> Statement.unique]]
  /\ work' = db'

RuleOf(n) == IF n = PaymentIndex THEN PaymentConstraint ELSE NewAddressIndex
Duplicated(n) == Statement.unique /\ RuleOf(n) \in broken

BuildStarts ==
  /\ AtStatement /\ Statement.op = "build" /\ ~ Present(db, Statement.index)
  /\ Put("building") /\ job' = [job EXCEPT !.creating = TRUE]
  /\ UNCHANGED <<version, errors, broken, crashes, reversals>>

\* The rows are read, and read again when new rows go through the index.
BuildGoesOn(from, to) ==
  /\ AtStatement /\ Statement.op = "build" /\ job.creating
  /\ db.idx[Statement.index].state = from
  /\ IF from # "built" /\ Duplicated(Statement.index)
       THEN Stop /\ UNCHANGED db
       ELSE /\ Put(to) /\ UNCHANGED errors
            /\ IF to = "valid" THEN NextStatement ELSE UNCHANGED job
  /\ UNCHANGED <<version, broken, crashes, reversals>>

BuildScans == BuildGoesOn("building", "built")
BuildEnforces == BuildGoesOn("built", "enforcing")
BuildValidates == BuildGoesOn("enforcing", "valid")

\* The end of a revision: the version is written in its last transaction.  The rows
\* go with the tables.
Stamp ==
  /\ Running /\ job.pc > Len(Program)
  /\ db' = work
  /\ IF job.dir = "up"
       THEN /\ version' = version + 1
            /\ job' = IF version' = LastRevision THEN NoRun ELSE At("up")
       ELSE /\ version' = version - 1
            /\ job' \in {NoRun} \cup {x \in {At("down")} : version' > 0}
  /\ broken' = IF version' = 0 THEN {} ELSE broken
  /\ UNCHANGED <<work, errors, crashes, reversals>>

\* The container, the connection or the database goes away.
Crash ==
  /\ Running /\ crashes < MaxCrashes
  /\ job' = NoRun /\ work' = db /\ crashes' = crashes + 1
  /\ UNCHANGED <<version, db, errors, broken, reversals>>

-----------------------------------------------------------------------------
(* The rows, external: what the application writes, and an operator cleans. *)

\* Rows cannot break what is there, what an open transaction has locked the table
\* for, or what an index keeps out.
Enforced(c) ==
  \/ c \in db.has \cup work.has
  \/ \E n \in {PaymentIndex, AddressIndex, NewAddressIndex} :
       /\ db.idx[n].unique /\ db.idx[n].state \in {"enforcing", "valid"}
       /\ c = RuleOf(n)

BreakRule(c) ==
  /\ version > 0 /\ c \notin broken /\ ~ Enforced(c) /\ Cardinality(broken) < MaxBroken
  /\ broken' = broken \cup {c}
  /\ UNCHANGED <<version, db, work, job, errors, crashes, reversals>>

CleanRows(c) ==
  /\ c \in broken /\ broken' = broken \ {c}
  /\ UNCHANGED <<version, db, work, job, errors, crashes, reversals>>

AlembicNext ==
  \/ UpgradeHead \/ DowngradeSome \/ Execute \/ Refuse
  \/ BuildStarts \/ BuildScans \/ BuildEnforces \/ BuildValidates
  \/ Stamp \/ Crash
  \/ \E c \in Rules : BreakRule(c) \/ CleanRows(c)

AlembicSpec == AlembicInit /\ [][AlembicNext]_alembic

-----------------------------------------------------------------------------
(* Properties. *)

\* The types of the variables.
AlembicTypeOK ==
  /\ version \in 0 .. LastRevision
  /\ \A s \in {db, work} : /\ s.fk \in [ForeignKeys -> Policy]
                           /\ s.idx \in [IndexNames -> Index]
  /\ job.dir \in {"idle", "up", "down"} /\ job.pc \in Nat /\ job.creating \in BOOLEAN
  /\ broken \subseteq Rules
  /\ crashes \in 0 .. MaxCrashes /\ reversals \in 0 .. MaxReversals

\* What the revisions say they add, apart from the values of enums, which no
\* downgrade removes, and from what a revision commits before its version.
Provides == <<Enums \cup CoreTables \cup OtherTables, {},
              {"subscriptions.metadata_json", PeriodConstraint,
               "ix_subscription_payments_subscription_id"},
              {"subscriptions.pending", "subscriptions.billing_anchor_at"},
              {"webhook_dead_letters", "idx_cursor"}, {"subscription_renewal_events"},
              {"subscriptions.trial"}, {"merchants.prepay_plans", "subscriptions.prepay"},
              {"licenses"}, {PaymentConstraint}, {}, {}, {CheckConstraints}, {}, {}>>

\* Whatever is cut off, refused, repeated or taken back, the committed schema
\* has exactly the tables, columns and constraints of the revisions applied, and
\* the foreign keys have the policies of w1_05a from that revision on, all of
\* them or none.
SchemaFollowsVersion ==
  /\ \A r \in 1 .. LastRevision : /\ r <= version => Provides[r] \subseteq db.has
                          /\ r > version => Provides[r] \cap db.has = {}
  /\ version >= 14 => \A f \in DOMAIN FK_CHANGES : db.fk[f] = FK_CHANGES[f]
  /\ version < 14 => \A f \in DOMAIN FK_CHANGES : db.fk[f] \in {"absent", "NO ACTION"}

\* Once w1_01a is applied no invoice has two rows for a transaction, whatever
\* was inserted while its index was built; and no index that failed to build
\* becomes the constraint.
PaymentsAreUnique == version >= 10 => PaymentConstraint \notin broken

\* A run that was cut off or refused can be repeated and goes through, except
\* for the revisions whose constraints rows may contradict (3, 13), whose unique
\* index is built over duplicates or left half built (10, 11), and those that
\* commit before they are done: an enum value that outlives its downgrade (5), a
\* column ahead of its index (15), and a rename ahead of the rest (11, downwards).
OnlyTheseAreRefused ==
  errors \subseteq {<<"up", 3>>, <<"up", 5>>, <<"up", 10>>, <<"up", 11>>, <<"up", 13>>,
                    <<"up", 15>>, <<"down", 11>>}

\* Does NOT hold: w1_02a promises "unique invoice subaddress coordinates", but a
\* build that failed or was cut off leaves an index that the next run takes for
\* built (IF NOT EXISTS), renames and stamps.
AddressesAreUnique == version >= 11 => NewAddressIndex \notin broken
=============================================================================
