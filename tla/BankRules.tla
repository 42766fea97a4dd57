----------------------------- MODULE BankRules -----------------------------
(***************************************************************************)
(* Bank rules: internal/bankrules/bankrules.go (what a rule matches and how *)
(* it splits an amount), internal/repository/bank_rule.go and              *)
(* internal/handlers/bank_rule.go (the table, and the order users drag the *)
(* rules into).  The first rule that matches a statement line is the one   *)
(* suggested, so the order is part of the rules.                           *)
(*                                                                         *)
(* A text is a sequence of words, already trimmed and folded to one case,  *)
(* with the figure it can be read as, if any.  Percentages are in tenths,  *)
(* and a tenth stands for the billionth that Validate forgives.  Amounts   *)
(* are in the smallest unit that a division leaves.                        *)
(***************************************************************************)
EXTENDS Integers, Sequences, FiniteSets, SequencesExt, FiniteSetsExt, TLC

CONSTANTS
  Rules,        \* row ids, never used twice
  RankOf,       \* the alphabetic rank of each rule's name
  Draggers,     \* users with the list of rules open
  Contents,     \* what users send for a rule: type, active, definition
  Candidates,   \* statement lines, as the fields rules can test
  Totals,       \* amounts to split
  NoRule

ASSUME RulesAssumption ==
  /\ NoRule \notin Rules
  /\ IsFiniteSet(Rules)
  /\ RankOf \in [Rules -> Nat]
  /\ \A r, q \in Rules : r # q => RankOf[r] # RankOf[q]
  /\ Totals \subseteq Int
  /\ \A x \in Contents : x.def.fixed \in Seq(Int) /\ x.def.percent \in Seq(Int)

VARIABLES
  rule,         \* rows: state, order, content
  drag,         \* each user's page, and how far its Reorder has got
  asked         \* the list of the last Reorder that committed

ruleVars == <<rule, drag, asked>>

----------------------------------------------------------------------------
(* Conditions. *)

Text(words) == [words |-> words, figure |-> {}]
Figure(n) == [words |-> <<ToString(n)>>, figure |-> {n}]

Fields == {"PAYEE", "DESCRIPTION", "REFERENCE", "AMOUNT", "TYPE", "CHEQUENUMBER", "ANY_TEXT"}
AnyTextField == {"PAYEE", "DESCRIPTION", "REFERENCE", "CHEQUENUMBER"}
Comparisons == {"GREATERTHAN", "GREATERTHANOREQUAL", "LESSTHAN", "LESSTHANOREQUAL"}
BlankTests == {"ISBLANK", "ISNOTBLANK"}
Operators == Comparisons \cup BlankTests
             \cup {"CONTAINS", "NOTCONTAINS", "EQUALS", "NOTEQUALS", "STARTSWITH", "ENDSWITH"}

Direction(c) == IF c.amount < 0 THEN "SPEND" ELSE "RECEIVE"

FieldValue(c, field) ==
  CASE field = "PAYEE"        -> c.payee
    [] field = "DESCRIPTION"  -> c.description
    [] field = "REFERENCE"    -> c.reference
    [] field = "CHEQUENUMBER" -> c.cheque
    [] field = "AMOUNT"       -> Figure(c.amount)
    [] field = "TYPE"         -> Text(<<Direction(c)>>)

Within(part, text) == \E i, j \in 0..Len(text) : SubSeq(text, i + 1, j) = part

Comparable(value, want) == value.figure # {} /\ want.figure # {}
Magnitude(t) == LET n == CHOOSE n \in t.figure : TRUE IN IF n < 0 THEN -n ELSE n

Equal(field, value, want) ==
  IF field = "AMOUNT" THEN Comparable(value, want) /\ Magnitude(value) = Magnitude(want)
  ELSE value.words = want.words

FieldMatches(c, field, op, want) ==
  LET value == FieldValue(c, field)
  IN \/ op = "CONTAINS"    /\ Within(want.words, value.words)
     \/ op = "NOTCONTAINS" /\ ~Within(want.words, value.words)
     \/ op = "EQUALS"      /\ Equal(field, value, want)
     \/ op = "NOTEQUALS"   /\ ~Equal(field, value, want)
                           /\ (field = "AMOUNT" => Comparable(value, want))
     \/ op = "STARTSWITH"  /\ IsPrefix(want.words, value.words)
     \/ op = "ENDSWITH"    /\ IsSuffix(want.words, value.words)
     \/ op = "ISBLANK"     /\ value.words = << >>
     \/ op = "ISNOTBLANK"  /\ value.words # << >>
     \/ /\ op \in Comparisons
        /\ Comparable(value, want)
        /\ CASE op = "GREATERTHAN"        -> Magnitude(value) > Magnitude(want)
             [] op = "GREATERTHANOREQUAL" -> Magnitude(value) >= Magnitude(want)
             [] op = "LESSTHAN"           -> Magnitude(value) < Magnitude(want)
             [] op = "LESSTHANOREQUAL"    -> Magnitude(value) <= Magnitude(want)

ConditionMatches(cond, c) ==
  IF cond.field = "ANY_TEXT"
  THEN \E f \in AnyTextField : FieldMatches(c, f, cond.op, cond.value)
  ELSE FieldMatches(c, cond.field, cond.op, cond.value)

Scoped(def, c) ==
  LET hits == {i \in DOMAIN def.conditions : ConditionMatches(def.conditions[i], c)}
  IN /\ def.scope \in {"", c.account}
     /\ hits # {}
     /\ def.mode = "ANY" \/ hits = DOMAIN def.conditions

Matches(content, c) ==
  /\ content.active
  /\ content.type \in {"SPEND", "RECEIVE"} => content.type = Direction(c)
  /\ Scoped(content.def, c)

----------------------------------------------------------------------------
(* Allocations: fixed amounts come off the top, percentages share the rest. *)

Whole == 1000

SumSeq(s) == FoldFunction(+, 0, s)

\* A lone line without a figure takes everything.
Swallows(def) ==
  \/ def.percent = <<0>> /\ def.fixed = << >>
  \/ def.fixed = <<0>> /\ def.percent = << >>

Shares(percents, rest) ==
  IF percents = <<0>> THEN <<rest>>
  ELSE LET n == Len(percents)
           Share(i) == (rest * percents[i]) \div Whole
       IN [i \in 1..n |-> IF i < n THEN Share(i)
                          ELSE rest - SumSeq([k \in 1..(n - 1) |-> Share(k)])]

Remainder(def, total) == total - SumSeq(def.fixed)

Allocate(def, total) ==
  IF Swallows(def) THEN <<total>>
  ELSE def.fixed \o Shares(def.percent, Remainder(def, total))

ValidCondition(cond) ==
  /\ cond.field \in Fields
  /\ cond.op \in Operators
  /\ cond.op \notin BlankTests => cond.value.words # << >>
  /\ cond.op \in Comparisons => cond.value.figure # {}

\* faulty: the percentages need not add up
ValidShares(percents) == \A i \in DOMAIN percents : percents[i] \in 0..Whole

ValidPercents(percents) ==
  /\ \A i \in DOMAIN percents : percents[i] \in 0..Whole
  /\ percents \in {<< >>, <<0>>} \/ SumSeq(percents) \in (Whole - 1)..(Whole + 1)

Validate(def) ==
  /\ def.mode \in {"ALL", "ANY"}
  /\ def.conditions # << >>
  /\ \A i \in DOMAIN def.conditions : ValidCondition(def.conditions[i])
  /\ def.transfer \/ def.fixed # << >> \/ def.percent # << >>
  /\ def.oneAccount => def.scope # ""
  /\ ValidPercents(def.percent)

----------------------------------------------------------------------------
(* The table. *)

InList == {r \in Rules : rule[r].state = "kept"}

\* The order of List: sort_order, then name.
Before(r, q) ==
  \/ rule[r].order < rule[q].order
  \/ rule[r].order = rule[q].order /\ RankOf[r] < RankOf[q]

\* The first rule of the list that matches a line.
Suggest(c) ==
  LET hits == {r \in InList : Matches(rule[r].content, c)}
  IN IF hits = {} THEN NoRule
     ELSE CHOOSE r \in hits : \A q \in hits \ {r} : Before(r, q)

AnyContent == CHOOSE x \in Contents : TRUE
NoRow == [state |-> "unused", order |-> 0, content |-> AnyContent]
NoDrag == [at |-> "idle", list |-> << >>, next |-> 1, wrote |-> {}]

RulesInit ==
  /\ rule = [r \in Rules |-> NoRow]
  /\ drag = [d \in Draggers |-> NoDrag]
  /\ asked = << >>

\* Rows that a Reorder under way has updated stay locked until it ends.
LockedBy(d) == {drag[d].list[i] : i \in drag[d].wrote}
Locked(r) == \E d \in Draggers : r \in LockedBy(d)

Accepted(content) ==
  content.type \in {"SPEND", "RECEIVE", "TRANSFER"} /\ Validate(content.def)

CreateRule(r, content) ==
  /\ rule[r].state = "unused"
  /\ Accepted(content)
  /\ LET last == IF InList = {} THEN 0 ELSE Max({rule[q].order : q \in InList}) + 1
     IN rule' = [rule EXCEPT ![r] = [state |-> "kept", order |-> last, content |-> content]]
  /\ UNCHANGED <<drag, asked>>

UpdateRule(r, content) ==
  /\ rule[r].state = "kept" /\ ~Locked(r)
  /\ Accepted(content)
  /\ rule' = [rule EXCEPT ![r].content = content]
  /\ UNCHANGED <<drag, asked>>

DeleteRule(r) ==
  /\ rule[r].state = "kept" /\ ~Locked(r)
  /\ rule' = [rule EXCEPT ![r] = [NoRow EXCEPT !.state = "gone"]]
  /\ UNCHANGED <<drag, asked>>

\* A user sees the list and drags it into another order; others go on meanwhile.
OpenList(d, list) ==
  /\ drag[d].at = "idle"
  /\ InList # {}
  /\ list \in SetToSeqs(InList)
  /\ drag' = [drag EXCEPT ![d] = [NoDrag EXCEPT !.at = "page", !.list = list]]
  /\ UNCHANGED <<rule, asked>>

\* faulty: each row is written on its own, outside a transaction
ReorderRowAlone(d) ==
  LET i == drag[d].next
      r == drag[d].list[i]
  IN /\ drag[d].at = "page"
     /\ i <= Len(drag[d].list)
     /\ rule' = IF r \in InList THEN [rule EXCEPT ![r].order = i - 1] ELSE rule
     /\ drag' = [drag EXCEPT ![d].next = i + 1]
     /\ UNCHANGED asked

\* The next UPDATE of a Reorder: a row another one has updated is waited for, and a
\* rule that is gone matches no row.
ReorderRow(d) ==
  LET i == drag[d].next
      r == drag[d].list[i]
  IN /\ drag[d].at = "page"
     /\ i <= Len(drag[d].list)
     /\ \A e \in Draggers \ {d} : r \notin LockedBy(e)
     /\ drag' = [drag EXCEPT ![d].next = i + 1,
                             ![d].wrote = IF r \in InList THEN @ \cup {i} ELSE @]
     /\ UNCHANGED <<rule, asked>>

CommitReorder(d) ==
  /\ drag[d].at = "page"
  /\ drag[d].next > Len(drag[d].list)
  /\ rule' = [r \in Rules |->
       IF r \in LockedBy(d)
       THEN [rule[r] EXCEPT !.order = (CHOOSE i \in drag[d].wrote : drag[d].list[i] = r) - 1]
       ELSE rule[r]]
  /\ asked' = drag[d].list
  /\ drag' = [drag EXCEPT ![d] = NoDrag]

\* The page is left, the request dies, or it is the victim of a deadlock.
GiveUpReorder(d) ==
  /\ drag[d].at = "page"
  /\ drag' = [drag EXCEPT ![d] = NoDrag]
  /\ UNCHANGED <<rule, asked>>

RulesNext ==
  \/ \E r \in Rules, x \in Contents : CreateRule(r, x) \/ UpdateRule(r, x)
  \/ \E r \in Rules : DeleteRule(r)
  \/ \E d \in Draggers :
       \/ \E list \in SetToSeqs(InList) : OpenList(d, list)
       \/ ReorderRow(d)
       \/ CommitReorder(d)
       \/ GiveUpReorder(d)

RulesSpec == RulesInit /\ [][RulesNext]_ruleVars

(***************************************************************************)
(* Properties                                                              *)
(***************************************************************************)
RulesTypeOK ==
  /\ rule \in [Rules -> [state : {"unused", "kept", "gone"}, order : Nat,
                        content : Contents \cup {AnyContent}]]
  /\ \A d \in Draggers : /\ drag[d].at \in {"idle", "page"}
                         /\ drag[d].wrote \subseteq 1..(drag[d].next - 1)
  /\ Range(asked) \subseteq Rules

\* "two people dragging rules at the same time cannot interleave into a third order"
\* (Reorder): of the rules in the list that was saved last, the first in that list
\* that matches a line is the one suggested, or a rule the list did not have is.
FirstAskedWins ==
  \A c \in Candidates :
    LET hits == {i \in DOMAIN asked :
                   asked[i] \in InList /\ Matches(rule[asked[i]].content, c)}
    IN hits # {} => \/ Suggest(c) = asked[Min(hits)]
                    \/ Suggest(c) \notin Range(asked)

\* What each line asks for of the remainder: a lone line without a figure, all of it.
Asked(percents) == IF percents = <<0>> THEN <<Whole>> ELSE percents

\* "the split sums to the total and the resulting journal still balances" (Allocate):
\* a rule that shares what is left sums to the total, whatever the total and what was
\* fixed before, and no line of a saved rule, the last one included, gets more or less
\* than it asks for, but for the rounding of each line and the tenth that is forgiven.
SplitsFoot ==
  \A r \in InList : LET def == rule[r].content.def IN
    def.percent # << >> =>
      \A total \in Totals :
        LET rest   == Remainder(def, total)
            shares == Shares(def.percent, rest)
            spare  == Whole * Len(def.percent) + (IF rest < 0 THEN -rest ELSE rest)
        IN /\ SumSeq(Allocate(def, total)) = total
           /\ \A i \in DOMAIN shares :
                Whole * shares[i] - rest * Asked(def.percent)[i] \in -spare..spare
=============================================================================
