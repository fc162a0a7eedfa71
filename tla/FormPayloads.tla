----------------------------- MODULE FormPayloads -----------------------------
(***************************************************************************)
(* What a requester fills in: the fields of a form (form-schema.ts), the    *)
(* payload of a request that follows one version of it - saved unchecked,   *)
(* checked and normalised when it is sent - and its migration to the latest *)
(* version when the request is cloned (payload-migration.ts).               *)
(*                                                                          *)
(* A value has a kind, its JSON shape; what a field's fixed bounds let      *)
(* through (length, range, days, options) is a set of contents, and a bound *)
(* that is "today" is that of the day on which the payload is checked.      *)
(* Numbers are in hundredths, to which computed cells are rounded.  Rows    *)
(* are objects.                                                             *)
(***************************************************************************)
EXTENDS Integers, Sequences

CONSTANTS
  Key,        \* of fields and of columns
  Entered,    \* lists of fields an administrator enters
  Draft,      \* payloads a client saves
  Text,       \* texts, days and options
  Trim,       \* text without outer blanks
  Fold,       \* trimmed text in lower case
  Blank,      \* the empty text
  Day,        \* of a text
  Entity,     \* objects with an id and a name
  SentId,      \* row ids a client sends, none of them blank
  BareId,     \* a row id without outer blanks
  LongId      \* row ids of more than 64 characters, outer blanks aside

VARIABLES
  form,       \* the latest version of the form
  fields,     \* the version the request follows
  payload,
  phase,
  today

formVars == <<form, fields, payload, phase, today>>

Texts == {"text", "textarea"}
Numbers == {"number", "money"}
References == {"user", "department", "principal"}
Families == {Texts, Numbers}
ColumnType == {"text", "number", "money", "date", "select", "formula"}
FormFieldType == Texts \cup Numbers \cup References \cup {"date", "dateRange", "select", "switch", "table", "formula"}

ColumnFormula == [left : Key, op : {"+", "-", "*", "/"}, right : Key \cup Int]
TableColumn ==
  [key : Key, type : ColumnType, required : BOOLEAN, multiple : BOOLEAN, allowed : SUBSET (Text \cup Int), todays : {{}},
   columns : {<<>>}, minRows : Nat, maxRows : Nat, unique : BOOLEAN, formula : ColumnFormula]
FormField ==
  [key : Key, type : FormFieldType, required : BOOLEAN, multiple : BOOLEAN, allowed : SUBSET (Text \cup Int),
   todays : SUBSET {"minDate", "maxDate"}, columns : Seq(TableColumn), minRows : Nat, maxRows : Nat, unique : BOOLEAN, formula : ColumnFormula]

(* JSON; a row without an id, or with a blank one, has number 0, those of    *)
(* the server are below it                                                   *)
Nothing == [kind |-> "null"]
Kinds == {"string", "number", "boolean", "strings", "record", "records", "rows"}

IsCell(v) ==
  /\ v.kind \in Kinds /\ v = [kind |-> v.kind, of |-> v.of]
  /\ v.kind = "string" => v.of \in Text
  /\ v.kind = "number" => v.of \in Int
  /\ v.kind = "strings" => v.of \in Seq(Text)
IsRow(row) ==
  /\ row.id \in Int /\ row = [id |-> row.id, cells |-> [k \in Key |-> row.cells[k]]]
  /\ \A k \in Key : row.cells[k] # Nothing => IsCell(row.cells[k])
IsTable(v) ==
  /\ Len(v.of) \in Nat /\ v.of = [i \in 1..Len(v.of) |-> v.of[i]]
  /\ \A i \in 1..Len(v.of) : IsRow(v.of[i])
IsPayload(p) ==
  /\ p = [k \in Key |-> p[k]]
  /\ \A k \in Key : p[k] # Nothing => IsCell(p[k]) /\ (p[k].kind = "rows" => IsTable(p[k]))

ASSUME FormsAssumption ==
  /\ Entered \subseteq Seq(FormField)
  /\ \A p \in Draft :
       /\ IsPayload(p)
       /\ \A k \in Key : p[k].kind = "rows" => \A i \in DOMAIN p[k].of : p[k].of[i].id \in SentId \cup {0}
  /\ Trim \in [Text -> Text] /\ Fold \in [Text -> Text]
  /\ \A t \in Text : Trim[Trim[t]] = Trim[t] /\ Fold[Trim[t]] = Fold[t]
  /\ Day \in [Text -> Int]
  /\ SentId \subseteq Nat \ {0} /\ BareId \in [SentId -> SentId] /\ \A id \in SentId : BareId[BareId[id]] = BareId[id]

Keys(fs) == { fs[i].key : i \in DOMAIN fs }
DistinctKeys(fs) == \A i, j \in DOMAIN fs : fs[i].key = fs[j].key => i = j
First(fs, k) == fs[CHOOSE i \in DOMAIN fs : fs[i].key = k /\ \A j \in 1..(i - 1) : fs[j].key # k]
CellKeys(f) == { k \in Keys(f.columns) : First(f.columns, k).type # "formula" }

-----------------------------------------------------------------------------
(* formSchemaSchema                                                         *)

HasOptions(f) == f.type = "select" => f.allowed # {}

FormulaOperandsValid(c, columns) ==
  LET isOperand(k) == \E i \in DOMAIN columns : columns[i].key = k /\ columns[i].type \in Numbers
  IN  isOperand(c.formula.left) /\ (c.formula.right \in Key => isOperand(c.formula.right))

TableIsValid(f) ==
  /\ f.columns # <<>> /\ DistinctKeys(f.columns)
  /\ f.minRows <= f.maxRows
  /\ \A i \in DOMAIN f.columns :
       /\ HasOptions(f.columns[i])
       /\ f.columns[i].type = "formula" => FormulaOperandsValid(f.columns[i], f.columns)

FormIsValid(fs) ==
  /\ DistinctKeys(fs)
  /\ \A i \in DOMAIN fs :
       fs[i].type # "formula" /\ HasOptions(fs[i]) /\ (fs[i].type = "table" => TableIsValid(fs[i]))

-----------------------------------------------------------------------------
(* computeFormula: nothing without both numbers, or for a division by zero   *)
Round(n, d) == IF d < 0 THEN (-2 * n - d) \div (-2 * d) ELSE (2 * n + d) \div (2 * d)   \* halves go up

Result(op, l, r) ==
  CASE op = "+" -> l + r [] op = "-" -> l - r [] op = "*" -> Round(l * r, 100) [] op = "/" -> Round(100 * l, r)

ComputeFormula(cells, formula) ==
  LET fixed == [kind |-> "number", of |-> formula.right]
      l == cells[formula.left]
      r == IF formula.right \in Key THEN cells[formula.right] ELSE fixed
      isNumber(v) == v.kind = "number"
  IN IF isNumber(l) /\ isNumber(r) /\ ~(formula.op = "/" /\ r.of = 0)
     THEN [kind |-> "number", of |-> Result(formula.op, l.of, r.of)]
     ELSE Nothing

Computed(columns, cells) ==
  [k \in Key |-> IF k \in Keys(columns) /\ First(columns, k).type = "formula"
                 THEN ComputeFormula(cells, First(columns, k).formula) ELSE cells[k]]

-----------------------------------------------------------------------------
(* fieldValidator and tableValidator: whether a value is accepted on a day   *)

WithinToday(f, t, day) ==
  ("minDate" \in f.todays => Day[t] >= day) /\ ("maxDate" \in f.todays => Day[t] <= day)

Fits(f, v, day) ==
  CASE f.type \in Texts -> v.kind = "string" /\ Trim[v.of] \in f.allowed /\ (f.required => Trim[v.of] # Blank)
    [] f.type \in Numbers -> v.kind = "number" /\ v.of \in f.allowed
    [] f.type = "date" -> v.kind = "string" /\ v.of \in f.allowed /\ WithinToday(f, v.of, day)
    [] f.type = "select" -> v.kind = "string" /\ v.of \in f.allowed
    [] f.type = "dateRange" ->
         v.kind = "strings" /\ Len(v.of) = 2 /\ \A i \in 1..2 : v.of[i] \in f.allowed /\ WithinToday(f, v.of[i], day)
    [] f.type = "switch" -> v.kind = "boolean"
    [] f.type \in References ->
         IF f.multiple THEN v.kind = "records" /\ (\A i \in DOMAIN v.of : v.of[i] \in Entity) /\ (f.required => v.of # <<>>)
         ELSE v.kind = "record" /\ v.of \in Entity
FitsOrEmpty(f, v, day) == IF v = Nothing THEN ~f.required ELSE Fits(f, v, day)

UniqueKey(v) ==
  IF v.kind = "string" THEN (IF Fold[v.of] = Blank THEN Nothing ELSE [v EXCEPT !.of = Fold[@]]) ELSE v

Bare(id) == IF id \in SentId THEN BareId[id] ELSE id

TableFits(f, v, day) ==
  /\ v.kind = "rows"
  /\ Len(v.of) \in f.minRows..f.maxRows
  /\ \A i \in DOMAIN v.of :
       /\ v.of[i].id # 0 /\ Bare(v.of[i].id) \notin LongId
       /\ \A k \in CellKeys(f) : FitsOrEmpty(First(f.columns, k), v.of[i].cells[k], day)
  /\ \A i, j \in DOMAIN v.of : i # j =>
       /\ Bare(v.of[i].id) # Bare(v.of[j].id)
       /\ \A k \in { c \in CellKeys(f) : First(f.columns, c).unique } :
            LET key == UniqueKey(v.of[i].cells[k]) IN key # Nothing => key # UniqueKey(v.of[j].cells[k])

Accepted(fs, p, day) ==
  \A k \in Keys(fs) : LET f == First(fs, k) IN
    IF p[k] # Nothing /\ f.type = "table" THEN TableFits(f, p[k], day) ELSE FitsOrEmpty(f, p[k], day)

(* ... and what becomes of it: trimmed, without unknown keys, computed       *)
Only(ks, g) == [k \in Key |-> IF k \in ks THEN g[k] ELSE Nothing]

Trimmed(f, v) == IF v # Nothing /\ f.type \in Texts THEN [v EXCEPT !.of = Trim[@]] ELSE v
TrimmedAll(fs, g) == [k \in Key |-> IF k \in Keys(fs) THEN Trimmed(First(fs, k), g[k]) ELSE g[k]]

ParsedRow(f, row) ==
  [id |-> Bare(row.id), cells |-> Computed(f.columns, TrimmedAll(f.columns, Only(CellKeys(f), row.cells)))]

Parsed(fs, p) ==
  [k \in Key |->
     IF k \notin Keys(fs) \/ p[k] = Nothing THEN Nothing
     ELSE LET f == First(fs, k) IN
          IF f.type = "table" THEN [p[k] EXCEPT !.of = [i \in DOMAIN @ |-> ParsedRow(f, @[i])]]
          ELSE Trimmed(f, p[k])]

-----------------------------------------------------------------------------
(* ensureTableRowIds: an id that is missing or was seen in an earlier row,   *)
(* outer blanks included, is replaced by a new one, here below zero          *)
WithIds(rows) ==
  [i \in DOMAIN rows |->
     IF rows[i].id = 0 \/ \E j \in 1..(i - 1) : rows[j].id = rows[i].id
     THEN [rows[i] EXCEPT !.id = -i] ELSE rows[i]]

EnsureTableRowIds(fs, p) ==
  [k \in Key |-> IF k \in Keys(fs) /\ First(fs, k).type = "table" /\ p[k].kind = "rows"
                 THEN [p[k] EXCEPT !.of = WithIds(@)] ELSE p[k]]

-----------------------------------------------------------------------------
(* payload-migration.ts                                                     *)

SameType(a, b) == a = b
SameFamily(a, b) == a = b \/ \E F \in Families : {a, b} \subseteq F

HasShape(type, v) ==
  CASE type \in Texts \cup {"date", "select"} -> v.kind = "string"
    [] type \in Numbers -> v.kind = "number"
    [] type = "switch" -> v.kind = "boolean"
    [] type = "dateRange" -> v.kind = "strings" /\ Len(v.of) = 2
    [] type = "table" -> v.kind = "rows"
    [] type \in References -> v.kind \in {"record", "records"}
    [] OTHER -> FALSE

MigrateReference(to, v) ==
  LET list == IF v.kind = "records" THEN v.of ELSE <<v.of>>
  IN  IF to.multiple THEN [kind |-> "records", of |-> list]
      ELSE IF Len(list) = 1 THEN [kind |-> "record", of |-> list[1]] ELSE Nothing

MigrateValue(from, to, v) ==
  IF v = Nothing \/ to.type = "formula" \/ ~SameFamily(from.type, to.type) \/ ~HasShape(to.type, v) THEN Nothing
  ELSE IF to.type = "select" THEN (IF v.of \in to.allowed THEN v ELSE Nothing)
  ELSE IF to.type \in References THEN MigrateReference(to, v)
  ELSE v

MigrateRow(from, to, row) ==
  [row EXCEPT !.cells = Computed(to.columns,
     [k \in Key |-> IF k \in Keys(from.columns) \cap Keys(to.columns)
                    THEN MigrateValue(First(from.columns, k), First(to.columns, k), @[k]) ELSE Nothing])]

MigratePayload(old, new, p) ==
  [k \in Key |->
     IF k \notin Keys(old) \cap Keys(new) THEN Nothing
     ELSE LET from == First(old, k)
              to == First(new, k)
              v == MigrateValue(from, to, p[k])
          IN IF v # Nothing /\ to.type = "table"
             THEN [v EXCEPT !.of = [i \in DOMAIN @ |-> MigrateRow(from, to, @[i])]] ELSE v]

-----------------------------------------------------------------------------
FormsInit ==
  /\ form \in Entered /\ FormIsValid(form)
  /\ fields = <<>> /\ payload = [k \in Key |-> Nothing] /\ phase = "none" /\ today = 0

(* createForm, updateForm: a version of its own when the fields changed      *)
SaveForm ==
  /\ \E fs \in Entered : FormIsValid(fs) /\ form' = fs
  /\ UNCHANGED <<fields, payload, phase, today>>

(* createRequest                                                             *)
CreateRequest(p) ==
  /\ phase = "none"
  /\ fields' = form /\ payload' = EnsureTableRowIds(form, p) /\ phase' = "draft"
  /\ UNCHANGED <<form, today>>

(* updateRequest                                                             *)
SaveDraft(p) ==
  /\ phase = "draft"
  /\ payload' = EnsureTableRowIds(fields, p)
  /\ UNCHANGED <<form, fields, phase, today>>

(* submit, validatePayload: a form without fields checks nothing             *)
SubmitRequest ==
  /\ phase = "draft"
  /\ IF fields = <<>> THEN UNCHANGED payload
     ELSE Accepted(fields, payload, today) /\ payload' = Parsed(fields, payload)
  /\ phase' = "sent"
  /\ UNCHANGED <<form, fields, today>>

Return == phase = "sent" /\ phase' = "draft" /\ UNCHANGED <<form, fields, payload, today>>

(* cloneRequest; the model follows the clone                                 *)
Clone ==
  /\ phase # "none"
  /\ fields' = form
  /\ payload' = EnsureTableRowIds(form, IF form = fields THEN payload ELSE MigratePayload(fields, form, payload))
  /\ phase' = "draft"
  /\ UNCHANGED <<form, today>>

(* todayVn                                                                   *)
NextDay == today' = today + 1 /\ UNCHANGED <<form, fields, payload, phase>>

FormsNext ==
  \/ SaveForm \/ SubmitRequest \/ Return \/ Clone \/ NextDay
  \/ \E p \in Draft : CreateRequest(p) \/ SaveDraft(p)

FormsSpec == FormsInit /\ [][FormsNext]_formVars

-----------------------------------------------------------------------------
(* No day of a field that asks for today or later lies before the day        *)
Days(f, v) == IF f.type = "date" THEN {v.of} ELSE IF f.type = "dateRange" THEN { v.of[i] : i \in 1..2 } ELSE {}
NotPast(fs, p, day) ==
  \A k \in Keys(fs) :
    "minDate" \in First(fs, k).todays /\ p[k] # Nothing => \A t \in Days(First(fs, k), p[k]) : Day[t] >= day

(* A value of the shape a field asks for, or an option it has: what is still *)
(* wrong with it is a bound, or an object without an id or a name            *)
HasKind(f, v) ==
  \/ f.type \in Texts \cup {"date"} /\ v.kind = "string"
  \/ f.type \in Numbers /\ v.kind = "number"
  \/ f.type = "select" /\ v.kind = "string" /\ v.of \in f.allowed
  \/ f.type = "dateRange" /\ v.kind = "strings" /\ Len(v.of) = 2
  \/ f.type = "switch" /\ v.kind = "boolean"
  \/ f.type \in References /\ v.kind = IF f.multiple THEN "records" ELSE "record"

(* Row ids differ and formulas agree with their operands                     *)
OwnIds(rows) ==
  \A i, j \in 1..Len(rows) : rows[i].id # 0 /\ (i # j => rows[i].id # rows[j].id)
CellsHaveKind(f, cells) ==
  /\ \A k \in CellKeys(f) : cells[k] # Nothing => HasKind(First(f.columns, k), cells[k])
  /\ Computed(f.columns, cells) = cells
TableIsInOrder(f, v) == v.kind = "rows" /\ OwnIds(v.of) /\ \A i \in 1..Len(v.of) : CellsHaveKind(f, v.of[i].cells)

IsInOrder(fs, p) ==
  \A k \in Key :
    p[k] # Nothing =>
      /\ k \in Keys(fs)
      /\ IF First(fs, k).type = "table" THEN TableIsInOrder(First(fs, k), p[k]) ELSE HasKind(First(fs, k), p[k])

(* What the new form has a place for, in a field that kept its key and kind  *)
(* of type, is still there, and so are the rows under their ids              *)
Compatible(from, to) == from.type = to.type \/ \E F \in Families : from.type \in F /\ to.type \in F
Same(v, w) == v # Nothing /\ w # Nothing /\ v.kind = w.kind /\ v.of = w.of
Keeps(from, to, v, w) == Compatible(from, to) /\ v # Nothing /\ HasKind(to, v) => Same(v, w)

FieldKeeps(from, to, v, w) ==
  IF "table" \notin {from.type, to.type} THEN Keeps(from, to, v, w)
  ELSE from.type = to.type /\ v.kind = "rows" =>
         /\ w # Nothing /\ Len(w.of) = Len(v.of)
         /\ \A i \in DOMAIN v.of : w.of[i].id = v.of[i].id
         /\ \A i \in DOMAIN v.of, c \in Keys(from.columns) \cap Keys(to.columns) :
              Keeps(First(from.columns, c), First(to.columns, c), v.of[i].cells[c], w.of[i].cells[c])

NothingIsLost(old, new, p, q) ==
  \A k \in Keys(old) \cap Keys(new) : FieldKeeps(First(old, k), First(new, k), p[k], q[k])

(* A sent payload is normalised to itself, and returned and sent again       *)
(* unchanged it is accepted on any later day - but for a day that has passed *)
(* in a field that asks for today or later; a latest day of today refuses    *)
(* nothing it took (validatePayload).  A clone loses nothing the latest form *)
(* has a place for, bounds aside, and is the same payload if the form is the *)
(* same and it was sent; in a changed form no value has a wrong shape, no    *)
(* option is gone, no two rows share an id and no formula is stale - even if *)
(* the source was a draft nobody had checked.  What may be refused of such a *)
(* clone are bounds, references without an id or a name (hasShape takes any  *)
(* object) and row ids that differ only by outer blanks or are too long      *)
PayloadsSurvive ==
  /\ [](phase = "sent" /\ fields # <<>> =>
          Parsed(fields, payload) = payload /\ (NotPast(fields, payload, today) => Accepted(fields, payload, today)))
  /\ [][Clone => /\ NothingIsLost(fields, fields', payload, payload')
                 /\ IF fields # fields' THEN IsInOrder(fields', payload')
                    ELSE phase = "sent" /\ fields # <<>> => payload' = payload]_formVars
=============================================================================
