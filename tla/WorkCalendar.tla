----------------------------- MODULE WorkCalendar -----------------------------
(***************************************************************************)
(* The work calendar: shifts, cyclic schedules, their assignments to a     *)
(* user, a department or the company, special days, and the shift that     *)
(* each day resolves to.                                                   *)
(*                                                                         *)
(* A day is a number, 0 is a Monday; years are YearDays long, so the 29th  *)
(* of February, which copyYear leaves out, does not appear. Codes, names   *)
(* and colours are left out, and so is the uniqueness of codes. Deleted    *)
(* assignments and special days are never read again and leave the state.  *)
(* Requests are taken one at a time: two at once can both pass their       *)
(* checks, which nothing in the code prevents.                             *)
(***************************************************************************)
EXTENDS FiniteSets, Integers, Sequences

LOCAL INSTANCE SequencesExt

CONSTANTS
    Shift, Schedule,
    Chain,          \* the levels of a user, nearest first: <<user, department, ..., company>>
    LastDay,        \* bound of the days that requests name
    WeekDays,       \* 7 in the code
    YearDays,
    MinutesPerDay,  \* 24 * 60 in the code
    Segments,       \* the segment lists that are submitted
    Plans,          \* schedule -> what is submitted for it
    MaxRows,        \* bound of the assignments and special days together
    None

VARIABLES
    shifts,         \* shift -> None, or its segments, minutes and whether it is deleted
    schedules,      \* schedule -> None, or its cycle and whether it is deleted
    assigned,       \* the assignments
    special,        \* the special days
    today

calendarVars == <<shifts, schedules, assigned, special, today>>

Target == { Chain[i] : i \in DOMAIN Chain }
Day == 0 .. LastDay
Cycle == UNION { [1 .. n -> Shift \cup {None}] : n \in 1 .. 2 * WeekDays }

CalendarTypeOK ==
    /\ \A s \in Shift : shifts[s] # None =>
           /\ shifts[s].segments \in Segments
           /\ shifts[s].minutes \in 1 .. MinutesPerDay
           /\ shifts[s].deleted \in BOOLEAN
    /\ \A s \in Schedule : schedules[s] # None =>
           /\ schedules[s].days \in Cycle
           /\ schedules[s].anchor \in Int
           /\ {schedules[s].ignoreHolidays, schedules[s].deleted} \subseteq BOOLEAN
    /\ assigned \subseteq [target: Target, schedule: Schedule,
                           from: 0 .. LastDay + 1, to: Day \cup {None}]
    /\ special \subseteq [target: Target, date: Day, type: {"off", "work"},
                          shift: Shift \cup {None}]
    /\ today \in Day

CalendarInit ==
    /\ shifts = [s \in Shift |-> None]
    /\ schedules = [s \in Schedule |-> None]
    /\ assigned = {}
    /\ special = {}
    /\ today = 0

LiveShift(s) == shifts[s] # None /\ ~shifts[s].deleted
LiveSchedule(s) == schedules[s] # None /\ ~schedules[s].deleted

-----------------------------------------------------------------------------
(* Shifts.                                                                 *)

\* The segments on one axis of minutes: a segment that starts before the last
\* one ended, or does not end after it starts, reaches into the next day.
Extend(line, segment) ==
    LET last == IF line = <<>> THEN [end |-> -1, offset |-> 0] ELSE Last(line)
        offset == last.offset + (IF segment.start + last.offset < last.end THEN MinutesPerDay ELSE 0)
        start == segment.start + offset
        after == offset + (IF segment.end + offset <= start THEN MinutesPerDay ELSE 0)
    IN  Append(line, [start |-> start, end |-> segment.end + after, offset |-> after])

\* Empty for an empty segment and for a shift of more than a day, which is what
\* segments that overlap come to.
SegmentTimeline(segments) ==
    LET line == FoldLeft(Extend, <<>>, segments) IN
    IF \/ segments = <<>>
       \/ \E i \in DOMAIN segments : segments[i].start = segments[i].end
       \/ Last(line).end - Head(line).start > MinutesPerDay
    THEN <<>>
    ELSE line

WorkMinutesOf(segments) ==
    FoldLeft(LAMBDA sum, placed : sum + placed.end - placed.start, 0, SegmentTimeline(segments))

\* workShiftValidation
ValidShift(segments) == SegmentTimeline(segments) # <<>>

SaveShift(s, segments) ==
    /\ ValidShift(segments)
    /\ shifts' = [shifts EXCEPT ![s] =
           [segments |-> segments, minutes |-> WorkMinutesOf(segments), deleted |-> FALSE]]
    /\ UNCHANGED <<schedules, assigned, special, today>>

CreateShift(s, segments) == shifts[s] = None /\ SaveShift(s, segments)

UpdateShift(s, segments) == LiveShift(s) /\ SaveShift(s, segments)

\* A shift in a schedule or in a special day to come stays.
ShiftInUse(s) ==
    \/ \E c \in Schedule : LiveSchedule(c) /\ s \in { schedules[c].days[i] : i \in DOMAIN schedules[c].days }
    \/ \E o \in special : o.shift = s /\ o.date >= today

RemoveShift(s) ==
    /\ LiveShift(s)
    /\ ~ShiftInUse(s)
    /\ shifts' = [shifts EXCEPT ![s].deleted = TRUE]
    /\ UNCHANGED <<schedules, assigned, special, today>>

-----------------------------------------------------------------------------
(* Schedules.                                                              *)

\* The shift of a day by a cycle: days[(day - anchor) mod length].
ShiftByCycle(cycle, day) == cycle.days[1 + ((day - cycle.anchor) % Len(cycle.days))]

\* A cycle of whole weeks starts on the Monday of its anchor's week.
AlignCycleToMonday(anchor, days) ==
    LET n == Len(days)
        shift == anchor % WeekDays
    IN  IF n % WeekDays # 0 \/ shift = 0
        THEN [anchor |-> anchor, days |-> days]
        ELSE [anchor |-> anchor - shift,
              days   |-> [j \in 1 .. n |-> days[1 + ((j - 1 - shift) % n)]]]

\* A weekly schedule comes without an anchor and gets a Monday.
Aligned(plan) ==
    IF plan.anchor = None
    THEN [anchor |-> 0, days |-> plan.days]
    ELSE AlignCycleToMonday(plan.anchor, plan.days)

\* workScheduleValidation: only a week needs no anchor.
ValidPlan(plan) == plan.anchor = None => Len(plan.days) = WeekDays

SaveSchedule(s, plan) ==
    /\ ValidPlan(plan)
    /\ \A i \in DOMAIN plan.days : plan.days[i] # None => LiveShift(plan.days[i])
    /\ schedules' = [schedules EXCEPT ![s] =
           [anchor         |-> Aligned(plan).anchor,
            days           |-> Aligned(plan).days,
            ignoreHolidays |-> plan.ignoreHolidays,
            deleted        |-> FALSE]]
    /\ UNCHANGED <<shifts, assigned, special, today>>

CreateSchedule(s, plan) == schedules[s] = None /\ SaveSchedule(s, plan)

UpdateSchedule(s, plan) == LiveSchedule(s) /\ SaveSchedule(s, plan)

\* A schedule assigned for today or later stays.
ScheduleInUse(s) == \E a \in assigned : a.schedule = s /\ (a.to = None \/ a.to >= today)

RemoveSchedule(s) ==
    /\ LiveSchedule(s)
    /\ ~ScheduleInUse(s)
    /\ schedules' = [schedules EXCEPT ![s].deleted = TRUE]
    /\ UNCHANGED <<shifts, assigned, special, today>>

-----------------------------------------------------------------------------
(* Assignments. A range without an end has "to" None.                      *)

Ranges == { r \in [from: Day, to: Day \cup {None}] : r.to # None => r.from <= r.to }

\* Special days, and what is looked up, end.
Spans == { r \in Ranges : r.to # None }

Covers(range, day) == range.from <= day /\ (range.to = None \/ day <= range.to)

Overlap(a, range) ==
    /\ range.to # None => a.from <= range.to
    /\ a.to # None => a.to >= range.from

Assignment(t, s, range) == [target |-> t, schedule |-> s, from |-> range.from, to |-> range.to]

\* What the new range leaves of an assignment that began before it: the days
\* before, and the days after if the new range ends first.
BeforeOneTooLong(a, range) == [a EXCEPT !.to = range.from]
Before(a, range) == [a EXCEPT !.to = range.from - 1]

After(a, range) ==
    IF range.to # None /\ (a.to = None \/ a.to > range.to)
    THEN {[a EXCEPT !.from = range.to + 1]}
    ELSE {}

CreateAssignment(t, s, range) ==
    LET overlapping == { a \in assigned : a.target = t /\ Overlap(a, range) } IN
    /\ LiveSchedule(s)
    /\ \A a \in overlapping : a.from < range.from
    /\ assigned' = (assigned \ overlapping)
                   \cup UNION { {Before(a, range)} \cup After(a, range) : a \in overlapping }
                   \cup {Assignment(t, s, range)}
    /\ Cardinality(assigned') + Cardinality(special) <= MaxRows
    /\ UNCHANGED <<shifts, schedules, special, today>>

UpdateAssignment(a, s, range) ==
    /\ LiveSchedule(s)
    /\ ~ \E b \in assigned \ {a} : b.target = a.target /\ Overlap(b, range)
    /\ assigned' = (assigned \ {a}) \cup {Assignment(a.target, s, range)}
    /\ UNCHANGED <<shifts, schedules, special, today>>

RemoveAssignment(a) ==
    /\ assigned' = assigned \ {a}
    /\ UNCHANGED <<shifts, schedules, special, today>>

-----------------------------------------------------------------------------
(* Special days.                                                           *)

\* A working day needs a shift that is not deleted; a day off drops it.
ShiftFor(type, shift) == IF type = "work" THEN shift ELSE None

SpecialDay(t, date, type, shift) ==
    [target |-> t, date |-> date, type |-> type, shift |-> ShiftFor(type, shift)]

CreateOverrides(t, span, type, shift) ==
    /\ type = "work" => LiveShift(shift)
    /\ special' = { o \in special : o.target # t \/ ~Covers(span, o.date) }
                  \cup { SpecialDay(t, date, type, shift) : date \in span.from .. span.to }
    /\ Cardinality(assigned) + Cardinality(special') <= MaxRows
    /\ UNCHANGED <<shifts, schedules, assigned, today>>

UpdateOverride(o, type, shift) ==
    /\ type = "work" => LiveShift(shift)
    /\ special' = (special \ {o}) \cup {SpecialDay(o.target, o.date, type, shift)}
    /\ UNCHANGED <<shifts, schedules, assigned, today>>

RemoveOverride(o) ==
    /\ special' = special \ {o}
    /\ UNCHANGED <<shifts, schedules, assigned, today>>

\* The special days of a year, at the same dates of another: not where the
\* target has one already, and no working day whose shift is deleted.
YearOf(date) == date \div YearDays

Copied(t, fromYear, toYear) ==
    LET source == { o \in special : o.target = t /\ YearOf(o.date) = fromYear }
        copies == { [o EXCEPT !.date = toYear * YearDays + (o.date % YearDays)] : o \in source }
        taken == { o.date : o \in { x \in special : x.target = t } }
    IN  { o \in copies : o.date \notin taken /\ (o.type = "work" => LiveShift(o.shift)) }

CopyYear(t, fromYear, toYear) ==
    /\ fromYear # toYear
    /\ Copied(t, fromYear, toYear) # {}
    /\ special' = special \cup Copied(t, fromYear, toYear)
    /\ Cardinality(assigned) + Cardinality(special') <= MaxRows
    /\ UNCHANGED <<shifts, schedules, assigned, today>>

NextDay ==
    /\ today < LastDay
    /\ today' = today + 1
    /\ UNCHANGED <<shifts, schedules, assigned, special>>

CalendarNext ==
    \/ \E s \in Shift, segments \in Segments : CreateShift(s, segments)
    \/ \E s \in Shift, segments \in Segments : UpdateShift(s, segments)
    \/ \E s \in Shift : RemoveShift(s)
    \/ \E s \in Schedule : \E plan \in Plans[s] : CreateSchedule(s, plan)
    \/ \E s \in Schedule : \E plan \in Plans[s] : UpdateSchedule(s, plan)
    \/ \E s \in Schedule : RemoveSchedule(s)
    \/ \E t \in Target, s \in Schedule, range \in Ranges : CreateAssignment(t, s, range)
    \/ \E a \in assigned, s \in Schedule, range \in Ranges : UpdateAssignment(a, s, range)
    \/ \E a \in assigned : RemoveAssignment(a)
    \/ \E t \in Target, span \in Spans, type \in {"off", "work"}, shift \in Shift :
           CreateOverrides(t, span, type, shift)
    \/ \E o \in special, type \in {"off", "work"}, shift \in Shift : UpdateOverride(o, type, shift)
    \/ \E o \in special : RemoveOverride(o)
    \/ \E t \in Target, fromYear, toYear \in {YearOf(d) : d \in Day} : CopyYear(t, fromYear, toYear)
    \/ NextDay

CalendarSpec == CalendarInit /\ [][CalendarNext]_calendarVars

-----------------------------------------------------------------------------
(* Reading, which loads the rows of a range and then goes by those. Deleted *)
(* schedules and shifts are still read.                                    *)

Everything ==
    [assigned |-> assigned, special |-> special, shifts |-> { s \in Shift : shifts[s] # None }]

\* getList, of special days
SpecialIn(span) == { o \in special : Covers(span, o.date) }

\* loadData
Loaded(span) ==
    LET rows == { a \in assigned : Overlap(a, span) }
        days == SpecialIn(span)
    IN  [assigned |-> rows,
         special  |-> days,
         shifts   |-> (UNION { Range(schedules[a.schedule].days) : a \in rows }
                       \cup { o.shift : o \in days }) \ {None}]

AssignedAt(data, t, day) ==
    { a.schedule : a \in { x \in data.assigned : x.target = t /\ Covers(x, day) } }

SpecialAt(data, t, day) == { o \in data.special : o.target = t /\ o.date = day }

\* The level whose schedule is in force, nearest first; one past the last if none.
Nearest(levels) ==
    IF levels = {} THEN Len(Chain) + 1 ELSE CHOOSE l \in levels : \A m \in levels : l <= m

ScheduleLevel(data, day) ==
    Nearest({ l \in DOMAIN Chain : AssignedAt(data, Chain[l], day) # {} })

ScheduleOn(data, day) ==
    LET level == ScheduleLevel(data, day) IN
    IF level > Len(Chain) THEN None
    ELSE schedules[CHOOSE s \in AssignedAt(data, Chain[level], day) : TRUE]

\* A day off declared above the level of a schedule that ignores holidays does
\* not count.
Counts(data, level, day) ==
    \E o \in SpecialAt(data, Chain[level], day) :
        ~ /\ o.type = "off"
          /\ ScheduleOn(data, day) # None
          /\ ScheduleOn(data, day).ignoreHolidays
          /\ level > ScheduleLevel(data, day)

SpecialLevel(data, day) == Nearest({ l \in DOMAIN Chain : Counts(data, l, day) })

\* The shift of a day, "off", or "none" where no level has a schedule.
WorkDay(data, day) ==
    LET shiftOrOff(shift) == IF shift \in data.shifts THEN shift ELSE "off"
        level == SpecialLevel(data, day)
    IN  IF level <= Len(Chain)
        THEN shiftOrOff((CHOOSE o \in SpecialAt(data, Chain[level], day) : TRUE).shift)
        ELSE IF ScheduleOn(data, day) = None
             THEN "none"
             ELSE shiftOrOff(ShiftByCycle(ScheduleOn(data, day), day))

\* usedShifts
UsedShifts(data, days) == data.shifts \cap Range(days)

UserCalendar(span) ==
    LET data == Loaded(span)
        days == [day \in span.from .. span.to |-> WorkDay(data, day)]
    IN  [days |-> days, shifts |-> UsedShifts(data, days)]

-----------------------------------------------------------------------------
\* The ranges of one target never overlap (the comment of
\* WorkScheduleAssignmentEntity), and it has one special day a date.
RangesAreApart ==
    /\ \A a, b \in assigned : (a # b /\ a.target = b.target) => ~Overlap(a, b)
    /\ \A o, p \in special : (o.target = p.target /\ o.date = p.date) => o = p

\* What a schedule in use, a day to come or an assignment in force refers to is
\* not deleted, whatever was split, moved, copied or came to pass meanwhile.
NothingInUseIsDeleted ==
    /\ \A s \in Shift : ShiftInUse(s) => LiveShift(s)
    /\ \A s \in Schedule : ScheduleInUse(s) => LiveSchedule(s)

\* The minutes of a shift are those of the day that its segments cover.
CoveredMinutes(segments) ==
    { m \in 0 .. MinutesPerDay - 1 : \E i \in DOMAIN segments :
        LET s == segments[i] IN
        IF s.start < s.end THEN m \in s.start .. s.end - 1 ELSE m >= s.start \/ m < s.end }

MinutesAreThoseCovered ==
    \A s \in Shift : shifts[s] # None =>
        shifts[s].minutes = Cardinality(CoveredMinutes(shifts[s].segments))

\* A day is the same whatever range it is looked up in, and the shifts that a
\* calendar names come with it, of deleted shifts and schedules too.
CalendarsAgree ==
    \A span \in Spans :
        LET calendar == UserCalendar(span) IN
        /\ \A day \in DOMAIN calendar.days : calendar.days[day] = WorkDay(Everything, day)
        /\ Range(calendar.days) \subseteq calendar.shifts \cup {"off", "none"}

CalendarIsSound == RangesAreApart /\ NothingInUseIsDeleted /\ MinutesAreThoseCovered /\ CalendarsAgree

\* Assigning a schedule, which cuts or splits the assignments that began
\* before, gives the target that schedule on the days named and leaves every
\* other day of every target as it was, for as far as requests reach. Saving a
\* schedule, which may move its anchor, keeps the shift of every day.
AssigningChangesItsDays ==
    \A a \in assigned' \ assigned :
        CreateAssignment(a.target, a.schedule, [from |-> a.from, to |-> a.to]) =>
            \A day \in 0 .. LastDay + 1 :
                IF Covers(a, day)
                THEN AssignedAt(Everything, a.target, day)' = {a.schedule}
                ELSE /\ AssignedAt(Everything, a.target, day)' = AssignedAt(Everything, a.target, day)
                     /\ WorkDay(Everything, day)' = WorkDay(Everything, day)

SavingKeepsTheDays ==
    schedules' # schedules =>
      \A s \in Schedule : \A plan \in Plans[s] : SaveSchedule(s, plan) =>
        \A day \in Day :
            ShiftByCycle(schedules'[s], day)
                = ShiftByCycle([days |-> plan.days, anchor |-> IF plan.anchor = None THEN 0 ELSE plan.anchor], day)

CalendarSteps == AssigningChangesItsDays /\ SavingKeepsTheDays

CalendarChangesWhatItNames == [][CalendarSteps]_calendarVars

=============================================================================
