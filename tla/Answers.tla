------------------------------ MODULE Answers ------------------------------
(***************************************************************************)
(* How the drivers read the text of an answer, byte by byte: readline and  *)
(* readlines, the reset and second read after a timeout, the cutting of    *)
(* the terminator, and the parsing of nine methods of PowerMeter,          *)
(* Attenuator and Laser into values, members and tables.                   *)
(*                                                                         *)
(* A read may time out in front of any byte, and a reset may lose any      *)
(* number of the bytes under way.  Sending the query does not fail here,   *)
(* and its flush drops all that is left of older answers: Device has both. *)
(***************************************************************************)
EXTENDS Integers, Sequences, SequencesExt

CONSTANTS
    Units,   \* what the units can be set to when the program starts
    Uses     \* the methods a client calls, and how many calls it makes

PowerMeterMethods == {"get_average_flag", "average_query", "get_all_ranges",
                      "pulse_length", "query_user_threshold"}
AttenuatorMethods == {"refresh_position", "refresh_status"}
LaserMethods == {"get_shot_count", "security"}
Methods == PowerMeterMethods \cup AttenuatorMethods \cup LaserMethods

ASSUME AnswersAssumption == Uses \subseteq [methods : SUBSET Methods, calls : Nat]

VARIABLES
    unit,      \* what the units are set to
    use,       \* how the drivers are used, fixed at the start
    calls,     \* calls made so far
    method,    \* the call in progress, or the last one
    pc,        \* idle, read (inside readline or readlines) or check
    pending,   \* bytes of the answer that have not been read
    answer,    \* the string that readline appends to
    nbytes,    \* bytes that the present readline has read
    attempt,   \* the first or the second read of this call
    outcome,   \* how the last call ended
    value,     \* the number it handed out
    member,    \* the members that hold numbers
    table,     \* the members that hold tables of options, in order
    worst      \* history: the worst answer parsed so far

readVars == <<pending, answer, nbytes, attempt>>
memberVars == <<member, table>>
vars == <<unit, use, calls, method, pc, readVars, outcome, value, memberVars, worst>>

-----------------------------------------------------------------------------
\* Characters are strings of length one, texts are sequences of them.
Digits == <<"0", "1", "2", "3", "4", "5", "6", "7", "8", "9">>
WHITESPACE == {" ", "\n", "\r", "\t", "\f"}   \* and \v, which no unit sends
NONE == <<"N", "O", "N", "E">>

IsDigit(c) == \E i \in 1 .. 10 : Digits[i] = c
DigitValue(c) == (CHOOSE i \in 1 .. 10 : Digits[i] = c) - 1

\* Values of size_t, 2^64 in the build: more than the length of any text.
SizeT == 2^20

\* std::string::substr, which throws when it starts past the end.
SubstrThrows(s, pos) == pos > Len(s)
substr(s, pos, n) == SubSeq(s, pos + 1, Min({Len(s), pos + n}))
From(s, pos) == substr(s, pos, Len(s))

ltrim(s) == From(s, Min({i \in 0 .. Len(s) : i = Len(s) \/ s[i + 1] \notin WHITESPACE}))
rtrim(s) == substr(s, 0, Max({i \in 0 .. Len(s) : i = 0 \/ s[i] \notin WHITESPACE}))
trim(s) == rtrim(ltrim(s))

RECURSIVE tokenize_string(_, _)
\* Mutant: what follows the last separator is not pushed.
tokenize_string_NoLast(str, sep) ==
    IF \E i \in 1 .. Len(str) : str[i] = sep
    THEN LET pos == Min({i \in 1 .. Len(str) : str[i] = sep}) - 1
         IN <<substr(str, 0, pos)>> \o tokenize_string(From(str, pos + 1), sep)
    ELSE << >>

tokenize_string(str, sep) ==
    IF \E i \in 1 .. Len(str) : str[i] = sep
    THEN LET pos == Min({i \in 1 .. Len(str) : str[i] = sep}) - 1
         IN <<substr(str, 0, pos)>> \o tokenize_string(From(str, pos + 1), sep)
    ELSE <<str>>

\* std::stol and std::stoul skip white space, take an optional sign and all
\* the digits that follow, and throw when there is none.
Unsigned(s) == IF s # << >> /\ Head(s) = "-" THEN Tail(s) ELSE s
LeadingDigits(s) ==
    LET u == Unsigned(ltrim(s))
    IN substr(u, 0, Max({n \in 0 .. Len(u) : \A i \in 1 .. n : IsDigit(u[i])}))

\* Mutant: like atol, no digits are 0.
Converts_Always(s) == TRUE

Converts(s) == LeadingDigits(s) # << >>
stol(s) ==
    LET n == FoldLeft(LAMBDA sum, c : 10 * sum + DigitValue(c), 0, LeadingDigits(s))
    IN IF ltrim(s) # << >> /\ Head(ltrim(s)) = "-" THEN -n ELSE n

\* Serial::readlines keeps the terminators, and what follows the last one.
RECURSIVE readlines(_)
readlines(s) ==
    IF s = << >> THEN << >>
    ELSE LET n == Min({i \in 1 .. Len(s) : i = Len(s) \/ s[i] = "\r"})
         IN <<substr(s, 0, n)>> \o readlines(From(s, n))

-----------------------------------------------------------------------------
\* The text of the answers, as the comments in the drivers quote them.
Numeral[n \in Nat] == IF n < 10 THEN <<Digits[n + 1]>>
                      ELSE Append(Numeral[n \div 10], Digits[(n % 10) + 1])
SignedNumeral(n) == IF n < 0 THEN <<"-">> \o Numeral[-n] ELSE Numeral[n]
TwoDigits(n) == <<Digits[(n \div 10) + 1], Digits[(n % 10) + 1]>>

Each(texts, sep) == FlattenSeq([i \in DOMAIN texts |-> texts[i] \o <<sep>>])
Numerals(s) == [i \in DOMAIN s |-> Numeral[s[i]]]

Text(m) ==
    CASE m = "get_average_flag" -> <<"*">> \o Numeral[unit.flag]
      [] m = "average_query" ->
            <<"*", " ">> \o Numeral[unit.setting] \o <<" ", " ">> \o Each(<<NONE>> \o unit.options, " ")
      [] m = "get_all_ranges" ->
            <<"*">> \o SignedNumeral(unit.range) \o <<" ">> \o Each(unit.options, " ")
      [] m = "pulse_length" ->
            <<"*">> \o Numeral[unit.setting] \o <<" ">> \o Each(unit.options, " ")
      [] m = "query_user_threshold" ->
            <<"*">> \o Each(Numerals(SubSeq(unit.threshold, 1, 2)), " ") \o Numeral[unit.threshold[3]]
      [] m = "refresh_position" ->
            <<"o">> \o Numeral[unit.status[2]] \o <<";">> \o SignedNumeral(unit.position)
      [] m = "refresh_status" -> <<"p", "c">> \o Each(Numerals(unit.status), ";")
      [] m = "get_shot_count" -> <<"S", "C", "\r">> \o Numeral[unit.shots]
      [] m = "security" -> <<"S", "E", "\r">> \o TwoDigits(unit.code)

\* m_read_sfx, and the "\n\r" of Attenuator::read_cmd.
Eol(m) ==
    CASE m \in PowerMeterMethods -> <<"\r", "\n">>
      [] m \in AttenuatorMethods -> <<"\n", "\r">>
      [] m \in LaserMethods -> <<"\r">>

Whole(m) == Text(m) \o Eol(m)

-----------------------------------------------------------------------------
\* The members that refresh_status and query_user_threshold assign, in their
\* order, and the tokens they come from (counted from 0).
StatusMembers == <<"m_op_mode", "m_motor_state", "m_acceleration", "m_deceleration",
                   "m_max_speed", "m_current_move", "m_current_idle", "m_resolution",
                   "m_motor_enabled", "m_reset_on_zero", "m_report_on_zero">>
StatusTokens == <<0, 1, 2, 3, 4, 5, 6, 8, 9, 11, 12>>
ThresholdMembers == <<"m_e_threshold", "m_threshold_ranges.first", "m_threshold_ranges.second">>
ThresholdTokens == <<0, 1, 2>>

\* What the constructors give them.
InitialMembers ==
    ("m_op_mode" :> 1) @@ ("m_motor_state" :> 0) @@ ("m_acceleration" :> 0)
    @@ ("m_deceleration" :> 0) @@ ("m_max_speed" :> 59000) @@ ("m_current_move" :> 100)
    @@ ("m_current_idle" :> 10) @@ ("m_resolution" :> 2) @@ ("m_motor_enabled" :> 1)
    @@ ("m_reset_on_zero" :> 0) @@ ("m_report_on_zero" :> 0) @@ ("m_position" :> 0)
    @@ ("m_e_threshold" :> 1) @@ ("m_threshold_ranges.first" :> 65535)
    @@ ("m_threshold_ranges.second" :> 65535)

\* The cut to a byte, to 16 bits or to a bool.
Narrowed(name, n) ==
    CASE name \in {"m_acceleration", "m_deceleration", "m_current_move", "m_current_idle"} -> n % 256
      [] name \in {ThresholdMembers[i] : i \in 1 .. 3} -> n % 65536
      [] name \in {"m_motor_enabled", "m_reset_on_zero", "m_report_on_zero"} -> IF n = 0 THEN 0 ELSE 1
      [] OTHER -> n

Init ==
    /\ unit \in Units /\ use \in Uses
    /\ calls = 0 /\ method = "none" /\ pc = "idle"
    /\ pending = << >> /\ answer = << >> /\ nbytes = 0 /\ attempt = 1
    /\ outcome = "none" /\ value = 0
    /\ member = InitialMembers
    /\ table = [x \in {"m_ave_windows", "m_ranges", "m_pulse_lengths"} |-> << >>]
    /\ worst = "whole"

\* The query goes out and the unit answers.
Query(m) ==
    /\ pc = "idle" /\ calls < use.calls
    /\ calls' = calls + 1 /\ method' = m /\ pc' = "read"
    /\ pending' = Whole(m) /\ answer' = << >> /\ nbytes' = 0 /\ attempt' = 1
    /\ outcome' = "none" /\ value' = 0
    /\ UNCHANGED <<memberVars, worst>>

\* readline stops when the last of the bytes it has read itself end the line,
\* readlines at a timeout only.
AtEol(text, n) ==
    /\ method \notin LaserMethods
    /\ n >= Len(Eol(method))
    /\ IsSuffix(Eol(method), text)

Byte ==
    /\ pc = "read" /\ pending # << >>
    /\ pending' = Tail(pending)
    /\ answer' = Append(answer, Head(pending))
    /\ nbytes' = nbytes + 1
    /\ pc' = IF AtEol(answer', nbytes') THEN "check" ELSE "read"
    /\ UNCHANGED <<calls, method, attempt, outcome, value, memberVars, worst>>

Timeout ==
    /\ pc = "read"
    /\ pc' = "check"
    /\ UNCHANGED <<calls, method, readVars, outcome, value, memberVars, worst>>

\* Mutant: every read that found nothing is tried again.
ReadsAgain_Forever == nbytes < (IF method \in PowerMeterMethods THEN 2 ELSE 1)

\* send_cmd reads again after less than a terminator, the others only after
\* nothing at all.
ReadsAgain ==
    attempt = 1 /\ nbytes < (IF method \in PowerMeterMethods THEN 2 ELSE 1)

\* reset_connection loses what has arrived and what arrives before it is done.
Reset ==
    /\ pc = "check" /\ ReadsAgain
    /\ \E lost \in 0 .. Len(pending) : pending' = From(pending, lost)
    /\ nbytes' = 0 /\ attempt' = attempt + 1
    /\ pc' = "read"
    /\ UNCHANGED <<calls, method, answer, outcome, value, memberVars, worst>>

-----------------------------------------------------------------------------
Quality == IF answer = Whole(method) THEN "whole"
           ELSE IF IsPrefix(answer, Whole(method)) THEN "cut" ELSE "gap"
Worse(a, b) == IF "gap" \in {a, b} THEN "gap" ELSE IF "cut" \in {a, b} THEN "cut" ELSE "whole"

Ends(how) ==
    /\ pc' = "idle" /\ outcome' = how
    /\ UNCHANGED <<calls, method, readVars>>

Returns == Ends("returned") /\ worst' = Worse(worst, Quality)
Throws == Ends("threw") /\ worst' = Worse(worst, Quality)

\* The second read has failed as well, or Attenuator::read_cmd has got one byte.
ReadFails ==
    /\ pc = "check" /\ ~ReadsAgain
    /\ nbytes < (IF method \in LaserMethods THEN 1 ELSE 2)
    /\ Ends("threw")
    /\ UNCHANGED <<value, memberVars, worst>>

\* The end of Device::read_cmd and of Attenuator::read_cmd.
resp == IF Len(answer) < 2 THEN rtrim(answer) ELSE substr(answer, 0, Len(answer) - 2)

Parsing(m) ==
    /\ pc = "check" /\ method = m /\ ~ReadsAgain
    /\ nbytes >= (IF m \in LaserMethods THEN 1 ELSE 2)

\* A number that a method hands out, or an exception.
HandsOut(ok, n) == IF ok THEN value' = n /\ Returns ELSE Throws /\ UNCHANGED value

\* The count of the substr wraps around for texts shorter than three.
get_average_flag ==
    /\ Parsing("get_average_flag")
    /\ LET digits == substr(resp, 1, (Len(resp) - 3) % SizeT)
       IN HandsOut(~SubstrThrows(resp, 1) /\ Converts(digits),
                   IF stol(digits) = 0 THEN 0 ELSE 1)
    /\ UNCHANGED memberVars

\* tokens.at(i) is there and converts.
NumberAt(tokens, i) == i < Len(tokens) /\ Converts(tokens[i + 1])

Fill(name, words) == table' = [table EXCEPT ![name] = words]

\* Mutant: the options are taken from the start when there is no NONE.
FindNONE_OrStart(s) ==
    LET found == {i \in 0 .. Len(s) - 4 : substr(s, i, 4) = NONE}
    IN IF found = {} THEN 0 ELSE Min(found)

\* The place of NONE, or npos.
FindNONE(s) ==
    LET found == {i \in 0 .. Len(s) - 4 : substr(s, i, 4) = NONE}
    IN IF found = {} THEN SizeT - 1 ELSE Min(found)

average_query ==
    LET digit == substr(resp, 2, 1)
        p == FindNONE(resp)
        words == SelectSeq([i \in DOMAIN tokenize_string(From(resp, p), " ") |->
                              trim(tokenize_string(From(resp, p), " ")[i])],
                           LAMBDA t : t # << >>)
        fills == table["m_ave_windows"] = << >>
        ok == ~SubstrThrows(resp, 2) /\ Converts(digit) /\ (fills => ~SubstrThrows(resp, p))
    IN  /\ Parsing("average_query")
        /\ HandsOut(ok, stol(digit))
        /\ IF ok /\ fills THEN Fill("m_ave_windows", words) ELSE UNCHANGED table
        /\ UNCHANGED member

get_all_ranges ==
    LET tokens == tokenize_string(trim(From(resp, 1)), " ")
        ok == ~SubstrThrows(resp, 1) /\ NumberAt(tokens, 0)
    IN  /\ Parsing("get_all_ranges")
        /\ HandsOut(ok, stol(tokens[1]))
        /\ IF ok THEN Fill("m_ranges", Tail(tokens)) ELSE UNCHANGED table
        /\ UNCHANGED member

\* pulse_length(0), which asks for the setting.
pulse_length ==
    LET digit == substr(resp, 1, 1)
        ok == ~SubstrThrows(resp, 1) /\ Converts(digit)
    IN  /\ Parsing("pulse_length")
        /\ HandsOut(ok, stol(digit))
        /\ IF ok /\ table["m_pulse_lengths"] = << >>
           THEN Fill("m_pulse_lengths", tokenize_string(trim(From(resp, 2)), " "))
           ELSE UNCHANGED table
        /\ UNCHANGED member

\* Members are assigned one by one; the first token that is missing or does
\* not convert throws, and leaves the rest as they were.
AssignInOrder(names, places, tokens) ==
    LET done == Max({n \in 0 .. Len(names) : \A j \in 1 .. n : NumberAt(tokens, places[j])})
        fresh(x) == {j \in 1 .. done : names[j] = x}
    IN  /\ member' = [x \in DOMAIN member |->
              IF fresh(x) = {} THEN member[x]
              ELSE Narrowed(x, stol(tokens[places[Max(fresh(x))] + 1]))]
        /\ IF done = Len(names) THEN Returns ELSE Throws

query_user_threshold ==
    /\ Parsing("query_user_threshold")
    /\ IF SubstrThrows(resp, 1) THEN Throws /\ UNCHANGED member
       ELSE AssignInOrder(ThresholdMembers, ThresholdTokens, tokenize_string(From(resp, 1), " "))
    /\ UNCHANGED <<value, table>>

refresh_status ==
    /\ Parsing("refresh_status")
    /\ IF SubstrThrows(resp, 2) THEN Throws /\ UNCHANGED member
       ELSE AssignInOrder(StatusMembers, StatusTokens, tokenize_string(From(resp, 2), ";"))
    /\ UNCHANGED <<value, table>>

\* get_position on m_position itself, which is assigned before the state is
\* looked at.
refresh_position ==
    LET tokens == tokenize_string(From(resp, 1), ";")
        placed == ~SubstrThrows(resp, 1) /\ NumberAt(tokens, 1)
        ok == placed /\ Len(tokens[1]) = 1 /\ Converts(tokens[1])
    IN  /\ Parsing("refresh_position")
        /\ member' = [member EXCEPT
              !["m_position"] = IF placed THEN stol(tokens[2]) ELSE @,
              !["m_motor_state"] = IF ok THEN stol(tokens[1]) ELSE @]
        /\ IF ok THEN Returns ELSE Throws
        /\ UNCHANGED <<value, table>>

\* A line without its last character.
Erased(line) == substr(line, 0, Len(line) - 1)

\* After a second read, resp is still empty.
get_shot_count ==
    LET lines == readlines(answer)
        text == IF attempt = 2 THEN << >> ELSE Erased(lines[IF Len(lines) = 1 THEN 1 ELSE 2])
    IN  /\ Parsing("get_shot_count")
        /\ HandsOut(Converts(text), stol(text))
        /\ UNCHANGED memberVars

\* The number of lines is checked after the first read; after the second,
\* lines.at(1) throws if there is one only.
security ==
    LET lines == readlines(answer)
        ok == IF attempt = 1 THEN Len(lines) = 2 ELSE Len(lines) >= 2
    IN  /\ Parsing("security")
        /\ HandsOut(ok /\ Converts(Erased(lines[2])), stol(Erased(lines[2])))
        /\ UNCHANGED memberVars

Parse ==
    \/ get_average_flag \/ average_query \/ get_all_ranges \/ pulse_length
    \/ query_user_threshold \/ refresh_status \/ refresh_position
    \/ get_shot_count \/ security

Next ==
    /\ \/ \E m \in use.methods : Query(m)
       \/ Byte \/ Timeout \/ Reset \/ ReadFails \/ Parse
    /\ UNCHANGED <<unit, use>>

Spec == Init /\ [][Next]_vars

-----------------------------------------------------------------------------
\* Types of the read in progress and of the results: the string never holds
\* more than the answer, and no call reads more than twice.
TypeOK ==
    /\ method \in Methods \cup {"none"} /\ pc \in {"idle", "read", "check"}
    /\ calls \in 0 .. use.calls /\ attempt \in 1 .. 2
    /\ method # "none" => Len(answer) + Len(pending) <= Len(Whole(method))
    /\ nbytes \in 0 .. Len(answer)
    /\ outcome \in {"none", "returned", "threw"} /\ value \in Int
    /\ \A x \in DOMAIN member : member[x] \in Int
    /\ worst \in {"whole", "cut", "gap"}

\* The number that a method should hand out, if it hands one out.
TrueValue(m) ==
    CASE m = "get_average_flag" -> unit.flag
      [] m \in {"average_query", "pulse_length"} -> unit.setting
      [] m = "get_all_ranges" -> unit.range
      [] m = "get_shot_count" -> unit.shots
      [] m = "security" -> unit.code
      [] OTHER -> 0

TrueTable(name) == IF name = "m_ave_windows" THEN <<NONE>> \o unit.options ELSE unit.options

\* What a member should be.
TrueMember(x) ==
    CASE x = "m_position" -> unit.position
      [] \E i \in 1 .. 3 : ThresholdMembers[i] = x ->
            unit.threshold[CHOOSE i \in 1 .. 3 : ThresholdMembers[i] = x]
      [] OTHER -> LET i == CHOOSE j \in 1 .. 11 : StatusMembers[j] = x
                  IN Narrowed(x, unit.status[StatusTokens[i] + 1])

Assigns(m) ==
    CASE m = "query_user_threshold" -> {ThresholdMembers[i] : i \in DOMAIN ThresholdMembers}
      [] m = "refresh_status" -> {StatusMembers[i] : i \in DOMAIN StatusMembers}
      [] m = "refresh_position" -> {"m_position", "m_motor_state"}
      [] OTHER -> {}

Fills(m) ==
    CASE m = "average_query" -> {"m_ave_windows"}
      [] m = "get_all_ranges" -> {"m_ranges"}
      [] m = "pulse_length" -> {"m_pulse_lengths"}
      [] OTHER -> {}

\* An answer that arrives in full, in one read or two, is understood: the
\* method returns, and its number, members and table are what the unit said.
\* Two exceptions: get_shot_count throws after a second read, and the tables
\* of average_query and pulse_length, filled once, keep what an earlier answer
\* that was not whole put there.
WholeIsExact ==
    (outcome # "none" /\ answer = Whole(method)) =>
        \/ method = "get_shot_count" /\ attempt = 2
        \/ /\ outcome = "returned" /\ value = TrueValue(method)
           /\ \A x \in Assigns(method) : member[x] = TrueMember(x)
           /\ \A name \in Fills(method) :
                 \/ table[name] = TrueTable(name)
                 \/ name # "m_ranges" /\ worst # "whole"

\* The number n without its last digits, when width of them are printed.
Magnitude(n) == IF n < 0 THEN -n ELSE n
Shortened(n, width) ==
    {IF n < 0 THEN -(Magnitude(n) \div 10^k) ELSE n \div 10^k : k \in 0 .. width - 1}
Width(n) == Len(Numeral[Magnitude(n)])

\* The first entries of a table, the last of them perhaps without its end.
ShortenedTable(words, full) ==
    /\ Len(words) <= Len(full)
    /\ \A i \in 1 .. Len(words) - 1 : words[i] = full[i]
    /\ words # << >> => IsPrefix(Last(words), full[Len(words)])

\* Timeouts in the middle of answers only ever take away: as long as no reset
\* has lost bytes, every number a method hands out or leaves in a member is
\* the true one or its leading digits, and every table the true one or its
\* beginning.  The drivers do accept such answers, and read_cmd cuts two more
\* characters off them.
CutOnlyShortens ==
    worst # "gap" =>
        /\ outcome = "returned" =>
              value \in Shortened(TrueValue(method),
                                  IF method = "security" THEN 2 ELSE Width(TrueValue(method)))
        /\ \A x \in DOMAIN member :
              \/ member[x] = InitialMembers[x]
              \/ member[x] \in Shortened(TrueMember(x), Width(TrueMember(x)))
        /\ \A name \in DOMAIN table : ShortenedTable(table[name], TrueTable(name))

\* Whatever is cut or lost, the average flag that read_average relies on and
\* the motor state that movements rely on are right, or the method throws.
FlagsTrue ==
    outcome = "returned" =>
        /\ method = "get_average_flag" => value = unit.flag
        /\ method = "refresh_position" => member["m_motor_state"] = unit.status[2]
=============================================================================
