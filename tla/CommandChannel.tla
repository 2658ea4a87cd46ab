--------------------------- MODULE CommandChannel ---------------------------
(***************************************************************************)
(* Text commands on their way: threads of the clients call, binder threads *)
(* of the service split the command into mPqCommand, parse it, run it and  *)
(* print the answer into mRetBuf, the client copies it into a mRetBuf of   *)
(* its own and splits it into mRet.  None of the four is protected: the    *)
(* service's are shared by all calls, a client's by its threads.  Nor is   *)
(* the position strtok keeps between its calls, one in each process: two   *)
(* splits that overlap take each other's tokens.  Values are symbols that  *)
(* say which case produced them from whose parameters.                     *)
(*                                                                         *)
(* A call of strtok is one step, and a token is assigned whole.  Calls of  *)
(* strtok that overlap could also return a token twice or rubbish, but to  *)
(* torn calls only, and nothing is claimed of those.                       *)
(***************************************************************************)
EXTENDS PqCommands

CONSTANTS
    Threads,         \* each makes one call: the next call of a thread is another's
    Clients,
    Uses             \* Uses[t]: the calls thread t may make

ASSUME ChannelAssumption ==
    /\ Uses \in [Threads -> SUBSET (TextCalls \cup ParcelCalls)]
    /\ "service" \notin Clients /\ {"nobody", "zero"} \cap Threads = {}

VARIABLES
    client,          \* client[t]: the client thread t belongs to
    pc, call,
    position,        \* of strtok in each process: what is left of the text split last
    token,           \* token[t]: what strtok returned to t
    cmd_size,        \* cmd_size[t]: how many tokens t has assigned
    mPqCommand, mRetBuf,  \* of the service
    moduleId, args,  \* of the thread in ParserPqCommand: the id and the parameters
    ran,             \* the case the thread ran
    answer,          \* its reply parcel
    buf, mRet,       \* mRetBuf and mRet of each client
    result,          \* the symbols the caller gets
    met,             \* the calls under way during this one, with their threads
    torn             \* threads that split or parse while two splits overlap

split == <<position, token, cmd_size>>
vars == <<client, pc, call, split, mPqCommand, mRetBuf, moduleId, args, ran, answer,
          buf, mRet, result, met, torn>>

MaxTokens == 20
MaxParams == 17
MaxValues == 10
Nobody == "nobody"
Nothing == [case |-> <<"none", "">>, from |-> {}, values |-> 1]
NoCall == Call("", "", "", "", <<"", "">>, 0, 1)
Running(t) == pc[t] \notin {"idle", "done"}
Go(t, step) == pc' = [pc EXCEPT ![t] = step]

-----------------------------------------------------------------------------
(* strtok.                                                                 *)

Splitting(p) ==
    {t \in Threads : \/ pc[t] \in {"strtok", "assign"} /\ p = "service"
                     \/ pc[t] \in {"cut", "keep"} /\ p = client[t]}

\* The first call has a text of its own, the next ones go on with whatever
\* text this process splits by now.
Strtok(t, p, rest, more, end) ==
    /\ Go(t, IF rest = <<>> THEN end ELSE more)
    /\ token' = [token EXCEPT ![t] = IF rest = <<>> THEN @ ELSE Head(rest)]
    /\ position' = [position EXCEPT ![p] = IF rest = <<>> THEN <<>> ELSE Tail(rest)]

-----------------------------------------------------------------------------
(* The client.                                                             *)

\* SendMethodCall clears the buffer of the client before it sends.
Begin(t, c) ==
    /\ pc[t] = "idle" /\ Go(t, "command") /\ call' = [call EXCEPT ![t] = c]
    /\ buf' = [buf EXCEPT ![client[t]] = [Nothing EXCEPT !.values = 0]]
    /\ met' = [u \in Threads |->
           IF u = t THEN {<<t, c>>} \cup {<<v, call[v]>> : v \in {v \in Threads : Running(v)}}
           ELSE IF Running(u) THEN met[u] \cup {<<t, c>>} ELSE met[u]]
    /\ UNCHANGED <<client, split, mPqCommand, mRetBuf, moduleId, args, ran, answer, mRet,
                   result, torn>>

Copy(t) ==
    /\ pc[t] = "copy" /\ Go(t, IF call[t].values > 1 THEN "split" ELSE "take")
    /\ buf' = [buf EXCEPT ![client[t]] = answer[t]]
    /\ UNCHANGED <<client, call, split, mPqCommand, mRetBuf, moduleId, args, ran, answer, mRet,
                   result, met, torn>>

\* SplitRetBuf: elements behind the answer keep the values of an earlier one.
Value(b, i) == [case |-> b.case, from |-> b.from, place |-> i]
NoValue == [case |-> <<"none", "">>, from |-> {}, place |-> 0]
SplitRetBuf(t) ==
    LET k == client[t]
        tokens == [i \in 1..buf[k].values |-> Value(buf[k], i)] IN
    /\ pc[t] = "split" /\ Strtok(t, k, tokens, "keep", "take")
    /\ cmd_size' = [cmd_size EXCEPT ![t] = 0]
    /\ torn' = IF Splitting(k) = {} THEN torn ELSE torn \cup Splitting(k) \cup {t}
    /\ UNCHANGED <<client, call, mPqCommand, mRetBuf, moduleId, args, ran, answer, buf, mRet,
                   result, met>>
KeepValue(t) ==
    LET k == client[t] IN
    /\ pc[t] = "keep" /\ Go(t, "cut") /\ cmd_size[t] < MaxValues
    /\ cmd_size' = [cmd_size EXCEPT ![t] = @ + 1]
    /\ mRet' = [mRet EXCEPT ![k][cmd_size[t] + 1] = token[t]]
    /\ UNCHANGED <<client, call, position, token, mPqCommand, mRetBuf, moduleId, args, ran,
                   answer, buf, result, met, torn>>
CutValue(t) ==
    /\ pc[t] = "cut" /\ Strtok(t, client[t], position[client[t]], "keep", "take")
    /\ UNCHANGED <<client, call, cmd_size, mPqCommand, mRetBuf, moduleId, args, ran, answer,
                   buf, mRet, result, met, torn>>

\* The elements, or the whole answer through atoi.
Take(t) ==
    LET k == client[t] IN
    /\ pc[t] = "take" /\ Go(t, "done")
    /\ result' = [result EXCEPT ![t] =
           IF call[t].values > 1 THEN {mRet[k][i] : i \in 1..call[t].values}
           ELSE {Value(buf[k], 1)}]
    /\ UNCHANGED <<client, call, split, mPqCommand, mRetBuf, moduleId, args, ran, answer, buf,
                   mRet, met, torn>>

-----------------------------------------------------------------------------
(* The service.                                                            *)

\* A token: whose command it is of and where it stands there.
Tokens(t) == [i \in 1..(3 + call[t].params) |-> <<t, i>>]
NoToken == <<Nobody, 0>>
Zero == <<"zero", 0>>
Unparsed == {"strtok", "assign", "parse", "args", "run"}

\* SplitCommand, token by token; positions behind the last one keep the
\* tokens of an earlier command.
SplitCommand(t) ==
    /\ pc[t] = "command" /\ Strtok(t, "service", Tokens(t), "assign", "parse")
    /\ cmd_size' = [cmd_size EXCEPT ![t] = 0]
    /\ torn' = IF Splitting("service") = {} THEN torn
               ELSE torn \cup {t} \cup {u \in Threads : pc[u] \in Unparsed}
    /\ UNCHANGED <<client, call, mPqCommand, mRetBuf, moduleId, args, ran, answer, buf, mRet,
                   result, met>>
AssignTokenLate(t) ==
    /\ pc[t] = "assign" /\ Go(t, "strtok") /\ cmd_size[t] + 1 < MaxTokens
    /\ cmd_size' = [cmd_size EXCEPT ![t] = @ + 1]
    /\ mPqCommand' = [mPqCommand EXCEPT ![cmd_size[t] + 2] = token[t]]
    /\ UNCHANGED <<client, call, position, token, mRetBuf, moduleId, args, ran, answer, buf,
                   mRet, result, met, torn>>
AssignToken(t) ==
    /\ pc[t] = "assign" /\ Go(t, "strtok") /\ cmd_size[t] < MaxTokens
    /\ cmd_size' = [cmd_size EXCEPT ![t] = @ + 1]
    /\ mPqCommand' = [mPqCommand EXCEPT ![cmd_size[t] + 1] = token[t]]
    /\ UNCHANGED <<client, call, position, token, mRetBuf, moduleId, args, ran, answer, buf,
                   mRet, result, met, torn>>
NextToken(t) ==
    /\ pc[t] = "strtok" /\ Strtok(t, "service", position["service"], "assign", "parse")
    /\ UNCHANGED <<client, call, cmd_size, mPqCommand, mRetBuf, moduleId, args, ran, answer,
                   buf, mRet, result, met, torn>>

\* What atoi and strcmp make of a token: only the second of a command is a
\* verb, a word is no number, a parameter may be the number of any case.
NoId == <<"none", "">>
VerbOf(w) == IF w[2] = 2 THEN call[w[1]].sent ELSE "none"
IdsOf(w) ==
    IF w[2] = 3 THEN {call[w[1]].id}
    ELSE IF w[2] > 3 THEN {NoId} \cup {call[u].id : u \in Threads} ELSE {NoId}

\* ParserPqCommand: the id, then as many parameters as tokens were found
\* behind it, then the verb.
ParseId(t) ==
    /\ pc[t] = "parse" /\ Go(t, "args")
    /\ \E i \in IdsOf(mPqCommand[3]) : moduleId' = [moduleId EXCEPT ![t] = i]
    /\ UNCHANGED <<client, call, split, mPqCommand, mRetBuf, args, ran, answer, buf, mRet,
                   result, met, torn>>
ParseParams(t) ==
    /\ pc[t] = "args" /\ Go(t, "run")
    /\ args' = [args EXCEPT ![t] = [i \in 1..MaxParams |->
                    IF i + 3 <= cmd_size[t] THEN mPqCommand[i + 3] ELSE Zero]]
    /\ UNCHANGED <<client, call, split, mPqCommand, mRetBuf, moduleId, ran, answer, buf, mRet,
                   result, met, torn>>

\* The case of SetCmd or GetCmd, if the verb has one for this id.
SetCmd(name) == {c \in SetCases : c[1] = name}
GetCmd(name) == {c \in GetCases : c[1] = name}
CasesOf(v, i) == IF v # i[1] THEN {} ELSE IF v = "set" THEN SetCmd(i[2]) ELSE GetCmd(i[2])
Run(t) ==
    LET v == VerbOf(mPqCommand[2]) IN
    /\ pc[t] = "run" /\ Go(t, "print")
    /\ ran' = [ran EXCEPT ![t] =
           [verb |-> v, id |-> moduleId[t],
            from |-> UNION {{args[t][i][1] : i \in 1..c[2]} : c \in CasesOf(v, moduleId[t])}]]
    /\ UNCHANGED <<client, call, split, mPqCommand, mRetBuf, moduleId, args, answer, buf, mRet,
                   result, met, torn>>

\* The answer: what the case printed, or its single result; 0 without a case.
Answer(r) ==
    LET C == CasesOf(r.verb, r.id) IN
    IF C = {} THEN Nothing
    ELSE [case |-> r.id, from |-> r.from,
          values |-> IF r.verb = "get" /\ r.id[2] \in PrintedByCase
                     THEN (CHOOSE c \in C : TRUE)[3] ELSE 1]
AnswerSingle(r) ==
    LET C == CasesOf(r.verb, r.id) IN
    IF C = {} THEN Nothing ELSE [case |-> r.id, from |-> r.from, values |-> 1]
PrintAnswerSingle(t) ==
    /\ pc[t] = "print" /\ Go(t, "reply") /\ mRetBuf' = AnswerSingle(ran[t])
    /\ UNCHANGED <<client, call, split, mPqCommand, moduleId, args, ran, answer, buf, mRet,
                   result, met, torn>>
PrintAnswer(t) ==
    /\ pc[t] = "print" /\ Go(t, "reply") /\ mRetBuf' = Answer(ran[t])
    /\ UNCHANGED <<client, call, split, mPqCommand, moduleId, args, ran, answer, buf, mRet,
                   result, met, torn>>
Reply(t) ==
    /\ pc[t] = "reply" /\ Go(t, "copy") /\ answer' = [answer EXCEPT ![t] = mRetBuf]
    /\ UNCHANGED <<client, call, split, mPqCommand, mRetBuf, moduleId, args, ran, buf, mRet,
                   result, met, torn>>

\* A call with a parcel of its own touches none of the shared buffers; the
\* client gets what was written only if it reads the fields in that order.
Aligned(reads, writes) == \A i \in DOMAIN reads : i \in DOMAIN writes /\ reads[i] = writes[i]
Transact(t, c) ==
    /\ pc[t] = "idle" /\ Go(t, "done")
    /\ result' = [result EXCEPT ![t] =
           IF Aligned(c.reads, Writes(c.code)) THEN {c.code} ELSE {"misread"}]
    /\ call' = [call EXCEPT ![t] = c] /\ met' = [met EXCEPT ![t] = {<<t, c>>}]
    /\ UNCHANGED <<client, split, mPqCommand, mRetBuf, moduleId, args, ran, answer, buf, mRet,
                   torn>>

-----------------------------------------------------------------------------
Init ==
    /\ client \in [Threads -> Clients]
    /\ pc = [t \in Threads |-> "idle"] /\ call = [t \in Threads |-> NoCall]
    /\ position = [p \in Clients \cup {"service"} |-> <<>>]
    /\ token = [t \in Threads |-> NoToken] /\ cmd_size = [t \in Threads |-> 0]
    /\ mPqCommand = [i \in 1..MaxTokens |-> NoToken]
    /\ mRetBuf = [Nothing EXCEPT !.values = 0]
    /\ moduleId = [t \in Threads |-> NoId]
    /\ args = [t \in Threads |-> [i \in 1..MaxParams |-> Zero]]
    /\ ran = [t \in Threads |-> [verb |-> "", id |-> <<"", "">>, from |-> {}]]
    /\ answer = [t \in Threads |-> Nothing]
    /\ buf = [k \in Clients |-> [Nothing EXCEPT !.values = 0]]
    /\ mRet = [k \in Clients |-> [i \in 1..MaxValues |-> NoValue]]
    /\ result = [t \in Threads |-> {}] /\ met = [t \in Threads |-> {}] /\ torn = {}

TextStep(t) ==
    \/ \E c \in Uses[t] \cap TextCalls : Begin(t, c)
    \/ SplitCommand(t) \/ AssignToken(t) \/ NextToken(t) \/ ParseId(t) \/ ParseParams(t)
    \/ Run(t) \/ PrintAnswer(t) \/ Reply(t)
    \/ Copy(t) \/ SplitRetBuf(t) \/ KeepValue(t) \/ CutValue(t) \/ Take(t)
Next == \E t \in Threads : TextStep(t) \/ \E c \in Uses[t] \cap ParcelCalls : Transact(t, c)
Spec == Init /\ [][Next]_vars

-----------------------------------------------------------------------------
(* Properties.                                                             *)

\* Calls that do not ask for what they are named for, that send fewer
\* parameters than their case takes, or that read other fields than were
\* written.
Needed(c) == {k[2] : k \in CasesOf(c.verb, <<c.verb, c.name>>)}
Misaddressed == {c \in TextCalls : c.id # <<c.verb, c.name>> \/ c.sent # c.verb}
Short == {c \in TextCalls \ Misaddressed : \E n \in Needed(c) : n > c.params}
Misread == {c \in ParcelCalls : ~Aligned(c.reads, Writes(c.code))}

Alone(t) == pc[t] = "done" /\ met[t] = {<<t, call[t]>>}
OwnAnswer(t) ==
    LET c == call[t] IN
    IF c \in ParcelCalls THEN {c.code}
    ELSE {[case |-> <<c.verb, c.name>>, from |-> IF Needed(c) = {0} THEN {} ELSE {t},
           place |-> i] : i \in 1..c.values}

\* A call no other text command ran into returns the answer of its own case
\* to its own parameters: client, text, tokens, dispatch, printing and
\* splitting agree for all of the functions but those excepted above.
AnswersMatch ==
    \A t \in Threads :
        Alone(t) /\ call[t] \notin Misaddressed \cup Short \cup Misread =>
            result[t] = OwnAnswer(t)

\* Commands that run into each other may mix, and one may run twice or with
\* another's parameters.  As long as no two SplitCommands overlap while the
\* call is split and parsed, its id, verb and parameters come from commands
\* that were under way during it, never from one already answered: it wrote
\* every token it parses itself, and whoever wrote over one did so since.
\* Where two do overlap, strtok may take the tokens of one command for two
\* and leave positions unwritten: nothing is claimed of the calls that saw
\* it, and they do run on what an earlier command left.
NothingInvented ==
    \A t \in Threads \ torn :
        pc[t] \in {"print", "reply", "copy", "split", "keep", "cut", "take"} =>
            /\ \E m \in met[t] : ran[t].id = m[2].id
            /\ \E m \in met[t] : ran[t].verb = m[2].sent
            /\ ran[t].from \subseteq {m[1] : m \in met[t]} \cup {"zero"}

\* What the getters are for (GetMpegNr and its likes): called alone, each one
\* returns the answer of its own case.
GettersAnswered ==
    \A t \in Threads :
        Alone(t) /\ call[t] \in TextCalls \ Short /\ call[t].verb = "get" =>
            result[t] = OwnAnswer(t)
=============================================================================
