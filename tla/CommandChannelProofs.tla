------------------------ MODULE CommandChannelProofs ------------------------
(***************************************************************************)
(* Proofs about the text commands.  As long as no two splits overlap, a    *)
(* command that runs into others is never answered from one that was over  *)
(* before: whatever it finds in the shared buffers of the service was      *)
(* written while it was under way, because it wrote all of it itself       *)
(* first.  A command that meets no other finds its own everywhere, and the *)
(* tables of both sides agree on it.                                       *)
(***************************************************************************)
EXTENDS CommandChannel, SequenceTheorems, TLAPS

Steps == {"idle", "command", "strtok", "assign", "parse", "args", "run", "print", "reply",
          "copy", "split", "keep", "cut", "take", "done"}

\* What strtok has left of a text after n tokens.
Left(s, n) == SubSeq(s, n + 1, Len(s))

Shape ==
    /\ pc \in [Threads -> Steps] /\ client \in [Threads -> Clients]
    /\ DOMAIN call = Threads /\ DOMAIN met = Threads
    /\ DOMAIN position = Clients \cup {"service"}
    /\ DOMAIN token = Threads /\ DOMAIN cmd_size = Threads
    /\ DOMAIN mPqCommand = 1..MaxTokens
    /\ DOMAIN moduleId = Threads /\ DOMAIN args = Threads /\ DOMAIN ran = Threads
    /\ \A t \in Threads : Running(t) => call[t] \in TextCalls

\* Two calls under way at the same time know of each other, and of calls that
\* were made.
Acquainted ==
    /\ \A t, u \in Threads : Running(t) /\ Running(u) => <<u, call[u]>> \in met[t]
    /\ \A t \in Threads : \A m \in met[t] :
           m[1] \in Threads /\ pc[m[1]] # "idle" /\ m[2] = call[m[1]]

\* Overlapping splits leave nobody they could have disturbed untorn.
Apart ==
    /\ \A t \in torn : t \in Threads /\ pc[t] \notin {"idle", "command"}
    /\ \A t, u \in Threads :
           pc[t] \in Unparsed /\ t \notin torn /\ pc[u] \in {"strtok", "assign"} =>
               u \notin torn
    /\ \A t, u \in Threads :
           pc[t] \in {"strtok", "assign"} /\ pc[u] \in {"strtok", "assign"} /\ t # u =>
               t \in torn

\* How far the split of t is.
SplitSo(t) ==
    /\ pc[t] \in Unparsed => cmd_size[t] \in 0..Len(Tokens(t))
    /\ pc[t] = "assign" =>
           /\ cmd_size[t] < Len(Tokens(t)) /\ token[t] = <<t, cmd_size[t] + 1>>
           /\ position["service"] = Left(Tokens(t), cmd_size[t] + 1)
    /\ pc[t] = "strtok" => position["service"] = Left(Tokens(t), cmd_size[t])
    /\ pc[t] \in {"parse", "args", "run"} => cmd_size[t] = Len(Tokens(t))

\* What t finds where it wrote, and what it took from there.
Found(t) ==
    pc[t] \in Unparsed => \A i \in 1..MaxTokens :
        i <= cmd_size[t] => \E m \in met[t] : mPqCommand[i] = <<m[1], i>>
ModuleMet(t) ==
    pc[t] \in {"args", "run"} => \E m \in met[t] : moduleId[t] = m[2].id
ArgsMet(t) ==
    pc[t] = "run" => \A i \in 1..MaxParams :
        args[t][i] = Zero \/ \E m \in met[t] : args[t][i] = <<m[1], i + 3>>
RanMet(t) ==
    pc[t] \in {"print", "reply", "copy", "split", "keep", "cut", "take"} =>
        /\ \E m \in met[t] : ran[t].id = m[2].id
        /\ \E m \in met[t] : ran[t].verb = m[2].sent
        /\ ran[t].from \subseteq {m[1] : m \in met[t]} \cup {"zero"}

TracedBy(t) == SplitSo(t) /\ Found(t) /\ ModuleMet(t) /\ ArgsMet(t) /\ RanMet(t)
Traced == \A t \in Threads \ torn : TracedBy(t)

Inv == Shape /\ Acquainted /\ Apart /\ Traced

-----------------------------------------------------------------------------
(* The tables.                                                             *)

\* No case of the service uses more parameters than a command has room for.
LEMMA SetParams == \A c \in SetCases : c[2] \in 0..MaxParams
PROOF
<1>1. \A c \in SetPictureCases : c[2] \in 0..MaxParams
  BY SMTT(60) DEF SetPictureCases, MaxParams
<1>2. \A c \in SetFactoryCases : c[2] \in 0..MaxParams
  BY SMTT(60) DEF SetFactoryCases, MaxParams
<1>3. \A c \in SetParamsCases : c[2] \in 0..MaxParams
  BY SMTT(60) DEF SetParamsCases, MaxParams
<1> QED BY <1>1, <1>2, <1>3 DEF SetCases

\* Nor does one print more values than the client has room for.
LEMMA GetParams == \A c \in GetCases : c[2] \in 0..MaxParams /\ c[3] \in 1..MaxValues
PROOF
<1>1. \A c \in GetPictureCases : c[2] \in 0..MaxParams /\ c[3] \in 1..MaxValues
  BY SMTT(60) DEF GetPictureCases, MaxParams, MaxValues
<1>2. \A c \in GetFactoryCases : c[2] \in 0..MaxParams /\ c[3] \in 1..MaxValues
  BY SMTT(60) DEF GetFactoryCases, MaxParams, MaxValues
<1>3. \A c \in GetParamsCases : c[2] \in 0..MaxParams /\ c[3] \in 1..MaxValues
  BY SMTT(60) DEF GetParamsCases, MaxParams, MaxValues
<1> QED BY <1>1, <1>2, <1>3 DEF GetCases

LEMMA CaseParams ==
  ASSUME NEW v, NEW i
  PROVE  \A c \in CasesOf(v, i) : c[2] \in 0..MaxParams
PROOF
  BY SetParams, GetParams DEF CasesOf, SetCmd, GetCmd

-----------------------------------------------------------------------------
(* The functions of the client against the cases of the service.           *)

\* Each function has the fields of its kind, sends a command the service has
\* a case for, and reads no more values from the answer than the case prints.
IsText(c) == DOMAIN c = {"function", "verb", "name", "sent", "id", "params", "values"}
IsParcel(c) == DOMAIN c = {"function", "code", "sent", "reads"}
Wide == {<<"SOURCE_CHANNEL", 3>>, <<"FACTORY_OVERSCAN", 4>>, <<"COLOR_CUSTOMIZE", 3>>,
         <<"COLOR_CUSTOMIZE_3DLUT", 3>>, <<"FACTORY_COLOR", 10>>}
Served(c) ==
    /\ IsText(c)
    /\ c.params \in Nat /\ c.values \in 1..MaxValues /\ c.verb \in {"set", "get"}
    /\ c.id = <<c.verb, c.name>> /\ c.sent = c.verb =>
           /\ c.verb = "set" => \/ <<c.name, c.params>> \in SetCases
                                \/ <<c.name, 1>> \in SetCases
           /\ c.verb = "get" => \/ <<c.name, c.params, c.values>> \in GetCases
                                \/ <<c.name, 1, 1>> \in GetCases
           /\ c.values > 1 => c.verb = "get" /\ <<c.name, c.values>> \in Wide

LEMMA FunctionsServed == \A c \in TextCalls : Served(c)
PROOF
<1> USE DEF S, G, M, Call, Served, IsText, MaxValues, Wide, SetCases, SetPictureCases,
            SetFactoryCases, SetParamsCases, GetCases, GetPictureCases, GetFactoryCases,
            GetParamsCases
<1>1. \A c \in ModeCalls : Served(c)
  BY SMTT(60) DEF ModeCalls
<1>2. \A c \in PictureCalls : Served(c)
  BY SMTT(60) DEF PictureCalls
<1>3. \A c \in DisplayCalls : Served(c)
  BY SMTT(60) DEF DisplayCalls
<1>4. \A c \in BacklightCalls : Served(c)
  BY SMTT(60) DEF BacklightCalls
<1>5. \A c \in SourceCalls : Served(c)
  BY SMTT(60) DEF SourceCalls
<1>6. \A c \in MotionCalls : Served(c)
  BY SMTT(60) DEF MotionCalls
<1>7. \A c \in StretchCalls : Served(c)
  BY SMTT(60) DEF StretchCalls
<1>8. \A c \in NolineCalls : Served(c)
  BY SMTT(60) DEF NolineCalls
<1>9. \A c \in ParamsCalls : Served(c)
  BY SMTT(60) DEF ParamsCalls
<1>10. \A c \in CustomizeCalls : Served(c)
  BY SMTT(60) DEF CustomizeCalls
<1>11. \A c \in WbGammaCalls : Served(c)
  BY SMTT(60) DEF WbGammaCalls
<1>12. \A c \in FilmCalls : Served(c)
  BY SMTT(60) DEF FilmCalls
<1>13. \A c \in FactoryPictureCalls : Served(c)
  BY SMTT(60) DEF FactoryPictureCalls
<1>14. \A c \in FactoryGainCalls : Served(c)
  BY SMTT(60) DEF FactoryGainCalls
<1>15. \A c \in FactoryOffsetCalls : Served(c)
  BY SMTT(60) DEF FactoryOffsetCalls
<1>16. \A c \in FactoryRangeCalls : Served(c)
  BY SMTT(60) DEF FactoryRangeCalls
<1>17. \A c \in FactoryWbGammaCalls : Served(c)
  BY SMTT(60) DEF FactoryWbGammaCalls
<1> HIDE DEF Served
<1> QED
  BY <1>1, <1>2, <1>3, <1>4, <1>5, <1>6, <1>7, <1>8, <1>9,
     <1>10, <1>11, <1>12, <1>13, <1>14, <1>15, <1>16, <1>17 DEF TextCalls

LEMMA Parcels ==
  /\ \A c \in ParcelCalls : IsParcel(c)
  /\ \A c : ~(IsParcel(c) /\ IsText(c))
PROOF
<1>1. \A c \in ParcelCalls : IsParcel(c)
  BY SMTT(60) DEF ParcelCalls, UserParamCalls, SscCalls, DataCalls, CopyCalls, Parcel, IsParcel
<1>2. \A c : ~(IsParcel(c) /\ IsText(c))
  BY DEF IsParcel, IsText
<1> QED BY <1>1, <1>2

-----------------------------------------------------------------------------
(* strtok.                                                                 *)

LEMMA LeftOf ==
  ASSUME NEW E, NEW s \in Seq(E), NEW n \in 0..Len(s)
  PROVE  /\ Left(s, 0) = s
         /\ n < Len(s) => /\ Left(s, n) # <<>> /\ Head(Left(s, n)) = s[n + 1]
                          /\ Tail(Left(s, n)) = Left(s, n + 1)
         /\ n = Len(s) => Left(s, n) = <<>>
PROOF
<1>1. Left(s, 0) = s
  BY SubSeqFull DEF Left
<1>2. ASSUME n < Len(s)
      PROVE  /\ Left(s, n) # <<>> /\ Head(Left(s, n)) = s[n + 1]
             /\ Tail(Left(s, n)) = Left(s, n + 1)
  <2>1. n + 1 \in 1..Len(s) /\ Len(s) \in (n + 1)..Len(s)
    BY <1>2
  <2>2. Head(Left(s, n)) = s[n + 1] /\ Tail(Left(s, n)) = Left(s, n + 1)
    BY <2>1, HeadTailOfSubSeq DEF Left
  <2>3. \A i \in (n + 1)..Len(s) : s[i] \in E
    OBVIOUS
  <2>4. Len(Left(s, n)) = Len(s) - (n + 1) + 1
    BY <2>1, <2>3, SubSeqProperties DEF Left
  <2>5. Left(s, n) # <<>>
    BY <1>2, <2>4
  <2> QED BY <2>2, <2>5
<1>3. n = Len(s) => Left(s, n) = <<>>
  BY SubSeqEmpty DEF Left
<1> QED BY <1>1, <1>2, <1>3

LEMMA TokensOf ==
  ASSUME NEW t \in Threads, call[t] \in TextCalls
  PROVE  /\ Tokens(t) \in Seq(Threads \X Nat) /\ Len(Tokens(t)) = 3 + call[t].params
         /\ \A i \in 1..Len(Tokens(t)) : Tokens(t)[i] = <<t, i>>
         /\ call[t].params \in Nat
PROOF
<1>1. call[t].params \in Nat
  BY FunctionsServed DEF Served
<1> QED BY <1>1 DEF Tokens

\* A call of strtok where n tokens of s are gone.
LEMMA StrtokAt ==
  ASSUME Shape, NEW t \in Threads, NEW p \in Clients \cup {"service"},
         NEW E, NEW s \in Seq(E), NEW n \in 0..Len(s), NEW more, NEW end,
         Strtok(t, p, Left(s, n), more, end)
  PROVE  /\ n < Len(s) => /\ Go(t, more) /\ token'[t] = s[n + 1]
                          /\ position'[p] = Left(s, n + 1)
         /\ n = Len(s) => Go(t, end)
         /\ n < Len(s) \/ n = Len(s)
PROOF
<1>1. n < Len(s) => /\ Left(s, n) # <<>> /\ Head(Left(s, n)) = s[n + 1]
                    /\ Tail(Left(s, n)) = Left(s, n + 1)
  BY LeftOf
<1>2. n = Len(s) => Left(s, n) = <<>>
  BY LeftOf
<1> DEFINE L == Left(s, n)
<1>3. /\ Go(t, IF L = <<>> THEN end ELSE more)
      /\ token' = [token EXCEPT ![t] = IF L = <<>> THEN @ ELSE Head(L)]
      /\ position' = [position EXCEPT ![p] = IF L = <<>> THEN <<>> ELSE Tail(L)]
  BY DEF Strtok
<1> HIDE DEF L
<1>4. CASE L = <<>>
  BY <1>1, <1>2, <1>3, <1>4 DEF L, Shape
<1>5. CASE L # <<>>
  <2>1. n < Len(s)
    BY <1>2, <1>5 DEF L
  <2>2. Head(L) = s[n + 1] /\ Tail(L) = Left(s, n + 1)
    BY <1>1, <2>1 DEF L
  <2>3. Go(t, more) /\ token'[t] = Head(L) /\ position'[p] = Tail(L)
    BY <1>3, <1>5 DEF Shape
  <2> QED BY <2>1, <2>2, <2>3
<1> QED BY <1>4, <1>5

\* Whatever is left, strtok disturbs no token and no process but the one.
LEMMA StrtokElsewhere ==
  ASSUME Shape, NEW t \in Threads, NEW p \in Clients \cup {"service"}, NEW rest,
         NEW more \in Steps, NEW end \in Steps, Strtok(t, p, rest, more, end)
  PROVE  /\ DOMAIN token' = Threads /\ DOMAIN position' = Clients \cup {"service"}
         /\ \A u \in Threads \ {t} : token'[u] = token[u]
         /\ \A q \in (Clients \cup {"service"}) \ {p} : position'[q] = position[q]
         /\ Go(t, more) \/ Go(t, end)
PROOF
  BY DEF Strtok, Shape

-----------------------------------------------------------------------------
(* The steps.                                                              *)

\* What a step of t leaves of the others.
Kept(v) ==
    /\ pc'[v] = pc[v] /\ call'[v] = call[v] /\ token'[v] = token[v]
    /\ cmd_size'[v] = cmd_size[v] /\ moduleId'[v] = moduleId[v] /\ args'[v] = args[v]
    /\ ran'[v] = ran[v]

\* A thread whose tokens are left alone, or written over by calls it met.
LEMMA OthersTraced ==
  ASSUME NEW v \in Threads, TracedBy(v), Kept(v), met[v] \subseteq met'[v],
         pc[v] \in {"strtok", "assign"} => position'["service"] = position["service"],
         pc[v] \in Unparsed => \A i \in 1..MaxTokens :
             \/ mPqCommand'[i] = mPqCommand[i]
             \/ \E m \in met'[v] : mPqCommand'[i] = <<m[1], i>>
  PROVE  TracedBy(v)'
PROOF
<1>1. Tokens(v)' = Tokens(v)
  BY DEF Kept, Tokens
<1>2. SplitSo(v)'
  BY <1>1 DEF TracedBy, Kept, SplitSo, Unparsed
<1>3. Found(v)'
  <2> SUFFICES ASSUME pc[v] \in Unparsed, NEW i \in 1..MaxTokens, i <= cmd_size[v]
               PROVE  \E m \in met'[v] : mPqCommand'[i] = <<m[1], i>>
    BY DEF Kept, Found, Unparsed
  <2>1. \E m \in met[v] : mPqCommand[i] = <<m[1], i>>
    BY DEF TracedBy, Found
  <2> QED BY <2>1
<1>4. ModuleMet(v)' /\ RanMet(v)'
  BY DEF TracedBy, Kept, ModuleMet, RanMet
<1>5. ArgsMet(v)'
  BY DEF TracedBy, Kept, ArgsMet
<1> QED BY <1>2, <1>3, <1>4, <1>5 DEF TracedBy

LEMMA OnlyMoves ==
  ASSUME Shape, NEW t \in Threads, NEW s, Go(t, s)
  PROVE  pc'[t] = s /\ \A u \in Threads \ {t} : pc'[u] = pc[u]
PROOF
  BY DEF Shape, Go

\* A step of a call already under way: those who know it still do.
LEMMA StillAcquainted ==
  ASSUME Inv, NEW t \in Threads, Running(t), NEW s \in Steps \ {"idle"}, Go(t, s),
         UNCHANGED <<call, met>>
  PROVE  /\ pc' \in [Threads -> Steps] /\ Acquainted'
         /\ \A u \in Threads : Running(u) => <<t, call[t]>> \in met[u]
         /\ \A u \in Threads : Running(u)' => Running(u) /\ call[u] \in TextCalls
PROOF
<1>1. pc' \in [Threads -> Steps]
  BY DEF Go, Inv, Shape
<1>2. pc'[t] = s /\ \A u \in Threads \ {t} : pc'[u] = pc[u]
  BY OnlyMoves DEF Inv
<1>3. \A u \in Threads : Running(u)' => Running(u)
  BY <1>2 DEF Running
<1>4. Acquainted'
  <2>1. \A u, v \in Threads : Running(u)' /\ Running(v)' => <<v, call'[v]>> \in met'[u]
    BY <1>3 DEF Inv, Acquainted
  <2>2. ASSUME NEW u \in Threads, NEW m \in met'[u]
        PROVE  m[1] \in Threads /\ pc'[m[1]] # "idle" /\ m[2] = call'[m[1]]
    BY <1>2, <2>2 DEF Inv, Acquainted
  <2> QED BY <2>1, <2>2 DEF Acquainted
<1> QED BY <1>1, <1>3, <1>4 DEF Inv, Acquainted, Shape

\* A step that tears nobody and starts no split.
LEMMA StillApart ==
  ASSUME Inv, NEW t \in Threads, NEW s \in Steps, Go(t, s), torn' = torn,
         s \notin {"idle", "command"} \/ (pc[t] = "idle" /\ s = "command"),
         s \in {"strtok", "assign"} => pc[t] \in {"strtok", "assign"},
         s \in Unparsed => pc[t] \in Unparsed
  PROVE  Apart'
PROOF
<1>1. pc'[t] = s /\ \A u \in Threads \ {t} : pc'[u] = pc[u]
  BY OnlyMoves DEF Inv
<1>2. \A u \in torn' : u \in Threads /\ pc'[u] \notin {"idle", "command"}
  BY <1>1 DEF Inv, Apart
<1>3. \A u \in Threads : /\ pc'[u] \in Unparsed => pc[u] \in Unparsed
                         /\ pc'[u] \in {"strtok", "assign"} => pc[u] \in {"strtok", "assign"}
  BY <1>1
<1> QED BY <1>2, <1>3 DEF Inv, Apart, Unparsed

\* A step of t that leaves the text and its tokens alone.
LEMMA StepBehind ==
  ASSUME Inv, NEW t \in Threads, Running(t), NEW s \in Steps \ {"idle"}, Go(t, s),
         UNCHANGED <<call, met>>, Shape', Apart', torn \subseteq torn',
         position'["service"] = position["service"] \/ pc[t] = "strtok",
         \A v \in Threads \ {t} : Kept(v),
         \A v \in Threads \ torn' : pc[v] \in Unparsed => \A i \in 1..MaxTokens :
             \/ mPqCommand'[i] = mPqCommand[i]
             \/ \E m \in met[v] : mPqCommand'[i] = <<m[1], i>>,
         t \notin torn' => TracedBy(t)'
  PROVE  Inv'
PROOF
<1>1. Acquainted'
  BY StillAcquainted
<1>2. ASSUME NEW v \in Threads, v \notin torn'
      PROVE  TracedBy(v)'
  <2>1. CASE v = t
    BY <1>2, <2>1
  <2>2. CASE v # t
    <3>1. TracedBy(v) /\ Kept(v) /\ met[v] \subseteq met'[v]
      BY <1>2, <2>2 DEF Inv, Traced
    <3>2. pc[v] \in {"strtok", "assign"} => position'["service"] = position["service"]
      BY <1>2, <2>2 DEF Inv, Apart
    <3>3. pc[v] \in Unparsed => \A i \in 1..MaxTokens :
             \/ mPqCommand'[i] = mPqCommand[i]
             \/ \E m \in met'[v] : mPqCommand'[i] = <<m[1], i>>
      BY <1>2
    <3> QED BY <3>1, <3>2, <3>3, OthersTraced
  <2> QED BY <2>1, <2>2
<1> QED BY <1>1, <1>2 DEF Inv, Traced

LEMMA StepBegin ==
  ASSUME Inv, NEW t \in Threads, NEW c \in TextCalls, Begin(t, c)
  PROVE  Inv'
PROOF
<1>1. /\ pc[t] = "idle" /\ Go(t, "command") /\ call' = [call EXCEPT ![t] = c]
      /\ UNCHANGED <<client, position, token, cmd_size, mPqCommand, moduleId, args, ran, torn>>
  BY DEF Begin, split
<1>2. DOMAIN met' = Threads
  BY DEF Begin
<1>3. pc'[t] = "command" /\ \A u \in Threads \ {t} : pc'[u] = pc[u]
  BY <1>1, OnlyMoves DEF Inv
<1>4. call'[t] = c /\ \A u \in Threads \ {t} : call'[u] = call[u]
  BY <1>1 DEF Inv, Shape
<1>5. \A u \in Threads \ {t} :
          met'[u] = IF Running(u) THEN met[u] \cup {<<t, c>>} ELSE met[u]
  BY DEF Begin
<1>6. met'[t] = {<<t, c>>} \cup {<<v, call[v]>> : v \in {v \in Threads : Running(v)}}
  BY DEF Begin
<1>7. ~Running(t) /\ Running(t)' /\ \A u \in Threads \ {t} : Running(u)' <=> Running(u)
  BY <1>1, <1>3 DEF Running
<1>8. Shape'
  <2>1. pc' \in [Threads -> Steps]
    BY <1>1 DEF Go, Inv, Shape, Steps
  <2> QED BY <1>1, <1>2, <1>4, <1>7, <2>1 DEF Inv, Shape
<1>9. Acquainted'
  <2>1. ASSUME NEW u \in Threads, NEW v \in Threads, Running(u)', Running(v)'
        PROVE  <<v, call'[v]>> \in met'[u]
    <3>1. CASE u = t
      <4>1. v # t => Running(v) /\ call'[v] = call[v]
        BY <1>4, <1>7, <2>1
      <4> QED BY <1>4, <1>6, <3>1, <4>1
    <3>2. CASE u # t
      <4>1. Running(u) /\ met'[u] = met[u] \cup {<<t, c>>}
        BY <1>5, <1>7, <2>1, <3>2
      <4>2. v # t => <<v, call[v]>> \in met[u] /\ call'[v] = call[v]
        BY <1>4, <1>7, <2>1, <4>1 DEF Inv, Acquainted
      <4> QED BY <1>4, <4>1, <4>2
    <3> QED BY <3>1, <3>2
  <2>2. ASSUME NEW u \in Threads, NEW m \in met'[u]
        PROVE  m[1] \in Threads /\ pc'[m[1]] # "idle" /\ m[2] = call'[m[1]]
    <3>1. CASE m = <<t, c>>
      BY <1>3, <1>4, <3>1
    <3>2. CASE u # t /\ m \in met[u]
      <4>1. m[1] \in Threads /\ pc[m[1]] # "idle" /\ m[2] = call[m[1]]
        BY <3>2 DEF Inv, Acquainted
      <4> QED BY <1>1, <1>3, <1>4, <4>1
    <3>3. CASE u = t /\ m # <<t, c>>
      <4>1. PICK v \in Threads : Running(v) /\ m = <<v, call[v]>>
        BY <1>6, <2>2, <3>3
      <4>2. v # t /\ pc[v] # "idle"
        BY <1>1, <4>1 DEF Running
      <4> QED BY <1>3, <1>4, <4>1, <4>2
    <3> QED BY <1>5, <2>2, <3>1, <3>2, <3>3
  <2> QED BY <2>1, <2>2 DEF Acquainted
<1>10. Apart'
  BY <1>1, StillApart DEF Steps, Unparsed
<1>11. ASSUME NEW v \in Threads, v \notin torn'
       PROVE  TracedBy(v)'
  <2>1. CASE v = t
    BY <1>3, <2>1 DEF TracedBy, SplitSo, Found, ModuleMet, ArgsMet, RanMet, Unparsed
  <2>2. CASE v # t
    <3>1. TracedBy(v) /\ Kept(v) /\ met[v] \subseteq met'[v]
      BY <1>1, <1>3, <1>4, <1>5, <1>11, <2>2 DEF Inv, Traced, Kept
    <3> QED BY <1>1, <3>1, OthersTraced
  <2> QED BY <2>1, <2>2
<1> QED BY <1>8, <1>9, <1>10, <1>11 DEF Inv, Traced

\* A parcel goes past the shared buffers.
LEMMA StepTransact ==
  ASSUME Inv, NEW t \in Threads, NEW c, Transact(t, c)
  PROVE  Inv'
PROOF
<1>1. /\ pc[t] = "idle" /\ Go(t, "done") /\ call' = [call EXCEPT ![t] = c]
      /\ met' = [met EXCEPT ![t] = {<<t, c>>}]
      /\ UNCHANGED <<client, position, token, cmd_size, mPqCommand, moduleId, args, ran, torn>>
  BY DEF Transact, split
<1>2. pc'[t] = "done" /\ \A u \in Threads \ {t} : pc'[u] = pc[u]
  BY <1>1, OnlyMoves DEF Inv
<1>3. /\ call'[t] = c /\ \A u \in Threads \ {t} : call'[u] = call[u]
      /\ met'[t] = {<<t, c>>} /\ \A u \in Threads \ {t} : met'[u] = met[u]
  BY <1>1 DEF Inv, Shape
<1>4. ~Running(t)' /\ \A u \in Threads \ {t} : Running(u)' <=> Running(u)
  BY <1>2 DEF Running
<1>5. Shape'
  <2>1. pc' \in [Threads -> Steps]
    BY <1>1 DEF Go, Inv, Shape, Steps
  <2> QED BY <1>1, <1>3, <1>4, <2>1 DEF Inv, Shape
<1>6. Acquainted'
  <2>1. \A u, v \in Threads : Running(u)' /\ Running(v)' => <<v, call'[v]>> \in met'[u]
    BY <1>3, <1>4 DEF Inv, Acquainted
  <2>2. ASSUME NEW u \in Threads, NEW m \in met'[u]
        PROVE  m[1] \in Threads /\ pc'[m[1]] # "idle" /\ m[2] = call'[m[1]]
    BY <1>1, <1>2, <1>3, <2>2 DEF Inv, Acquainted
  <2> QED BY <2>1, <2>2 DEF Acquainted
<1>7. Apart'
  BY <1>1, StillApart DEF Steps, Unparsed
<1>8. ASSUME NEW v \in Threads, v \notin torn'
      PROVE  TracedBy(v)'
  <2>1. CASE v = t
    BY <1>2, <2>1 DEF TracedBy, SplitSo, Found, ModuleMet, ArgsMet, RanMet, Unparsed
  <2>2. CASE v # t
    <3>1. TracedBy(v) /\ Kept(v) /\ met[v] \subseteq met'[v]
      BY <1>1, <1>2, <1>3, <1>8, <2>2 DEF Inv, Traced, Kept
    <3> QED BY <1>1, <3>1, OthersTraced
  <2> QED BY <2>1, <2>2
<1> QED BY <1>5, <1>6, <1>7, <1>8 DEF Inv, Traced

\* SplitCommand: the text is t's own, unless somebody else is splitting.
LEMMA StepSplitCommand ==
  ASSUME Inv, NEW t \in Threads, SplitCommand(t)
  PROVE  Inv'
PROOF
<1>1. /\ pc[t] = "command" /\ Strtok(t, "service", Tokens(t), "assign", "parse")
      /\ cmd_size' = [cmd_size EXCEPT ![t] = 0]
      /\ torn' = IF Splitting("service") = {} THEN torn
                 ELSE torn \cup {t} \cup {u \in Threads : pc[u] \in Unparsed}
      /\ UNCHANGED <<client, call, met, mPqCommand, moduleId, args, ran>>
  BY DEF SplitCommand
<1>2. Shape /\ Running(t) /\ call[t] \in TextCalls
  BY <1>1 DEF Inv, Shape, Running
<1>3. /\ Tokens(t) \in Seq(Threads \X Nat) /\ 0 < Len(Tokens(t)) /\ Len(Tokens(t)) \in Nat
      /\ \A i \in 1..Len(Tokens(t)) : Tokens(t)[i] = <<t, i>>
      /\ Tokens(t) = Left(Tokens(t), 0)
  BY <1>2, TokensOf, LeftOf
<1>4. Strtok(t, "service", Left(Tokens(t), 0), "assign", "parse")
  BY <1>1, <1>3
<1>5. /\ Go(t, "assign") /\ token'[t] = Tokens(t)[0 + 1]
      /\ position'["service"] = Left(Tokens(t), 0 + 1)
  <2>1. 0 \in 0..Len(Tokens(t))
    BY <1>3
  <2> QED BY <1>2, <1>3, <1>4, <2>1, StrtokAt
<1>6. /\ DOMAIN token' = Threads /\ DOMAIN position' = Clients \cup {"service"}
      /\ \A u \in Threads \ {t} : token'[u] = token[u]
  BY <1>1, <1>2, StrtokElsewhere DEF Steps
<1>7. pc'[t] = "assign" /\ \A u \in Threads \ {t} : pc'[u] = pc[u]
  BY <1>2, <1>5, OnlyMoves
<1>8. /\ DOMAIN cmd_size' = Threads /\ cmd_size'[t] = 0
      /\ \A u \in Threads \ {t} : cmd_size'[u] = cmd_size[u]
  BY <1>1, <1>2 DEF Shape
<1>9. /\ pc' \in [Threads -> Steps] /\ Acquainted'
      /\ \A u \in Threads : Running(u)' => call[u] \in TextCalls
  BY <1>1, <1>2, <1>5, StillAcquainted DEF Steps
<1>10. Shape'
  BY <1>1, <1>6, <1>8, <1>9 DEF Inv, Shape
<1>11. \A u \in Threads : pc[u] \in {"strtok", "assign"} <=> u \in Splitting("service")
  BY <1>2, ChannelAssumption DEF Splitting, Shape
<1>12. Apart'
  <2>1. CASE Splitting("service") = {}
    <3>1. torn' = torn /\ \A u \in Threads : pc[u] \notin {"strtok", "assign"}
      BY <1>1, <1>11, <2>1
    <3>2. \A u \in Threads : pc'[u] \in {"strtok", "assign"} => u = t
      BY <1>7, <3>1
    <3>3. t \notin torn
      BY <1>1 DEF Inv, Apart
    <3>4. \A u \in torn' : u \in Threads /\ pc'[u] \notin {"idle", "command"}
      BY <1>7, <3>1 DEF Inv, Apart
    <3> QED BY <3>1, <3>2, <3>3, <3>4 DEF Apart
  <2>2. CASE Splitting("service") # {}
    <3>1. torn' = torn \cup {t} \cup {u \in Threads : pc[u] \in Unparsed}
      BY <1>1, <2>2
    <3>2. \A u \in Threads : pc'[u] \in Unparsed => u \in torn'
      BY <1>7, <3>1
    <3>3. \A u \in torn' : u \in Threads /\ pc'[u] \notin {"idle", "command"}
      BY <1>7, <3>1 DEF Inv, Apart, Unparsed
    <3> QED BY <3>2, <3>3 DEF Apart, Unparsed
  <2> QED BY <2>1, <2>2
<1>13. ASSUME NEW v \in Threads, v \notin torn'
       PROVE  TracedBy(v)'
  <2>1. Tokens(v)' = Tokens(v)
    BY <1>1 DEF Tokens
  <2>2. CASE v = t
    <3>1. SplitSo(t)'
      BY <1>3, <1>5, <1>7, <1>8, <2>1, <2>2 DEF SplitSo
    <3>2. Found(t)'
      BY <1>8 DEF Found
    <3> QED BY <1>7, <2>2, <3>1, <3>2 DEF TracedBy, ModuleMet, ArgsMet, RanMet
  <2>3. CASE v # t
    <3>1. v \notin torn
      BY <1>1, <1>13
    <3>2. TracedBy(v) /\ Kept(v) /\ met[v] \subseteq met'[v]
      BY <1>1, <1>6, <1>7, <1>8, <2>3, <3>1 DEF Inv, Traced, Kept
    <3>3. pc[v] \notin {"strtok", "assign"}
      BY <1>1, <1>11, <1>13 DEF Unparsed
    <3> QED BY <1>1, <3>2, <3>3, OthersTraced
  <2> QED BY <2>2, <2>3
<1> QED BY <1>9, <1>10, <1>12, <1>13 DEF Inv, Traced

\* A token of an untorn split is t's own: who reads it later knows t.
LEMMA StepAssignToken ==
  ASSUME Inv, NEW t \in Threads, AssignToken(t)
  PROVE  Inv'
PROOF
<1> DEFINE n == cmd_size[t]
<1>1. /\ pc[t] = "assign" /\ Go(t, "strtok") /\ n < MaxTokens
      /\ cmd_size' = [cmd_size EXCEPT ![t] = n + 1]
      /\ mPqCommand' = [mPqCommand EXCEPT ![n + 1] = token[t]]
      /\ UNCHANGED <<client, call, met, position, token, moduleId, args, ran, torn>>
  BY DEF AssignToken
<1>2. Shape /\ Running(t) /\ call[t] \in TextCalls
  BY <1>1 DEF Inv, Shape, Running
<1>3. pc'[t] = "strtok" /\ \A u \in Threads \ {t} : pc'[u] = pc[u]
  BY <1>1, <1>2, OnlyMoves
<1>4. /\ cmd_size'[t] = n + 1 /\ DOMAIN cmd_size' = Threads
      /\ \A u \in Threads \ {t} : cmd_size'[u] = cmd_size[u]
  BY <1>1, <1>2 DEF Shape
<1>5. /\ pc' \in [Threads -> Steps] /\ \A u \in Threads : Running(u)' => call[u] \in TextCalls
      /\ \A u \in Threads : Running(u) => <<t, call[t]>> \in met[u]
  BY <1>1, <1>2, StillAcquainted DEF Steps
<1>6. Shape'
  BY <1>1, <1>2, <1>4, <1>5 DEF Shape
<1>7. Apart'
  BY <1>1, StillApart DEF Steps, Unparsed
<1>8. \A i \in 1..MaxTokens : mPqCommand'[i] = IF i = n + 1 THEN token[t] ELSE mPqCommand[i]
  BY <1>1, <1>2 DEF Shape
<1>9. t \notin torn => /\ n \in 0..Len(Tokens(t)) /\ n < Len(Tokens(t))
                       /\ token[t] = <<t, n + 1>>
                       /\ position["service"] = Left(Tokens(t), n + 1)
  BY <1>1 DEF Inv, Traced, TracedBy, SplitSo, Unparsed
<1>10. Len(Tokens(t)) \in Nat
  BY <1>2, TokensOf
<1>11. ASSUME NEW v \in Threads \ torn', pc[v] \in Unparsed, NEW i \in 1..MaxTokens
       PROVE  mPqCommand'[i] = mPqCommand[i] \/ \E m \in met[v] : mPqCommand'[i] = <<m[1], i>>
  <2>1. t \notin torn
    BY <1>1, <1>11 DEF Inv, Apart
  <2>2. <<t, call[t]>> \in met[v]
    BY <1>5, <1>11 DEF Unparsed, Running
  <2>3. CASE i = n + 1
    BY <1>8, <1>9, <2>1, <2>2, <2>3
  <2>4. CASE i # n + 1
    BY <1>8, <2>4
  <2> QED BY <2>3, <2>4
<1>12. ASSUME t \notin torn'
       PROVE  TracedBy(t)'
  <2>1. Tokens(t)' = Tokens(t)
    BY <1>1 DEF Tokens
  <2>2. SplitSo(t)'
    <3>1. n + 1 \in 0..Len(Tokens(t))
      BY <1>1, <1>9, <1>10, <1>12
    <3> QED BY <1>1, <1>3, <1>4, <1>9, <1>12, <2>1, <3>1 DEF SplitSo
  <2>3. Found(t)'
    <3> SUFFICES ASSUME NEW i \in 1..MaxTokens, i <= n + 1
                 PROVE  \E m \in met[t] : mPqCommand'[i] = <<m[1], i>>
      BY <1>1, <1>4 DEF Found
    <3>1. CASE i = n + 1
      BY <1>1, <1>2, <1>5, <1>8, <1>9, <1>12, <3>1
    <3>2. CASE i # n + 1
      <4>1. i <= n
        BY <1>1, <1>9, <1>12, <3>2 DEF MaxTokens
      <4>2. \E m \in met[t] : mPqCommand[i] = <<m[1], i>>
        BY <1>1, <1>12, <4>1 DEF Inv, Traced, TracedBy, Found, Unparsed
      <4> QED BY <1>8, <3>2, <4>2
    <3> QED BY <3>1, <3>2
  <2> QED BY <1>3, <2>2, <2>3 DEF TracedBy, ModuleMet, ArgsMet, RanMet
<1>13. \A v \in Threads \ {t} : Kept(v)
  BY <1>1, <1>3, <1>4 DEF Kept
<1> HIDE DEF n
<1> QED BY <1>1, <1>2, <1>6, <1>7, <1>11, <1>12, <1>13, StepBehind DEF Steps

LEMMA StepNextToken ==
  ASSUME Inv, NEW t \in Threads, NextToken(t)
  PROVE  Inv'
PROOF
<1> DEFINE n == cmd_size[t]
           L == Len(Tokens(t))
<1>1. /\ pc[t] = "strtok"
      /\ Strtok(t, "service", position["service"], "assign", "parse")
      /\ UNCHANGED <<client, call, met, cmd_size, mPqCommand, moduleId, args, ran, torn>>
  BY DEF NextToken
<1>2. Shape /\ Running(t) /\ call[t] \in TextCalls
  BY <1>1 DEF Inv, Shape, Running
<1>3. /\ DOMAIN token' = Threads /\ DOMAIN position' = Clients \cup {"service"}
      /\ \A u \in Threads \ {t} : token'[u] = token[u]
      /\ Go(t, "assign") \/ Go(t, "parse")
  <2>1. "assign" \in Steps /\ "parse" \in Steps /\ "service" \in Clients \cup {"service"}
    BY DEF Steps
  <2> QED BY <1>1, <1>2, <2>1, StrtokElsewhere
<1>4. PICK s \in {"assign", "parse"} : Go(t, s)
  BY <1>3
<1>5. pc'[t] = s /\ \A u \in Threads \ {t} : pc'[u] = pc[u]
  BY <1>2, <1>4, OnlyMoves
<1>6. /\ pc' \in [Threads -> Steps] /\ \A u \in Threads : Running(u)' => call[u] \in TextCalls
  BY <1>1, <1>2, <1>4, StillAcquainted DEF Steps
<1>7. Shape'
  BY <1>1, <1>2, <1>3, <1>6 DEF Shape
<1>8. Apart'
  BY <1>1, <1>4, StillApart DEF Steps, Unparsed
<1>9. \A v \in Threads \ {t} : Kept(v)
  BY <1>1, <1>3, <1>5 DEF Kept
<1>10. ASSUME t \notin torn'
       PROVE  TracedBy(t)'
  <2>1. Tokens(t)' = Tokens(t)
    BY <1>1 DEF Tokens
  <2>2. n \in 0..L /\ position["service"] = Left(Tokens(t), n)
    BY <1>1, <1>10 DEF Inv, Traced, TracedBy, SplitSo, Unparsed
  <2>3. /\ Tokens(t) \in Seq(Threads \X Nat) /\ L \in Nat
        /\ \A i \in 1..L : Tokens(t)[i] = <<t, i>>
    BY <1>2, TokensOf
  <2>4. /\ n < L => /\ Go(t, "assign") /\ token'[t] = Tokens(t)[n + 1]
                    /\ position'["service"] = Left(Tokens(t), n + 1)
        /\ n = L => Go(t, "parse")
        /\ n < L \/ n = L
    <3>1. Strtok(t, "service", Left(Tokens(t), n), "assign", "parse")
      BY <1>1, <2>2
    <3>2. "service" \in Clients \cup {"service"}
      OBVIOUS
    <3> HIDE DEF n, L
    <3> QED BY <1>2, <2>2, <2>3, <3>1, <3>2, StrtokAt DEF L
  <2>5. ASSUME n < L PROVE SplitSo(t)'
    <3>1. pc'[t] = "assign"
      BY <1>2, <2>4, <2>5, OnlyMoves
    <3>2. n + 1 \in 1..L
      BY <2>2, <2>3, <2>5
    <3>3. token'[t] = <<t, n + 1>>
      BY <2>3, <2>4, <2>5, <3>2
    <3>4. cmd_size'[t] = n /\ Len(Tokens(t)') = L /\ Left(Tokens(t)', n + 1) = Left(Tokens(t), n + 1)
      BY <1>1, <2>1
    <3> HIDE DEF n, L
    <3> QED BY <2>2, <2>4, <2>5, <3>1, <3>3, <3>4 DEF SplitSo
  <2>6. ASSUME n = L PROVE SplitSo(t)'
    <3>1. pc'[t] = "parse"
      BY <1>2, <2>4, <2>6, OnlyMoves
    <3>2. cmd_size'[t] = n /\ Len(Tokens(t)') = L
      BY <1>1, <2>1
    <3> HIDE DEF n, L
    <3> QED BY <2>2, <2>6, <3>1, <3>2 DEF SplitSo
  <2>7. SplitSo(t)'
    BY <2>4, <2>5, <2>6
  <2>8. Found(t)'
    BY <1>1, <1>10 DEF Inv, Traced, TracedBy, Found, Unparsed
  <2> QED BY <1>5, <2>7, <2>8 DEF TracedBy, ModuleMet, ArgsMet, RanMet
<1> QED BY <1>1, <1>2, <1>4, <1>7, <1>8, <1>9, <1>10, StepBehind DEF Steps

\* ParserPqCommand: t takes what it wrote or a command it met did.
LEMMA StepParseId ==
  ASSUME Inv, NEW t \in Threads, ParseId(t)
  PROVE  Inv'
PROOF
<1>1. /\ pc[t] = "parse" /\ Go(t, "args")
      /\ UNCHANGED <<client, call, met, position, token, cmd_size, mPqCommand, args, ran, torn>>
  BY DEF ParseId, split
<1>2. PICK i \in IdsOf(mPqCommand[3]) : moduleId' = [moduleId EXCEPT ![t] = i]
  BY DEF ParseId
<1>3. Shape /\ Running(t) /\ call[t] \in TextCalls
  BY <1>1 DEF Inv, Shape, Running
<1>4. pc'[t] = "args" /\ \A u \in Threads \ {t} : pc'[u] = pc[u]
  BY <1>1, <1>3, OnlyMoves
<1>5. /\ pc' \in [Threads -> Steps] /\ \A u \in Threads : Running(u)' => call[u] \in TextCalls
  BY <1>1, <1>3, StillAcquainted DEF Steps
<1>6. /\ DOMAIN moduleId' = Threads /\ moduleId'[t] = i
      /\ \A u \in Threads \ {t} : moduleId'[u] = moduleId[u]
  BY <1>2, <1>3 DEF Shape
<1>7. Shape'
  BY <1>1, <1>3, <1>5, <1>6 DEF Shape
<1>8. Apart'
  BY <1>1, StillApart DEF Steps, Unparsed
<1>9. \A v \in Threads \ {t} : Kept(v)
  BY <1>1, <1>4, <1>6 DEF Kept
<1>10. ASSUME t \notin torn'
       PROVE  TracedBy(t)'
  <2>1. TracedBy(t)
    BY <1>1, <1>10 DEF Inv, Traced
  <2>2. cmd_size[t] = 3 + call[t].params /\ call[t].params \in Nat
    BY <1>1, <1>3, <2>1, TokensOf DEF TracedBy, SplitSo
  <2>3. \E m \in met[t] : mPqCommand[3] = <<m[1], 3>>
    BY <1>1, <2>1, <2>2 DEF TracedBy, Found, Unparsed, MaxTokens
  <2>4. PICK m \in met[t] : mPqCommand[3] = <<m[1], 3>>
    BY <2>3
  <2>5. m[2] = call[m[1]]
    BY DEF Inv, Acquainted
  <2>6. moduleId'[t] = m[2].id
    BY <1>6, <2>4, <2>5 DEF IdsOf
  <2>7. ModuleMet(t)'
    BY <1>1, <2>6 DEF ModuleMet
  <2>8. Tokens(t)' = Tokens(t)
    BY <1>1 DEF Tokens
  <2>9. SplitSo(t)'
    BY <1>1, <1>4, <2>1, <2>8 DEF TracedBy, SplitSo, Unparsed
  <2>10. Found(t)'
    BY <1>1, <1>4, <2>1 DEF TracedBy, Found, Unparsed
  <2> QED BY <1>4, <2>7, <2>9, <2>10 DEF TracedBy, ArgsMet, RanMet
<1> QED BY <1>1, <1>3, <1>7, <1>8, <1>9, <1>10, StepBehind DEF Steps

LEMMA StepParseParams ==
  ASSUME Inv, NEW t \in Threads, ParseParams(t)
  PROVE  Inv'
PROOF
<1>1. /\ pc[t] = "args" /\ Go(t, "run")
      /\ args' = [args EXCEPT ![t] = [i \in 1..MaxParams |->
                     IF i + 3 <= cmd_size[t] THEN mPqCommand[i + 3] ELSE Zero]]
      /\ UNCHANGED <<client, call, met, position, token, cmd_size, mPqCommand, moduleId, ran, torn>>
  BY DEF ParseParams, split
<1>2. Shape /\ Running(t) /\ call[t] \in TextCalls
  BY <1>1 DEF Inv, Shape, Running
<1>3. pc'[t] = "run" /\ \A u \in Threads \ {t} : pc'[u] = pc[u]
  BY <1>1, <1>2, OnlyMoves
<1>4. /\ pc' \in [Threads -> Steps] /\ \A u \in Threads : Running(u)' => call[u] \in TextCalls
  BY <1>1, <1>2, StillAcquainted DEF Steps
<1>5. /\ DOMAIN args' = Threads
      /\ args'[t] = [i \in 1..MaxParams |->
                        IF i + 3 <= cmd_size[t] THEN mPqCommand[i + 3] ELSE Zero]
      /\ \A u \in Threads \ {t} : args'[u] = args[u]
  BY <1>1, <1>2 DEF Shape
<1>6. Shape'
  BY <1>1, <1>2, <1>4, <1>5 DEF Shape
<1>7. Apart'
  BY <1>1, StillApart DEF Steps, Unparsed
<1>8. \A v \in Threads \ {t} : Kept(v)
  BY <1>1, <1>3, <1>5 DEF Kept
<1>9. ASSUME t \notin torn'
      PROVE  TracedBy(t)'
  <2>1. TracedBy(t)
    BY <1>1, <1>9 DEF Inv, Traced
  <2>2. ArgsMet(t)'
    <3> SUFFICES ASSUME NEW i \in 1..MaxParams
                 PROVE  args'[t][i] = Zero \/ \E m \in met[t] : args'[t][i] = <<m[1], i + 3>>
      BY <1>1 DEF ArgsMet
    <3>1. i + 3 \in 1..MaxTokens
      BY DEF MaxParams, MaxTokens
    <3>2. i + 3 <= cmd_size[t] => \E m \in met[t] : mPqCommand[i + 3] = <<m[1], i + 3>>
      BY <1>1, <2>1, <3>1 DEF TracedBy, Found, Unparsed
    <3> QED BY <1>5, <3>2
  <2>3. Tokens(t)' = Tokens(t)
    BY <1>1 DEF Tokens
  <2>4. SplitSo(t)'
    BY <1>1, <1>3, <2>1, <2>3 DEF TracedBy, SplitSo, Unparsed
  <2>5. Found(t)'
    BY <1>1, <1>3, <2>1 DEF TracedBy, Found, Unparsed
  <2>6. ModuleMet(t)'
    BY <1>1, <1>3, <2>1 DEF TracedBy, ModuleMet
  <2> QED BY <1>3, <2>2, <2>4, <2>5, <2>6 DEF TracedBy, RanMet
<1> QED BY <1>1, <1>2, <1>6, <1>7, <1>8, <1>9, StepBehind DEF Steps

\* SetCmd and GetCmd: the case uses no parameter that was not parsed.
LEMMA StepRun ==
  ASSUME Inv, NEW t \in Threads, Run(t)
  PROVE  Inv'
PROOF
<1> DEFINE v == VerbOf(mPqCommand[2])
           from == UNION {{args[t][i][1] : i \in 1..c[2]} : c \in CasesOf(v, moduleId[t])}
<1>1. /\ pc[t] = "run" /\ Go(t, "print")
      /\ ran' = [ran EXCEPT ![t] = [verb |-> v, id |-> moduleId[t], from |-> from]]
      /\ UNCHANGED <<client, call, met, position, token, cmd_size, mPqCommand, moduleId, args, torn>>
  BY DEF Run, split
<1>2. Shape /\ Running(t) /\ call[t] \in TextCalls
  BY <1>1 DEF Inv, Shape, Running
<1>3. pc'[t] = "print" /\ \A u \in Threads \ {t} : pc'[u] = pc[u]
  BY <1>1, <1>2, OnlyMoves
<1>4. /\ pc' \in [Threads -> Steps] /\ \A u \in Threads : Running(u)' => call[u] \in TextCalls
  BY <1>1, <1>2, StillAcquainted DEF Steps
<1>5. /\ DOMAIN ran' = Threads /\ ran'[t] = [verb |-> v, id |-> moduleId[t], from |-> from]
      /\ \A u \in Threads \ {t} : ran'[u] = ran[u]
  BY <1>1, <1>2 DEF Shape
<1>6. Shape'
  BY <1>1, <1>2, <1>4, <1>5 DEF Shape
<1>7. Apart'
  BY <1>1, StillApart DEF Steps, Unparsed
<1>8. \A u \in Threads \ {t} : Kept(u)
  BY <1>1, <1>3, <1>5 DEF Kept
<1>9. ASSUME t \notin torn'
      PROVE  TracedBy(t)'
  <2>1. TracedBy(t)
    BY <1>1, <1>9 DEF Inv, Traced
  <2>2. from \subseteq {m[1] : m \in met[t]} \cup {"zero"}
    <3> SUFFICES ASSUME NEW c \in CasesOf(v, moduleId[t]), NEW i \in 1..c[2]
                 PROVE  args[t][i][1] \in {m[1] : m \in met[t]} \cup {"zero"}
      OBVIOUS
    <3>1. i \in 1..MaxParams
      BY CaseParams DEF MaxParams
    <3>2. args[t][i] = Zero \/ \E m \in met[t] : args[t][i] = <<m[1], i + 3>>
      BY <1>1, <2>1, <3>1 DEF TracedBy, ArgsMet
    <3> QED BY <3>2 DEF Zero
  <2>3. cmd_size[t] = 3 + call[t].params /\ call[t].params \in Nat
    BY <1>1, <1>2, <2>1, TokensOf DEF TracedBy, SplitSo
  <2>4. \E m \in met[t] : mPqCommand[2] = <<m[1], 2>>
    BY <1>1, <2>1, <2>3 DEF TracedBy, Found, Unparsed, MaxTokens
  <2>5. PICK m \in met[t] : mPqCommand[2] = <<m[1], 2>>
    BY <2>4
  <2>6. m[2] = call[m[1]]
    BY DEF Inv, Acquainted
  <2>7. v = m[2].sent
    BY <2>5, <2>6 DEF VerbOf
  <2>8. \E k \in met[t] : moduleId[t] = k[2].id
    BY <1>1, <2>1 DEF TracedBy, ModuleMet
  <2> HIDE DEF v, from
  <2>9. RanMet(t)'
    BY <1>1, <1>5, <2>2, <2>7, <2>8 DEF RanMet
  <2> QED BY <1>3, <2>9 DEF TracedBy, SplitSo, Found, ModuleMet, ArgsMet, Unparsed
<1> HIDE DEF v, from
<1> QED BY <1>1, <1>2, <1>6, <1>7, <1>8, <1>9, StepBehind DEF Steps

\* From here on a call only hands on what it ran.  Copy and KeepValue touch
\* the client, SplitRetBuf and CutValue the position of its process.
LEMMA StepAnswer ==
  ASSUME Inv, NEW t \in Threads,
         \/ PrintAnswer(t) \/ Reply(t) \/ Copy(t)
         \/ SplitRetBuf(t) \/ KeepValue(t) \/ CutValue(t) \/ Take(t)
  PROVE  Inv'
PROOF
<1> DEFINE Late == {"print", "reply", "copy", "split", "keep", "cut", "take"}
<1>1. /\ pc[t] \in Late
      /\ UNCHANGED <<client, call, met, mPqCommand, moduleId, args, ran>>
  BY DEF PrintAnswer, Reply, Copy, SplitRetBuf, KeepValue, CutValue, Take, split
<1>2. /\ Shape /\ Running(t) /\ call[t] \in TextCalls
      /\ client[t] \in Clients /\ client[t] # "service"
  BY <1>1, ChannelAssumption DEF Inv, Shape, Running
<1>3. /\ \E s \in {"reply", "copy", "split", "keep", "cut", "take", "done"} : Go(t, s)
      /\ DOMAIN position' = Clients \cup {"service"} /\ DOMAIN token' = Threads
      /\ DOMAIN cmd_size' = Threads
      /\ position'["service"] = position["service"]
      /\ \A u \in Threads \ {t} : token'[u] = token[u] /\ cmd_size'[u] = cmd_size[u]
  <2> USE DEF Steps
  <2>1. CASE PrintAnswer(t) \/ Reply(t) \/ Copy(t) \/ Take(t)
    BY <1>2, <2>1 DEF PrintAnswer, Reply, Copy, Take, split, Shape
  <2>2. CASE SplitRetBuf(t)
    <3>1. PICK rest : Strtok(t, client[t], rest, "keep", "take")
      BY <2>2 DEF SplitRetBuf
    <3>2. cmd_size' = [cmd_size EXCEPT ![t] = 0]
      BY <2>2 DEF SplitRetBuf
    <3> QED BY <1>2, <3>1, <3>2 DEF Strtok, Shape
  <2>3. CASE KeepValue(t)
    BY <1>2, <2>3 DEF KeepValue, Shape
  <2>4. CASE CutValue(t)
    BY <1>2, <2>4 DEF CutValue, Strtok, Shape
  <2> QED BY <2>1, <2>2, <2>3, <2>4
<1>4. PICK s \in {"reply", "copy", "split", "keep", "cut", "take", "done"} : Go(t, s)
  BY <1>3
<1>5. pc'[t] = s /\ \A u \in Threads \ {t} : pc'[u] = pc[u]
  BY <1>2, <1>4, OnlyMoves
<1>6. /\ pc' \in [Threads -> Steps] /\ \A u \in Threads : Running(u)' => call[u] \in TextCalls
  BY <1>1, <1>2, <1>4, StillAcquainted DEF Steps
<1>7. Shape'
  BY <1>1, <1>2, <1>3, <1>6 DEF Shape
<1>8. torn \subseteq torn'
      /\ \A u \in torn' : u \in torn \/ (u \in Threads /\ pc[u] \in {"split", "keep", "cut"})
  <2>1. CASE SplitRetBuf(t)
    <3>1. torn' = IF Splitting(client[t]) = {} THEN torn
                  ELSE torn \cup Splitting(client[t]) \cup {t}
      BY <2>1 DEF SplitRetBuf
    <3>2. \A u \in Splitting(client[t]) : u \in Threads /\ pc[u] \in {"keep", "cut"}
      BY <1>2 DEF Splitting
    <3>3. pc[t] = "split"
      BY <2>1 DEF SplitRetBuf
    <3> QED BY <3>1, <3>2, <3>3
  <2>2. CASE ~SplitRetBuf(t)
    BY <2>2 DEF PrintAnswer, Reply, Copy, KeepValue, CutValue, Take
  <2> QED BY <2>1, <2>2
<1>9. Apart'
  <2>1. \A u \in torn' : u \in Threads /\ pc'[u] \notin {"idle", "command"}
    BY <1>5, <1>8 DEF Inv, Apart
  <2>2. \A u \in Threads : pc'[u] \in Unparsed => pc'[u] = pc[u] /\ (u \in torn' <=> u \in torn)
    BY <1>5, <1>8 DEF Unparsed
  <2> QED BY <2>1, <2>2 DEF Inv, Apart, Unparsed
<1>10. \A v \in Threads \ {t} : Kept(v)
  BY <1>1, <1>3, <1>5 DEF Kept
<1>11. ASSUME t \notin torn'
       PROVE  TracedBy(t)'
  <2>1. RanMet(t)
    BY <1>8, <1>11 DEF Inv, Traced, TracedBy
  <2>2. RanMet(t)'
    BY <1>1, <2>1 DEF RanMet
  <2> QED BY <1>5, <2>2 DEF TracedBy, SplitSo, Found, ModuleMet, ArgsMet, Unparsed
<1> QED BY <1>1, <1>2, <1>3, <1>4, <1>7, <1>8, <1>9, <1>10, <1>11, StepBehind DEF Steps

-----------------------------------------------------------------------------
(* The theorem.                                                            *)

LEMMA InitInv == Init => Inv
PROOF
<1> SUFFICES ASSUME Init
             PROVE  Inv
  OBVIOUS
<1>1. \A t \in Threads : pc[t] = "idle" /\ met[t] = {}
  BY DEF Init
<1>2. Shape
  BY <1>1 DEF Init, Shape, Steps, Running
<1>3. Acquainted
  BY <1>1 DEF Acquainted, Running
<1>4. Apart
  BY <1>1 DEF Init, Apart, Unparsed
<1>5. Traced
  BY <1>1 DEF Traced, TracedBy, SplitSo, Found, ModuleMet, ArgsMet, RanMet, Unparsed
<1> QED BY <1>2, <1>3, <1>4, <1>5 DEF Inv

LEMMA NextInv ==
  ASSUME Inv, [Next]_vars
  PROVE  Inv'
PROOF
<1>1. ASSUME NEW t \in Threads, NEW c \in TextCalls, Begin(t, c)
      PROVE  Inv'
  BY <1>1, StepBegin
<1>2. ASSUME NEW t \in Threads, SplitCommand(t) \/ AssignToken(t) \/ NextToken(t)
      PROVE  Inv'
  BY <1>2, StepSplitCommand, StepAssignToken, StepNextToken
<1>3. ASSUME NEW t \in Threads, ParseId(t) \/ ParseParams(t) \/ Run(t)
      PROVE  Inv'
  BY <1>3, StepParseId, StepParseParams, StepRun
<1>4. ASSUME NEW t \in Threads,
             \/ PrintAnswer(t) \/ Reply(t) \/ Copy(t)
             \/ SplitRetBuf(t) \/ KeepValue(t) \/ CutValue(t) \/ Take(t)
      PROVE  Inv'
  BY <1>4, StepAnswer
<1>5. ASSUME NEW t \in Threads, NEW c, Transact(t, c)
      PROVE  Inv'
  BY <1>5, StepTransact
<1>6. CASE UNCHANGED vars
  <2>1. UNCHANGED <<client, pc, call, met, position, token, cmd_size, mPqCommand, moduleId,
                    args, ran, torn>>
    BY <1>6 DEF vars, split
  <2>2. Shape' /\ Acquainted' /\ Apart'
    BY <2>1 DEF Inv, Shape, Acquainted, Apart, Running
  <2>3. ASSUME NEW v \in Threads, v \notin torn'
        PROVE  TracedBy(v)'
    <3>1. TracedBy(v) /\ Kept(v) /\ met[v] \subseteq met'[v]
      BY <2>1, <2>3 DEF Inv, Traced, Kept
    <3> QED BY <2>1, <3>1, OthersTraced
  <2> QED BY <2>2, <2>3 DEF Inv, Traced
<1> QED BY <1>1, <1>2, <1>3, <1>4, <1>5, <1>6 DEF Next, TextStep

LEMMA Inductive == Spec => []Inv
PROOF
  BY InitInv, NextInv, PTL DEF Spec

\* SplitCommand and ParserPqCommand: whatever the threads and the calls they
\* make, no command that saw no two SplitCommands overlap is answered from the
\* words, the id or the parameters of one that was over before it began.
THEOREM AnswersFromTheLiving == Spec => []NothingInvented
PROOF
<1>1. Inv => NothingInvented
  BY DEF Inv, Traced, TracedBy, RanMet, NothingInvented
<1> QED BY <1>1, Inductive, PTL

LEMMA WideCases ==
  /\ \A k \in GetCases : \A w \in Wide : k[1] = w[1] => k[3] = w[2]
  /\ \A w \in Wide : w[1] \in PrintedByCase
PROOF
<1>1. \A k \in GetCases : \A w \in Wide : k[1] = w[1] => k[3] = w[2]
  BY SMTT(60) DEF GetCases, GetPictureCases, GetFactoryCases, GetParamsCases, Wide
<1>2. \A w \in Wide : w[1] \in PrintedByCase
  BY DEF Wide, PrintedByCase
<1> QED BY <1>1, <1>2

\* What a call that meets no other gets to run: the case of its own id, with
\* its own parameters and 0 behind them.
Own(t, c) == [i \in 1..MaxParams |-> IF i <= c.params THEN <<t, i + 3>> ELSE Zero]
RunAlone(t, c) ==
    [verb |-> c.sent, id |-> c.id,
     from |-> UNION {{Own(t, c)[i][1] : i \in 1..k[2]} : k \in CasesOf(c.sent, c.id)}]

\* The answer to it is the one the function is for, and has all its values.
LEMMA AnsweredAlone ==
  ASSUME NEW t, NEW c \in TextCalls, c \notin Misaddressed, c \notin Short
  PROVE  /\ Answer(RunAlone(t, c)).case = <<c.verb, c.name>>
         /\ Answer(RunAlone(t, c)).from = IF Needed(c) = {0} THEN {} ELSE {t}
         /\ c.values > 1 => Answer(RunAlone(t, c)).values = c.values
PROOF
<1> DEFINE C == CasesOf(c.sent, c.id)
           r == RunAlone(t, c)
<1>1. c.id = <<c.verb, c.name>> /\ c.sent = c.verb
  BY DEF Misaddressed
<1>2. C = CasesOf(c.verb, <<c.verb, c.name>>) /\ Needed(c) = {k[2] : k \in C}
  BY <1>1 DEF Needed
<1>3. Served(c)
  BY FunctionsServed
<1>4. C = IF c.verb = "set" THEN {k \in SetCases : k[1] = c.name}
                            ELSE {k \in GetCases : k[1] = c.name}
  BY <1>2 DEF CasesOf, SetCmd, GetCmd
<1>5. C # {}
  <2>1. CASE c.verb = "set"
    <3>1. \E n : <<c.name, n>> \in SetCases
      BY <1>1, <1>3, <2>1 DEF Served
    <3> QED BY <1>4, <2>1, <3>1
  <2>2. CASE c.verb = "get"
    <3>1. \E n, v : <<c.name, n, v>> \in GetCases
      BY <1>1, <1>3, <2>2 DEF Served
    <3> QED BY <1>4, <2>2, <3>1
  <2> QED BY <1>3, <2>1, <2>2 DEF Served
<1>6. \A k \in C : k[2] \in 0..MaxParams /\ k[2] <= c.params
  <2>1. \A k \in C : k[2] \in 0..MaxParams
    BY CaseParams
  <2>2. \A k \in C : ~(k[2] > c.params)
    BY <1>2 DEF Short
  <2>3. c.params \in Nat
    BY <1>3 DEF Served
  <2> QED BY <2>1, <2>2, <2>3 DEF MaxParams
<1>7. r.verb = c.verb /\ r.id = <<c.verb, c.name>>
      /\ r.from = UNION {{Own(t, c)[i][1] : i \in 1..k[2]} : k \in C}
  BY <1>1 DEF RunAlone
<1>8. CasesOf(r.verb, r.id) = C
  BY <1>2, <1>7
<1> HIDE DEF C, r
<1>9. \A k \in C : \A i \in 1..k[2] : Own(t, c)[i][1] = t
  <2> SUFFICES ASSUME NEW k \in C, NEW i \in 1..k[2]
               PROVE  Own(t, c)[i][1] = t
    OBVIOUS
  <2>1. k[2] \in 0..MaxParams /\ k[2] <= c.params /\ c.params \in Nat
    BY <1>3, <1>6 DEF Served
  <2>2. i \in 1..MaxParams /\ i <= c.params
    BY <2>1 DEF MaxParams
  <2> QED BY <2>2 DEF Own
<1>10. r.from = IF Needed(c) = {0} THEN {} ELSE {t}
  <2>1. CASE Needed(c) = {0}
    <3>1. \A k \in C : k[2] = 0
      BY <1>2, <2>1 DEF C
    <3>2. \A k \in C : 1..k[2] = {}
      BY <3>1
    <3> QED BY <1>7, <2>1, <3>2
  <2>2. CASE Needed(c) # {0}
    <3>1. PICK k \in C : k[2] # 0
      BY <1>2, <1>5, <2>2 DEF C
    <3>2. 1 \in 1..k[2]
      BY <1>6, <3>1 DEF MaxParams
    <3>3. t \in r.from
      BY <1>7, <1>9, <3>2
    <3>4. r.from \subseteq {t}
      BY <1>7, <1>9
    <3> QED BY <2>2, <3>3, <3>4
  <2> QED BY <2>1, <2>2
<1>11. Answer(r) =
         [case |-> r.id, from |-> r.from,
          values |-> IF r.verb = "get" /\ r.id[2] \in PrintedByCase
                     THEN (CHOOSE k \in C : TRUE)[3] ELSE 1]
  BY <1>5, <1>8 DEF Answer
<1>12. Answer(r).case = r.id /\ Answer(r).from = r.from
  BY <1>11
<1>13. ASSUME c.values > 1 PROVE Answer(r).values = c.values
  <2>1. c.verb = "get" /\ <<c.name, c.values>> \in Wide
    BY <1>1, <1>3, <1>13 DEF Served
  <2>2. c.name \in PrintedByCase /\ \A k \in GetCases : k[1] = c.name => k[3] = c.values
    BY <2>1, WideCases
  <2>3. (CHOOSE k \in C : TRUE) \in C
    BY <1>5
  <2>4. (CHOOSE k \in C : TRUE)[3] = c.values
    BY <1>4, <2>1, <2>2, <2>3
  <2> QED BY <1>7, <1>11, <2>1, <2>2, <2>4
<1> QED BY <1>7, <1>10, <1>12, <1>13 DEF r

\* No answer has more values than the client has room for.
LEMMA AnswerValues ==
  ASSUME NEW r
  PROVE  Answer(r).values \in 1..MaxValues
PROOF
<1> DEFINE C == CasesOf(r.verb, r.id)
<1>1. CASE C = {}
  BY <1>1 DEF Answer, Nothing, MaxValues
<1>2. CASE C # {}
  <2>1. Answer(r).values = IF r.verb = "get" /\ r.id[2] \in PrintedByCase
                           THEN (CHOOSE k \in C : TRUE)[3] ELSE 1
    BY <1>2 DEF Answer
  <2>2. (CHOOSE k \in C : TRUE) \in C
    BY <1>2
  <2>3. r.verb = "get" => C \subseteq GetCases
    BY DEF CasesOf, GetCmd
  <2> HIDE DEF C
  <2>4. r.verb = "get" => (CHOOSE k \in C : TRUE)[3] \in 1..MaxValues
    BY <2>2, <2>3, GetParams
  <2> QED BY <2>1, <2>4 DEF MaxValues
<1> QED BY <1>1, <1>2

-----------------------------------------------------------------------------
(* Calls that meet no other.                                               *)

Solo(t) == met[t] = {<<t, call[t]>>}

\* The values the client splits an answer into.
Values(b) == [i \in 1..b.values |-> Value(b, i)]

\* What such a call finds wherever it looks is its own.
Undisturbed(t) ==
    LET c == call[t]
        a == Answer(RunAlone(t, c))
        k == client[t] IN
    /\ t \notin torn
    /\ pc[t] = "run" => args[t] = Own(t, c)
    /\ pc[t] = "print" => ran[t] = RunAlone(t, c)
    /\ pc[t] = "reply" => mRetBuf = a
    /\ pc[t] = "copy" => answer[t] = a
    /\ pc[t] \in {"split", "keep", "cut", "take"} => buf[k] = a
    /\ pc[t] \in {"keep", "cut"} =>
           /\ cmd_size[t] \in 0..a.values
           /\ \A i \in 1..MaxValues : i <= cmd_size[t] => mRet[k][i] = Value(a, i)
    /\ pc[t] = "keep" => /\ cmd_size[t] < a.values /\ token[t] = Value(a, cmd_size[t] + 1)
                         /\ position[k] = Left(Values(a), cmd_size[t] + 1)
    /\ pc[t] = "cut" => position[k] = Left(Values(a), cmd_size[t])
    /\ pc[t] = "take" /\ c.values > 1 =>
           \A i \in 1..MaxValues : i <= a.values => mRet[k][i] = Value(a, i)

Answered(t) ==
    pc[t] = "done" /\ Solo(t) /\ call[t] \notin Misaddressed \cup Short \cup Misread =>
        result[t] = OwnAnswer(t)

AloneRight(t) ==
    /\ Running(t) /\ Solo(t) => Undisturbed(t)
    /\ Answered(t)

Form ==
    /\ DOMAIN buf = Clients /\ DOMAIN mRet = Clients
    /\ \A k \in Clients : DOMAIN mRet[k] = 1..MaxValues
    /\ DOMAIN answer = Threads /\ DOMAIN result = Threads

SoloInv == Inv /\ Form /\ \A t \in Threads : AloneRight(t)

LEMMA ValuesOf ==
  ASSUME NEW b, b.values \in Nat
  PROVE  /\ Values(b) \in Seq({Value(b, i) : i \in Nat}) /\ Len(Values(b)) = b.values
         /\ \A i \in 1..b.values : Values(b)[i] = Value(b, i)
PROOF
<1> DEFINE E == {Value(b, i) : i \in Nat}
<1>1. \A i \in 1..b.values : Value(b, i) \in E
  OBVIOUS
<1> HIDE DEF E
<1>2. Values(b) \in Seq(E) /\ Len(Values(b)) = b.values
  BY <1>1 DEF Values
<1> QED BY <1>2 DEF Values, E

LEMMA StillAnswered ==
  ASSUME NEW v \in Threads, Answered(v), pc'[v] = pc[v], call'[v] = call[v],
         met'[v] = met[v], result'[v] = result[v]
  PROVE  Answered(v)'
PROOF
<1>1. OwnAnswer(v)' = OwnAnswer(v)
  BY DEF OwnAnswer
<1>2. Solo(v)' <=> Solo(v)
  BY DEF Solo
<1> QED BY <1>1, <1>2 DEF Answered

\* While t is under way no other call is undisturbed, so a step of t matters
\* to t alone.
LEMMA OnlyOwn ==
    ASSUME SoloInv, NEW t \in Threads, Running(t), NEW s, Go(t, s), Inv', Form',
           UNCHANGED <<call, met>>,
           \A v \in Threads \ {t} : result'[v] = result[v],
           Running(t)' /\ Solo(t)' => Undisturbed(t)',
           Answered(t)'
    PROVE  SoloInv'
PROOF
<1>1. \A v \in Threads \ {t} : pc'[v] = pc[v]
  BY OnlyMoves DEF SoloInv, Inv
<1>2. ASSUME NEW v \in Threads
      PROVE  AloneRight(v)'
  <2>1. CASE v = t
    BY <2>1 DEF AloneRight
  <2>2. CASE v # t
    <3>1. pc'[v] = pc[v] /\ call'[v] = call[v] /\ met'[v] = met[v] /\ result'[v] = result[v]
      BY <1>1, <2>2
    <3>2. ~(Running(v)' /\ Solo(v)')
      <4>1. Running(v) => <<t, call[t]>> \in met[v]
        BY DEF SoloInv, Inv, Acquainted
      <4> QED BY <2>2, <3>1, <4>1 DEF Running, Solo
    <3>3. Answered(v)'
      BY <3>1, StillAnswered DEF SoloInv, AloneRight
    <3> QED BY <3>2, <3>3 DEF AloneRight
  <2> QED BY <2>1, <2>2
<1> QED BY <1>2 DEF SoloInv

\* Nobody else is at work beside a call that meets no other.
LEMMA NobodyElse ==
  ASSUME SoloInv, NEW t \in Threads, Running(t), Solo(t), NEW p
  PROVE  Splitting(p) \subseteq {t} /\ t \notin torn /\ TracedBy(t) /\ call[t] \in TextCalls
PROOF
<1>1. ASSUME NEW u \in Splitting(p)
      PROVE  u = t
  <2>1. u \in Threads /\ Running(u)
    BY <1>1 DEF Splitting, Running
  <2>2. <<u, call[u]>> \in met[t]
    BY <2>1 DEF SoloInv, Inv, Acquainted
  <2> QED BY <2>2 DEF Solo
<1>2. t \notin torn
  BY DEF SoloInv, AloneRight, Undisturbed
<1> QED BY <1>1, <1>2 DEF SoloInv, Inv, Shape, Traced

\* The tokens such a call parses are its own.
LEMMA OwnFound ==
  ASSUME SoloInv, NEW t \in Threads, pc[t] \in {"parse", "args", "run"}, Solo(t)
  PROVE  /\ call[t].params \in Nat /\ cmd_size[t] = 3 + call[t].params
         /\ \A i \in 1..MaxTokens : i <= cmd_size[t] => mPqCommand[i] = <<t, i>>
         /\ pc[t] \in {"args", "run"} => moduleId[t] = call[t].id
PROOF
<1>1. TracedBy(t) /\ call[t] \in TextCalls
  BY NobodyElse DEF Running
<1>2. call[t].params \in Nat /\ cmd_size[t] = 3 + call[t].params
  BY <1>1, TokensOf DEF TracedBy, SplitSo
<1>3. \A m \in met[t] : m[1] = t /\ m[2] = call[t]
  BY DEF Solo
<1>4. \A i \in 1..MaxTokens : i <= cmd_size[t] => mPqCommand[i] = <<t, i>>
  BY <1>1, <1>3 DEF TracedBy, Found, Unparsed
<1>5. pc[t] \in {"args", "run"} => moduleId[t] = call[t].id
  BY <1>1, <1>3 DEF TracedBy, ModuleMet
<1> QED BY <1>2, <1>4, <1>5

LEMMA SoloBegin ==
  ASSUME SoloInv, NEW t \in Threads, NEW c \in TextCalls, Begin(t, c), Inv'
  PROVE  SoloInv'
PROOF
<1>1. /\ pc' = [pc EXCEPT ![t] = "command"] /\ call' = [call EXCEPT ![t] = c]
      /\ UNCHANGED <<client, answer, mRet, result, torn>>
      /\ DOMAIN buf' = DOMAIN buf
      /\ pc[t] = "idle"
  BY DEF Begin, Go
<1>2. Form'
  BY <1>1 DEF SoloInv, Form
<1>3. /\ pc'[t] = "command" /\ call'[t] = c
      /\ \A v \in Threads \ {t} : pc'[v] = pc[v] /\ call'[v] = call[v]
  BY <1>1 DEF SoloInv, Inv, Shape
<1>4. ASSUME NEW v \in Threads
      PROVE  AloneRight(v)'
  <2>1. CASE v = t
    <3>1. t \notin torn'
      BY <1>1 DEF SoloInv, Inv, Apart
    <3> QED BY <1>3, <2>1, <3>1 DEF AloneRight, Undisturbed, Answered
  <2>2. CASE v # t /\ Running(v)
    <3>1. <<t, c>> \in met'[v] /\ Running(v)' /\ pc'[v] # "done"
      BY <1>3, <2>2 DEF Begin, Running
    <3>2. ~Solo(v)'
      BY <2>2, <3>1 DEF Solo
    <3> QED BY <1>3, <2>2, <3>1, <3>2 DEF SoloInv, AloneRight, Answered
  <2>3. CASE v # t /\ ~Running(v)
    <3>1. pc'[v] = pc[v] /\ call'[v] = call[v] /\ met'[v] = met[v] /\ result'[v] = result[v]
      BY <1>1, <1>3, <2>3 DEF Begin, Running
    <3>2. ~Running(v)'
      BY <2>3, <3>1 DEF Running
    <3> QED BY <3>1, <3>2, StillAnswered DEF SoloInv, AloneRight
  <2> QED BY <2>1, <2>2, <2>3
<1> QED BY <1>2, <1>4 DEF SoloInv

LEMMA SoloTransact ==
  ASSUME SoloInv, NEW t \in Threads, NEW c \in ParcelCalls, Transact(t, c), Inv'
  PROVE  SoloInv'
PROOF
<1>1. /\ pc' = [pc EXCEPT ![t] = "done"] /\ call' = [call EXCEPT ![t] = c]
      /\ met' = [met EXCEPT ![t] = {<<t, c>>}]
      /\ result' = [result EXCEPT ![t] =
                       IF Aligned(c.reads, Writes(c.code)) THEN {c.code} ELSE {"misread"}]
      /\ UNCHANGED <<client, position, token, cmd_size, mRetBuf, args, ran, answer, buf, mRet, torn>>
      /\ pc[t] = "idle"
  BY DEF Transact, Go, split
<1>2. Form'
  BY <1>1 DEF SoloInv, Form
<1>3. /\ pc'[t] = "done" /\ call'[t] = c
      /\ result'[t] = IF Aligned(c.reads, Writes(c.code)) THEN {c.code} ELSE {"misread"}
      /\ \A v \in Threads \ {t} :
             pc'[v] = pc[v] /\ call'[v] = call[v] /\ met'[v] = met[v] /\ result'[v] = result[v]
  BY <1>1 DEF SoloInv, Inv, Shape, Form
<1>4. ASSUME NEW v \in Threads
      PROVE  AloneRight(v)'
  <2>1. CASE v = t
    <3>1. c \notin Misread => result'[t] = {c.code}
      BY <1>3 DEF Misread
    <3>2. Answered(t)'
      BY <1>3, <3>1 DEF Answered, OwnAnswer
    <3> QED BY <1>3, <2>1, <3>2 DEF AloneRight, Running
  <2>2. CASE v # t
    <3>1. Undisturbed(v) => Undisturbed(v)'
      BY <1>1, <1>3, <2>2 DEF Undisturbed
    <3>2. Answered(v)'
      BY <1>3, <2>2, StillAnswered DEF SoloInv, AloneRight
    <3> QED BY <1>3, <2>2, <3>1, <3>2 DEF SoloInv, AloneRight, Running, Solo
  <2> QED BY <2>1, <2>2
<1> QED BY <1>2, <1>4 DEF SoloInv

LEMMA SoloSplit ==
  ASSUME SoloInv, NEW t \in Threads, SplitCommand(t) \/ AssignToken(t) \/ NextToken(t), Inv'
  PROVE  SoloInv'
PROOF
<1>1. /\ pc[t] \in {"command", "assign", "strtok"}
      /\ UNCHANGED <<client, call, met, args, answer, buf, mRet, result>>
  BY DEF SplitCommand, AssignToken, NextToken
<1>2. Running(t)
  BY <1>1 DEF Running
<1>3. Form'
  BY <1>1 DEF SoloInv, Form
<1>4. PICK s \in {"assign", "strtok", "parse"} : Go(t, s)
  BY DEF SplitCommand, AssignToken, NextToken, Strtok
<1>5. pc'[t] = s
  BY <1>4, OnlyMoves DEF SoloInv, Inv
<1>6. Solo(t)' => t \notin torn'
  <2> SUFFICES ASSUME Solo(t)
               PROVE  t \notin torn'
    BY <1>1 DEF Solo
  <2>1. t \notin torn /\ Splitting("service") \subseteq {t}
    BY <1>2, NobodyElse
  <2>2. pc[t] = "command" => t \notin Splitting("service")
    BY DEF Splitting
  <2> QED BY <1>1, <2>1, <2>2 DEF SplitCommand, AssignToken, NextToken
<1>7. Solo(t)' => Undisturbed(t)'
  BY <1>5, <1>6 DEF Undisturbed
<1>8. Answered(t)'
  BY <1>5 DEF Answered
<1> QED BY <1>1, <1>2, <1>3, <1>4, <1>7, <1>8, OnlyOwn

LEMMA SoloParse ==
  ASSUME SoloInv, NEW t \in Threads, ParseId(t) \/ ParseParams(t) \/ Run(t), Inv'
  PROVE  SoloInv'
PROOF
<1>1. /\ pc[t] \in {"parse", "args", "run"}
      /\ UNCHANGED <<client, call, met, mRetBuf, answer, buf, mRet, result, torn>>
  BY DEF ParseId, ParseParams, Run
<1>2. Running(t)
  BY <1>1 DEF Running
<1>3. Form'
  BY <1>1 DEF SoloInv, Form
<1>4. Solo(t) => t \notin torn
  BY <1>2, NobodyElse
<1>5. Solo(t)' <=> Solo(t)
  BY <1>1 DEF Solo
<1>6. CASE ParseId(t)
  <2>1. Go(t, "args")
    BY <1>6 DEF ParseId
  <2>2. pc'[t] = "args"
    BY <2>1, OnlyMoves DEF SoloInv, Inv
  <2>3. Solo(t)' => Undisturbed(t)'
    BY <1>1, <1>4, <1>5, <2>2 DEF Undisturbed
  <2>4. Answered(t)'
    BY <2>2 DEF Answered
  <2> QED BY <1>1, <1>2, <1>3, <2>1, <2>3, <2>4, OnlyOwn
<1>7. CASE ParseParams(t)
  <2> DEFINE A == [i \in 1..MaxParams |->
                      IF i + 3 <= cmd_size[t] THEN mPqCommand[i + 3] ELSE Zero]
  <2>1. pc[t] = "args" /\ Go(t, "run") /\ args' = [args EXCEPT ![t] = A]
    BY <1>7 DEF ParseParams
  <2>2. pc'[t] = "run" /\ args'[t] = A
    BY <2>1, OnlyMoves DEF SoloInv, Inv, Shape
  <2>3. ASSUME Solo(t) PROVE A = Own(t, call[t])
    <3>1. /\ call[t].params \in Nat /\ cmd_size[t] = 3 + call[t].params
          /\ \A i \in 1..MaxTokens : i <= cmd_size[t] => mPqCommand[i] = <<t, i>>
      BY <1>1, <2>3, OwnFound
    <3>2. \A i \in 1..MaxParams : i + 3 \in 1..MaxTokens
      BY DEF MaxParams, MaxTokens
    <3>3. \A i \in 1..MaxParams : i + 3 <= cmd_size[t] <=> i <= call[t].params
      BY <3>1 DEF MaxParams
    <3> QED BY <3>1, <3>2, <3>3 DEF Own
  <2>4. Solo(t)' => Undisturbed(t)'
    BY <1>1, <1>4, <1>5, <2>2, <2>3 DEF Undisturbed
  <2>5. Answered(t)'
    BY <2>2 DEF Answered
  <2> QED BY <1>1, <1>2, <1>3, <2>1, <2>4, <2>5, OnlyOwn
<1>8. CASE Run(t)
  <2> DEFINE v == VerbOf(mPqCommand[2])
             r == [verb |-> v, id |-> moduleId[t],
                   from |-> UNION {{args[t][i][1] : i \in 1..c[2]} :
                                      c \in CasesOf(v, moduleId[t])}]
  <2>1. pc[t] = "run" /\ Go(t, "print") /\ ran' = [ran EXCEPT ![t] = r]
    BY <1>8 DEF Run
  <2>2. pc'[t] = "print" /\ ran'[t] = r
    BY <2>1, OnlyMoves DEF SoloInv, Inv, Shape
  <2>3. ASSUME Solo(t) PROVE r = RunAlone(t, call[t])
    <3>1. /\ call[t].params \in Nat /\ cmd_size[t] = 3 + call[t].params
          /\ \A i \in 1..MaxTokens : i <= cmd_size[t] => mPqCommand[i] = <<t, i>>
          /\ moduleId[t] = call[t].id
      BY <2>1, <2>3, OwnFound
    <3>2. mPqCommand[2] = <<t, 2>>
      BY <3>1 DEF MaxTokens
    <3>3. v = call[t].sent
      BY <3>2 DEF VerbOf
    <3>4. args[t] = Own(t, call[t])
      BY <1>2, <2>1, <2>3 DEF SoloInv, AloneRight, Undisturbed
    <3> HIDE DEF v
    <3> QED BY <3>1, <3>3, <3>4 DEF RunAlone
  <2> HIDE DEF r
  <2>4. Solo(t)' => Undisturbed(t)'
    BY <1>1, <1>4, <1>5, <2>2, <2>3 DEF Undisturbed
  <2>5. Answered(t)'
    BY <2>2 DEF Answered
  <2> QED BY <1>1, <1>2, <1>3, <2>1, <2>4, <2>5, OnlyOwn
<1> QED BY <1>6, <1>7, <1>8

LEMMA SoloReply ==
  ASSUME SoloInv, NEW t \in Threads, PrintAnswer(t) \/ Reply(t) \/ Copy(t), Inv'
  PROVE  SoloInv'
PROOF
<1>1. /\ pc[t] \in {"print", "reply", "copy"}
      /\ UNCHANGED <<client, call, met, mRet, result, torn>>
  BY DEF PrintAnswer, Reply, Copy
<1>2. Running(t)
  BY <1>1 DEF Running
<1>3. Solo(t) => Undisturbed(t)
  BY <1>2 DEF SoloInv, AloneRight
<1>4. Solo(t)' <=> Solo(t)
  BY <1>1 DEF Solo
<1>5. CASE PrintAnswer(t)
  <2>1. /\ pc[t] = "print" /\ Go(t, "reply") /\ mRetBuf' = Answer(ran[t])
        /\ answer' = answer /\ buf' = buf
    BY <1>5 DEF PrintAnswer
  <2>2. pc'[t] = "reply" /\ Form'
    BY <1>1, <2>1, OnlyMoves DEF SoloInv, Inv, Form
  <2>3. Solo(t)' => Undisturbed(t)'
    BY <1>1, <1>3, <1>4, <2>1, <2>2 DEF Undisturbed
  <2>4. Answered(t)'
    BY <2>2 DEF Answered
  <2> QED BY <1>1, <1>2, <2>1, <2>2, <2>3, <2>4, OnlyOwn
<1>6. CASE Reply(t)
  <2>1. /\ pc[t] = "reply" /\ Go(t, "copy") /\ answer' = [answer EXCEPT ![t] = mRetBuf]
        /\ buf' = buf
    BY <1>6 DEF Reply
  <2>2. pc'[t] = "copy" /\ answer'[t] = mRetBuf /\ Form'
    BY <1>1, <2>1, OnlyMoves DEF SoloInv, Inv, Form
  <2>3. Solo(t)' => Undisturbed(t)'
    BY <1>1, <1>3, <1>4, <2>1, <2>2 DEF Undisturbed
  <2>4. Answered(t)'
    BY <2>2 DEF Answered
  <2> QED BY <1>1, <1>2, <2>1, <2>2, <2>3, <2>4, OnlyOwn
<1>7. CASE Copy(t)
  <2> DEFINE s == IF call[t].values > 1 THEN "split" ELSE "take"
  <2>1. /\ pc[t] = "copy" /\ Go(t, s) /\ buf' = [buf EXCEPT ![client[t]] = answer[t]]
        /\ answer' = answer
    BY <1>7 DEF Copy
  <2>2. client[t] \in Clients
    BY DEF SoloInv, Inv, Shape
  <2>3. pc'[t] = s /\ buf'[client[t]] = answer[t] /\ Form'
    BY <1>1, <2>1, <2>2, OnlyMoves DEF SoloInv, Inv, Form
  <2>4. Solo(t)' => Undisturbed(t)'
    BY <1>1, <1>3, <1>4, <2>1, <2>3 DEF Undisturbed
  <2>5. Answered(t)'
    BY <2>3 DEF Answered
  <2> QED BY <1>1, <1>2, <2>1, <2>3, <2>4, <2>5, OnlyOwn
<1> QED BY <1>5, <1>6, <1>7

\* The client splits its own answer: all of it, into the elements it reads.
LEMMA OwnValues ==
  ASSUME SoloInv, NEW t \in Threads, Running(t), Solo(t),
         pc[t] \in {"split", "keep", "cut", "take"}
  PROVE  LET a == Answer(RunAlone(t, call[t])) IN
         /\ a.values \in 1..MaxValues /\ buf[client[t]] = a
         /\ \E E : Values(a) \in Seq(E)
         /\ Len(Values(a)) = a.values /\ \A i \in 1..a.values : Values(a)[i] = Value(a, i)
         /\ client[t] \in Clients
PROOF
<1> DEFINE a == Answer(RunAlone(t, call[t]))
<1>1. a.values \in 1..MaxValues
  BY AnswerValues
<1>2. buf[client[t]] = a
  BY DEF SoloInv, AloneRight, Undisturbed
<1>3. client[t] \in Clients
  BY DEF SoloInv, Inv, Shape
<1> HIDE DEF a
<1>4. a.values \in Nat
  BY <1>1 DEF MaxValues
<1>5. /\ Values(a) \in Seq({Value(a, i) : i \in Nat}) /\ Len(Values(a)) = a.values
      /\ \A i \in 1..a.values : Values(a)[i] = Value(a, i)
  BY <1>4, ValuesOf
<1> QED BY <1>1, <1>2, <1>3, <1>5 DEF a

LEMMA SoloSplitRetBuf ==
  ASSUME SoloInv, NEW t \in Threads, SplitRetBuf(t), Inv'
  PROVE  SoloInv'
PROOF
<1> DEFINE a == Answer(RunAlone(t, call[t]))
           k == client[t]
<1>1. /\ pc[t] = "split" /\ Strtok(t, k, Values(buf[k]), "keep", "take")
      /\ cmd_size' = [cmd_size EXCEPT ![t] = 0]
      /\ torn' = IF Splitting(k) = {} THEN torn ELSE torn \cup Splitting(k) \cup {t}
      /\ UNCHANGED <<client, call, met, answer, buf, mRet, result>>
  BY DEF SplitRetBuf, Values
<1>2. Running(t)
  BY <1>1 DEF Running
<1>3. Form' /\ cmd_size'[t] = 0
  BY <1>1 DEF SoloInv, Inv, Shape, Form
<1>4. PICK s \in {"keep", "take"} : Go(t, s)
  BY <1>1 DEF Strtok
<1>5. pc'[t] = s
  BY <1>4, OnlyMoves DEF SoloInv, Inv
<1>6. ASSUME Solo(t)
      PROVE  Undisturbed(t)'
  <2>1. /\ a.values \in 1..MaxValues /\ buf[k] = a
        /\ \E E : Values(a) \in Seq(E)
        /\ Len(Values(a)) = a.values /\ \A i \in 1..a.values : Values(a)[i] = Value(a, i)
        /\ k \in Clients
    BY <1>1, <1>2, <1>6, OwnValues
  <2>2. PICK E : Values(a) \in Seq(E)
    BY <2>1
  <2>3. t \notin torn'
    <3>1. t \notin torn /\ Splitting(k) \subseteq {t}
      BY <1>2, <1>6, NobodyElse
    <3>2. t \notin Splitting(k)
      BY <1>1, <2>1, ChannelAssumption DEF Splitting
    <3> QED BY <1>1, <3>1, <3>2
  <2> HIDE DEF a, k
  <2>4. Values(a) = Left(Values(a), 0) /\ 0 \in 0..Len(Values(a)) /\ 0 < Len(Values(a))
    BY <2>1, <2>2, LeftOf DEF MaxValues
  <2>5. Strtok(t, k, Left(Values(a), 0), "keep", "take")
    BY <1>1, <2>1, <2>4
  <2>6. Shape /\ k \in Clients \cup {"service"}
    BY <2>1 DEF SoloInv, Inv
  <2>7. /\ Go(t, "keep") /\ token'[t] = Values(a)[0 + 1]
        /\ position'[k] = Left(Values(a), 0 + 1)
    BY <2>2, <2>4, <2>5, <2>6, StrtokAt
  <2>8. pc'[t] = "keep"
    BY <2>6, <2>7, OnlyMoves
  <2>9. token'[t] = Value(a, 0 + 1) /\ 0 \in 0..a.values /\ 0 < a.values
    BY <2>1, <2>7 DEF MaxValues
  <2>10. buf'[k] = a /\ \A i \in 1..MaxValues : ~(i <= 0)
    BY <1>1, <2>1 DEF MaxValues
  <2>11. a = Answer(RunAlone(t, call'[t])) /\ k = client'[t]
    BY <1>1 DEF a, k
  <2> QED BY <1>3, <2>3, <2>7, <2>8, <2>9, <2>10, <2>11 DEF Undisturbed
<1>7. Solo(t)' => Undisturbed(t)'
  BY <1>1, <1>6 DEF Solo
<1>8. Answered(t)'
  BY <1>5 DEF Answered
<1> QED BY <1>1, <1>2, <1>3, <1>4, <1>7, <1>8, OnlyOwn

LEMMA SoloKeepValue ==
  ASSUME SoloInv, NEW t \in Threads, KeepValue(t), Inv'
  PROVE  SoloInv'
PROOF
<1> DEFINE a == Answer(RunAlone(t, call[t]))
           k == client[t]
           n == cmd_size[t]
<1>1. /\ pc[t] = "keep" /\ Go(t, "cut") /\ n < MaxValues
      /\ cmd_size' = [cmd_size EXCEPT ![t] = n + 1]
      /\ mRet' = [mRet EXCEPT ![k][n + 1] = token[t]]
      /\ UNCHANGED <<client, call, met, position, answer, buf, result, torn>>
  BY DEF KeepValue
<1>2. Running(t)
  BY <1>1 DEF Running
<1>3. pc'[t] = "cut"
  BY <1>1, OnlyMoves DEF SoloInv, Inv
<1>4. /\ k \in Clients /\ cmd_size'[t] = n + 1
  BY <1>1 DEF SoloInv, Inv, Shape
<1>5. Form'
  BY <1>1, <1>4 DEF SoloInv, Form
<1>6. ASSUME Solo(t)
      PROVE  Undisturbed(t)'
  <2>1. /\ t \notin torn /\ buf[k] = a /\ n \in 0..a.values /\ n < a.values
        /\ \A i \in 1..MaxValues : i <= n => mRet[k][i] = Value(a, i)
        /\ token[t] = Value(a, n + 1) /\ position[k] = Left(Values(a), n + 1)
    BY <1>1, <1>2, <1>6 DEF SoloInv, AloneRight, Undisturbed
  <2>2. a.values \in 1..MaxValues
    BY AnswerValues
  <2>3. a = Answer(RunAlone(t, call'[t])) /\ k = client'[t]
    BY <1>1
  <2> HIDE DEF a
  <2>4. n + 1 \in 0..a.values /\ n + 1 \in 1..MaxValues
    BY <2>1, <2>2 DEF MaxValues
  <2>5. \A i \in 1..MaxValues : mRet'[k][i] = IF i = n + 1 THEN token[t] ELSE mRet[k][i]
    BY <1>1, <1>4, <2>4 DEF SoloInv, Form
  <2>6. \A i \in 1..MaxValues : i <= n + 1 => mRet'[k][i] = Value(a, i)
    <3> SUFFICES ASSUME NEW i \in 1..MaxValues, i <= n + 1
                 PROVE  mRet'[k][i] = Value(a, i)
      OBVIOUS
    <3>1. i = n + 1 \/ i <= n
      BY <2>1 DEF MaxValues
    <3> QED BY <2>1, <2>5, <3>1
  <2>7. buf'[k] = a /\ position'[k] = Left(Values(a), n + 1) /\ torn' = torn
    BY <1>1, <2>1
  <2> HIDE DEF k, n
  <2> QED BY <1>3, <1>4, <2>1, <2>3, <2>4, <2>6, <2>7 DEF Undisturbed
<1>7. Solo(t)' => Undisturbed(t)'
  BY <1>1, <1>6 DEF Solo
<1>8. Answered(t)'
  BY <1>3 DEF Answered
<1> QED BY <1>1, <1>2, <1>5, <1>7, <1>8, OnlyOwn

LEMMA SoloCutValue ==
  ASSUME SoloInv, NEW t \in Threads, CutValue(t), Inv'
  PROVE  SoloInv'
PROOF
<1> DEFINE a == Answer(RunAlone(t, call[t]))
           k == client[t]
           n == cmd_size[t]
<1>1. /\ pc[t] = "cut" /\ Strtok(t, k, position[k], "keep", "take")
      /\ UNCHANGED <<client, call, met, cmd_size, answer, buf, mRet, result, torn>>
  BY DEF CutValue
<1>2. Running(t)
  BY <1>1 DEF Running
<1>3. Form'
  BY <1>1 DEF SoloInv, Form
<1>4. PICK s \in {"keep", "take"} : Go(t, s)
  BY <1>1 DEF Strtok
<1>5. pc'[t] = s
  BY <1>4, OnlyMoves DEF SoloInv, Inv
<1>6. ASSUME Solo(t)
      PROVE  Undisturbed(t)'
  <2>1. /\ a.values \in 1..MaxValues /\ buf[k] = a
        /\ \E E : Values(a) \in Seq(E)
        /\ Len(Values(a)) = a.values /\ \A i \in 1..a.values : Values(a)[i] = Value(a, i)
        /\ k \in Clients
    BY <1>1, <1>2, <1>6, OwnValues
  <2>2. PICK E : Values(a) \in Seq(E)
    BY <2>1
  <2>3. /\ t \notin torn /\ n \in 0..a.values /\ position[k] = Left(Values(a), n)
        /\ \A i \in 1..MaxValues : i <= n => mRet[k][i] = Value(a, i)
    BY <1>1, <1>2, <1>6 DEF SoloInv, AloneRight, Undisturbed
  <2>4. a = Answer(RunAlone(t, call'[t])) /\ k = client'[t] /\ n = cmd_size'[t]
    BY <1>1
  <2> HIDE DEF a, k, n
  <2>5. Shape /\ k \in Clients \cup {"service"}
    BY <2>1 DEF SoloInv, Inv
  <2>6. /\ n < a.values => /\ Go(t, "keep") /\ token'[t] = Values(a)[n + 1]
                           /\ position'[k] = Left(Values(a), n + 1)
        /\ n = a.values => Go(t, "take")
        /\ n < a.values \/ n = a.values
    <3>1. n \in 0..Len(Values(a)) /\ Strtok(t, k, Left(Values(a), n), "keep", "take")
      BY <1>1, <2>1, <2>3
    <3> QED BY <2>1, <2>2, <2>5, <3>1, StrtokAt
  <2>7. ASSUME n < a.values PROVE Undisturbed(t)'
    <3>1. pc'[t] = "keep"
      BY <2>5, <2>6, <2>7, OnlyMoves
    <3>2. n + 1 \in 1..a.values
      BY <2>1, <2>3, <2>7 DEF MaxValues
    <3>3. token'[t] = Value(a, n + 1)
      BY <2>1, <2>6, <2>7, <3>2
    <3> QED BY <1>1, <2>1, <2>3, <2>4, <2>6, <2>7, <3>1, <3>3 DEF Undisturbed
  <2>8. ASSUME n = a.values PROVE Undisturbed(t)'
    <3>1. pc'[t] = "take"
      BY <2>5, <2>6, <2>8, OnlyMoves
    <3> QED BY <1>1, <2>1, <2>3, <2>4, <2>8, <3>1 DEF Undisturbed
  <2> QED BY <2>6, <2>7, <2>8
<1>7. Solo(t)' => Undisturbed(t)'
  BY <1>1, <1>6 DEF Solo
<1>8. Answered(t)'
  BY <1>5 DEF Answered
<1> QED BY <1>1, <1>2, <1>3, <1>4, <1>7, <1>8, OnlyOwn

LEMMA SoloTake ==
  ASSUME SoloInv, NEW t \in Threads, Take(t), Inv'
  PROVE  SoloInv'
PROOF
<1> DEFINE c == call[t]
           a == Answer(RunAlone(t, c))
           k == client[t]
           r == IF c.values > 1 THEN {mRet[k][i] : i \in 1..c.values} ELSE {Value(buf[k], 1)}
<1>1. /\ pc[t] = "take" /\ Go(t, "done") /\ result' = [result EXCEPT ![t] = r]
      /\ UNCHANGED <<client, call, met, answer, buf, mRet, torn>>
  BY DEF Take
<1>2. Running(t)
  BY <1>1 DEF Running
<1>3. /\ pc'[t] = "done" /\ Form' /\ result'[t] = r
      /\ \A v \in Threads \ {t} : result'[v] = result[v]
  BY <1>1, OnlyMoves DEF SoloInv, Inv, Form
<1>4. c \in TextCalls /\ c \notin ParcelCalls
  <2>1. c \in TextCalls
    BY <1>2 DEF SoloInv, Inv, Shape
  <2> QED BY <2>1, FunctionsServed, Parcels DEF Served
<1>5. ASSUME Solo(t), c \notin Misaddressed \cup Short \cup Misread
      PROVE  r = OwnAnswer(t)
  <2>1. /\ buf[k] = a
        /\ c.values > 1 =>
              \A i \in 1..MaxValues : i <= a.values => mRet[k][i] = Value(a, i)
    BY <1>1, <1>2, <1>5 DEF SoloInv, AloneRight, Undisturbed
  <2>2. /\ OwnAnswer(t) = {Value(a, i) : i \in 1..c.values}
        /\ c.values > 1 => a.values = c.values
    <3>1. /\ a.case = <<c.verb, c.name>> /\ a.from = IF Needed(c) = {0} THEN {} ELSE {t}
          /\ c.values > 1 => a.values = c.values
      BY <1>4, <1>5, AnsweredAlone
    <3> HIDE DEF a
    <3> QED BY <1>4, <3>1 DEF OwnAnswer, Value
  <2>3. c.values \in 1..MaxValues
    BY <1>4, FunctionsServed DEF Served
  <2> HIDE DEF a
  <2>4. CASE c.values > 1
    <3>1. \A i \in 1..c.values : mRet[k][i] = Value(a, i)
      BY <2>1, <2>2, <2>3, <2>4 DEF MaxValues
    <3> QED BY <2>2, <2>4, <3>1
  <2>5. CASE ~(c.values > 1)
    <3>1. c.values = 1
      BY <2>3, <2>5 DEF MaxValues
    <3>2. 1..c.values = {1}
      BY <3>1
    <3> QED BY <2>1, <2>2, <2>5, <3>2
  <2> QED BY <2>4, <2>5
<1> HIDE DEF r
<1>6. OwnAnswer(t)' = OwnAnswer(t)
  BY <1>1 DEF OwnAnswer
<1>7. Answered(t)'
  BY <1>1, <1>3, <1>5, <1>6 DEF Answered, Solo
<1>8. ~Running(t)'
  BY <1>3 DEF Running
<1> QED BY <1>1, <1>2, <1>3, <1>7, <1>8, OnlyOwn

LEMMA SoloInductive == Spec => []SoloInv
PROOF
<1>1. Init => SoloInv
  <2> SUFFICES ASSUME Init
               PROVE  SoloInv
    OBVIOUS
  <2>1. Inv
    BY InitInv
  <2>2. Form
    BY DEF Init, Form
  <2>3. \A t \in Threads : pc[t] = "idle"
    BY DEF Init
  <2>4. \A t \in Threads : AloneRight(t)
    BY <2>3 DEF AloneRight, Answered, Running
  <2> QED BY <2>1, <2>2, <2>4 DEF SoloInv
<1>2. SoloInv /\ [Next]_vars => SoloInv'
  <2> SUFFICES ASSUME SoloInv, [Next]_vars
               PROVE  SoloInv'
    OBVIOUS
  <2>1. Inv'
    BY NextInv DEF SoloInv
  <2>2. ASSUME NEW t \in Threads, NEW c \in TextCalls, Begin(t, c)
        PROVE  SoloInv'
    BY <2>1, <2>2, SoloBegin
  <2>3. ASSUME NEW t \in Threads, NEW c \in ParcelCalls, Transact(t, c)
        PROVE  SoloInv'
    BY <2>1, <2>3, SoloTransact
  <2>4. ASSUME NEW t \in Threads, SplitCommand(t) \/ AssignToken(t) \/ NextToken(t)
        PROVE  SoloInv'
    BY <2>1, <2>4, SoloSplit
  <2>5. ASSUME NEW t \in Threads, ParseId(t) \/ ParseParams(t) \/ Run(t)
        PROVE  SoloInv'
    BY <2>1, <2>5, SoloParse
  <2>6. ASSUME NEW t \in Threads, PrintAnswer(t) \/ Reply(t) \/ Copy(t)
        PROVE  SoloInv'
    BY <2>1, <2>6, SoloReply
  <2>7. ASSUME NEW t \in Threads, SplitRetBuf(t) \/ KeepValue(t) \/ CutValue(t) \/ Take(t)
        PROVE  SoloInv'
    BY <2>1, <2>7, SoloSplitRetBuf, SoloKeepValue, SoloCutValue, SoloTake
  <2>8. ASSUME UNCHANGED vars
        PROVE  SoloInv'
    <3>1. UNCHANGED <<client, pc, call, met, position, token, cmd_size, mRetBuf, args, ran,
                      answer, buf, mRet, result, torn>>
      BY <2>8 DEF vars, split
    <3>2. ASSUME NEW t \in Threads
          PROVE  AloneRight(t)'
      <4>1. AloneRight(t)
        BY DEF SoloInv
      <4>2. Answered(t)'
        BY <3>1, <4>1, StillAnswered DEF AloneRight
      <4>3. Undisturbed(t) => Undisturbed(t)'
        BY <3>1 DEF Undisturbed
      <4> QED BY <3>1, <4>1, <4>2, <4>3 DEF AloneRight, Running, Solo
    <3> QED BY <2>1, <3>1, <3>2 DEF SoloInv, Form
  <2> QED BY <2>2, <2>3, <2>4, <2>5, <2>6, <2>7, <2>8 DEF Next, TextStep
<1> QED BY <1>1, <1>2, PTL DEF Spec

\* SetCmd, GetCmd, SplitCommand and the client: for any threads and clients, a
\* call that no other text command ran into returns the answer of the case it
\* is named for to its own parameters, for each of the functions but those
\* whose id, verb, parameters or fields disagree with the service's.
THEOREM AloneAnswered == Spec => []AnswersMatch
PROOF
<1>1. SoloInv => AnswersMatch
  BY DEF SoloInv, AloneRight, Answered, Solo, Alone, AnswersMatch
<1> QED BY <1>1, SoloInductive, PTL
=============================================================================
