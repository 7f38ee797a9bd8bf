-------------------------- MODULE RemoteConfProofs --------------------------
(***************************************************************************)
(* Proofs about remotecfg: what it has read so far is what the lines say,  *)
(* and what it sends puts that into the drivers, for files of any length   *)
(* and any number of runs.                                                 *)
(***************************************************************************)
EXTENDS RemoteConf, TLAPS

-----------------------------------------------------------------------------
(* The tables                                                              *)

\* The place of a parameter in the table of the ioctls.
PlaceOf == [p \in Nat |->
  IF p = 6 THEN 1 ELSE IF p = 7 THEN 2 ELSE IF p = 10 THEN 3 ELSE IF p = 11 THEN 4
  ELSE IF p = 8 THEN 5 ELSE IF p = 13 THEN 6 ELSE IF p = 12 THEN 7 ELSE IF p = 100 THEN 8
  ELSE IF p = 99 THEN 9 ELSE IF p = 97 THEN 10 ELSE IF p = 98 THEN 11 ELSE IF p = 9 THEN 12
  ELSE IF p \in 107 .. 110 THEN p - 94 ELSE IF p \in 129 .. 130 THEN p - 112
  ELSE IF p = 111 THEN 19 ELSE IF p \in 101 .. 106 THEN p - 81 ELSE p - 105]

\* Every item is one of the first ten, the next ten, or behind them.
LEMMA ItemCases ==
  ASSUME NEW i \in Items
  PROVE  \/ i = 1 \/ i = 2 \/ i = 3 \/ i = 4 \/ i = 5 \/ i = 6 \/ i = 7 \/ i = 8 \/ i = 9
         \/ i = 10 \/ i = 11 \/ i = 12 \/ i = 13 \/ i = 14 \/ i = 15 \/ i = 16 \/ i = 17
         \/ i = 18 \/ i = 19 \/ i = 20 \/ i = 21 \/ i = 22 \/ i = 23 \/ i = 24 \/ i = 25
         \/ i = 26 \/ i = 27 \/ i = 28 \/ i = 29 \/ i = 30 \/ i = 31 \/ i = 32 \/ i = 33
BY DEF Items

\* The table has each parameter once.
LEMMA TableOnce == \A i \in Items : remote_ioc_table[i] \in Nat /\ PlaceOf[remote_ioc_table[i]] = i
<1> SUFFICES ASSUME NEW i \in Items
             PROVE  remote_ioc_table[i] \in Nat /\ PlaceOf[remote_ioc_table[i]] = i
  OBVIOUS
<1> QED BY ItemCases DEF remote_ioc_table, PlaceOf

\* The struct has the factory code where the table has its parameter.
LEMMA CodeInPlace ==
  \A i \in Items : (remote_config_t[i] = "factory_code") <=> (remote_ioc_table[i] = CustomCode)
BY ItemCases DEF remote_config_t, remote_ioc_table, CustomCode

-----------------------------------------------------------------------------
(* Types                                                                   *)

MapTyped(f, s) == \A c \in DOMAIN f : c \in 0 .. Limit(s) /\ f[c] \in Half

\* A word is a pair of halves, and what is kept of it is a half.
LEMMA WordTyped ==
  ASSUME NEW w \in Word, NEW s
  PROVE  w.hi \in Half /\ w.lo \in Half /\ Kept(s, w) \in Half
<1>1. w.lo \in Half /\ w.hi \in Half
  BY DEF Word
<1>2. \A n \in Half : n % 256 \in Half
  BY DEF Half
<1> QED BY <1>1, <1>2 DEF Kept

\* Entries that are added or sent keep a map typed.
LEMMA PutTyped ==
  ASSUME NEW f, NEW s, MapTyped(f, s), NEW c \in 0 .. Limit(s), NEW v \in Half
  PROVE  MapTyped(Put(f, c, v), s)
BY DEF MapTyped, Put

LEMMA OverTyped ==
  ASSUME NEW f, NEW g, NEW s, MapTyped(f, s), MapTyped(g, s)
  PROVE  MapTyped(Over(f, g), s)
BY DEF MapTyped, Over

LEMMA EmptyTyped == ASSUME NEW s PROVE MapTyped(Empty, s)
BY DEF MapTyped, Empty

RcTyped == \A s \in MapLevels : MapTyped(maps[s], s) /\ MapTyped(devMap[s], s)

LEMMA TypedIsTyped == RcTypeOK => RcTyped
BY DEF RcTypeOK, RcTyped, MapTyped

LEMMA RcTypeInit == RcInit => RcTypeOK
<1> SUFFICES ASSUME RcInit PROVE RcTypeOK
  OBVIOUS
<1>1. Unset \in Word
  BY DEF Unset, W, Word, Half
<1>2. remote \in [Items -> Word] /\ devParam \in [Params -> Word]
  BY <1>1 DEF RcInit, Blank
<1>3. /\ DOMAIN maps = MapLevels /\ DOMAIN devMap = MapLevels
      /\ \A s \in MapLevels : maps[s] = Empty /\ devMap[s] = Empty
  BY DEF RcInit, NoMaps
<1>4. factory \in [FactoryIndex -> Half] /\ devFactory \in [FactoryIndex -> Half]
  BY DEF RcInit, NoFactory, Half
<1>5. rcRuns \in 0 .. MaxRuns /\ rcLines \in 0 .. MaxLines
  BY RemoteBounds DEF RcInit
<1>6. /\ rcPc = "exit" /\ level = "config" /\ ircode = 0 /\ keycode = 0
      /\ adc_move_enable = 0 /\ devMove = 0 /\ kp \in BOOLEAN /\ way = "none"
  BY DEF RcInit
<1>7. /\ \A s \in MapLevels : MapTyped(maps[s], s) /\ MapTyped(devMap[s], s)
      /\ ircode \in Half /\ keycode \in Half
  BY <1>3, <1>6, EmptyTyped, SMT DEF Half
<1>8. level \in Levels
  BY <1>6 DEF Levels
<1> QED
  BY <1>2, <1>3, <1>4, <1>5, <1>6, <1>7, <1>8 DEF RcTypeOK, MapTyped

\* What a run begins with.
LEMMA BeginTyped == RcTypeOK /\ (BeginFile \/ BeginDefault) => RcTypeOK'
<1> SUFFICES ASSUME RcTypeOK, BeginFile \/ BeginDefault PROVE RcTypeOK'
  OBVIOUS
<1>1. Begin
  BY DEF BeginFile, BeginDefault
<1>2. rcRuns' \in 0 .. MaxRuns
  BY <1>1, RemoteBounds DEF Begin, RcTypeOK
<1>3. remote' \in [Items -> Word]
  <2>1. \A n : DefaultField(n) \in Word
    BY DEF DefaultField, Word, W, Unset, Half
  <2> QED BY <2>1 DEF BeginFile, BeginDefault, RcTypeOK
<1>4. DOMAIN maps' = MapLevels /\ \A s \in MapLevels : MapTyped(maps'[s], s)
  <2>1. CASE BeginFile
    BY <2>1, TypedIsTyped DEF BeginFile, RcTypeOK, RcTyped
  <2>2. CASE BeginDefault
    <3>1. MapTyped(default_key_map, "key")
      BY KeyAssumption DEF MapTyped, Limit
    <3> QED BY <2>2, <3>1, EmptyTyped DEF BeginDefault, NoMaps, MapLevels
  <2> QED BY <2>1, <2>2
<1>5. /\ level' = level /\ factory' = factory /\ ircode' = ircode /\ keycode' = keycode
      /\ adc_move_enable' = adc_move_enable /\ devParam' = devParam /\ devMap' = devMap
      /\ devFactory' = devFactory /\ devMove' = devMove /\ kp' = kp /\ rcLines' = rcLines
      /\ rcPc' \in {"file", "send"} /\ way' \in {"file", "default"}
  BY <1>1 DEF Begin, rcDev, BeginFile, BeginDefault
<1> QED
  BY <1>2, <1>3, <1>4, <1>5 DEF RcTypeOK, MapTyped

\* A line that sets something, on its own.
LEMMA ReadsTyped ==
  ASSUME RcTypeOK, NEW name, NEW value, Reads(name, value)
  PROVE  /\ rcLines' \in 0 .. MaxLines /\ rcPc' = rcPc /\ rcRuns' = rcRuns /\ way' = way
         /\ devParam' = devParam /\ devMap' = devMap /\ devFactory' = devFactory
         /\ devMove' = devMove /\ kp' = kp
BY RemoteBounds DEF RcTypeOK, Reads, rcDev

LEMMA FieldTyped ==
  ASSUME RcTypeOK, NEW name, NEW value \in Words, remote_config_set(name, value)
  PROVE  RcTypeOK'
<1>1. Reads(name, value) /\ UNCHANGED <<level, maps, factory, ircode, keycode, adc_move_enable>>
  BY DEF remote_config_set
<1>2. remote' \in [Items -> Word]
  BY WordAssumption DEF remote_config_set, RcTypeOK
<1> QED BY <1>1, <1>2, ReadsTyped DEF RcTypeOK

LEMMA EntryTyped ==
  ASSUME RcTypeOK, NEW code \in Codes, NEW value \in Words, ReadEntry(code, value)
  PROVE  RcTypeOK'
<1>1. Reads(code, value) /\ UNCHANGED <<level, remote, factory>> /\ level \in MapLevels
  BY DEF ReadEntry
<1>2. code.lo \in Half /\ Kept(level, value) \in Half
  BY WordTyped, WordAssumption
<1>3. ircode' \in Half /\ keycode' \in Half /\ adc_move_enable' \in {0, 1}
  BY <1>2 DEF ReadEntry, RcTypeOK
<1>4. DOMAIN maps' = MapLevels /\ \A s \in MapLevels : MapTyped(maps'[s], s)
  <2>1. CASE code.lo > Limit(level) \/ ~Stores(level, value)
    BY <2>1, TypedIsTyped DEF ReadEntry, RcTypeOK, RcTyped
  <2>2. CASE ~(code.lo > Limit(level)) /\ Stores(level, value)
    <3>1. code.lo \in 0 .. Limit(level)
      BY <1>2, <2>2 DEF Half, Limit
    <3>2. MapTyped(Put(maps[level], code.lo, Kept(level, value)), level)
      BY <1>1, <1>2, <3>1, PutTyped, TypedIsTyped DEF RcTyped
    <3>3. maps' = [maps EXCEPT ![level] = Put(maps[level], code.lo, Kept(level, value))]
      BY <2>2 DEF ReadEntry
    <3> QED BY <1>1, <3>2, <3>3, TypedIsTyped DEF RcTypeOK, RcTyped
  <2> QED BY <2>1, <2>2
<1> QED BY <1>1, <1>3, <1>4, ReadsTyped DEF RcTypeOK, MapTyped

LEMMA FactoryTyped ==
  ASSUME RcTypeOK, NEW code \in Codes, NEW value \in Words, ReadFactory(code, value)
  PROVE  RcTypeOK'
<1>1. Reads(code, value) /\ UNCHANGED <<level, remote, maps, ircode, keycode, adc_move_enable>>
  BY DEF ReadFactory
<1>2. value.lo \in Half
  BY WordTyped, WordAssumption
<1>3. factory' \in [FactoryIndex -> Half]
  BY <1>2 DEF ReadFactory, RcTypeOK
<1> QED BY <1>1, <1>3, ReadsTyped DEF RcTypeOK

LEMMA SendTyped == RcTypeOK /\ Send => RcTypeOK'
<1> SUFFICES ASSUME RcTypeOK, Send PROVE RcTypeOK'
  OBVIOUS
<1>1. Unset \in Word
  BY DEF Unset, W, Word, Half
<1>2. Shifted \in [Items -> Word]
  <2>1. \A i \in Items : remote[i] \in Word /\ W(0, remote[i].hi) \in Word
    BY DEF RcTypeOK, Word, W, Half
  <2> QED BY <2>1 DEF Shifted
<1>3. devParam' \in [Params -> Word]
  <2> SUFFICES ASSUME NEW p \in Params
               PROVE  (LET i == CHOOSE j \in Items : remote_ioc_table[j] = p
                       IN IF Shifted[i] = Unset THEN devParam[p] ELSE Shifted[i]) \in Word
    BY DEF Send, set_config
  <2>1. PICK j \in Items : remote_ioc_table[j] = p
    BY DEF Params
  <2>2. (CHOOSE k \in Items : remote_ioc_table[k] = p) \in Items
    BY <2>1
  <2> QED BY <1>2, <2>2 DEF RcTypeOK
<1>4. DOMAIN devMap' = MapLevels /\ \A s \in MapLevels : MapTyped(devMap'[s], s)
  <2>1. ASSUME NEW s \in MapLevels PROVE MapTyped(SentMap(s), s)
    BY <2>1, OverTyped, EmptyTyped, TypedIsTyped DEF SentMap, RcTyped, MapLevels
  <2> QED BY <2>1 DEF Send
<1>5. DOMAIN maps' = MapLevels /\ \A s \in MapLevels : MapTyped(maps'[s], s)
  BY EmptyTyped DEF Send, NoMaps
<1>6. /\ remote' \in [Items -> Word] /\ factory' \in [FactoryIndex -> Half]
      /\ devFactory' \in [FactoryIndex -> Half]
  BY <1>1 DEF Send, Blank, NoFactory, RcTypeOK, Half
<1>7. /\ rcPc' = "exit" /\ adc_move_enable' = 0 /\ devMove' \in {0, 1}
      /\ UNCHANGED <<level, ircode, keycode, kp, rcRuns, rcLines, way>>
  BY DEF Send, RcTypeOK
<1> QED
  BY <1>3, <1>4, <1>5, <1>6, <1>7 DEF RcTypeOK, MapTyped

LEMMA RcTypeNext == RcTypeOK /\ [RcNext]_rcVars => RcTypeOK'
<1> SUFFICES ASSUME RcTypeOK, [RcNext]_rcVars PROVE RcTypeOK'
  OBVIOUS
<1>1. CASE BeginFile \/ BeginDefault
  BY <1>1, BeginTyped
<1>2. CASE ReadLine
  <2>1. ASSUME NEW s \in Levels \ {"config"}, BeginLevel(s) PROVE RcTypeOK'
    BY <2>1 DEF RcTypeOK, BeginLevel, rcData, rcDev, Levels
  <2>2. ASSUME EndLevel PROVE RcTypeOK'
    BY <2>2 DEF RcTypeOK, EndLevel, rcData, rcDev, Levels
  <2> QED BY <1>2, <2>1, <2>2, FieldTyped, EntryTyped, FactoryTyped DEF ReadLine
<1>3. CASE EndOfFile
  BY <1>3 DEF RcTypeOK, EndOfFile, rcDev, Levels, Half
<1>4. CASE Send
  BY <1>4, SendTyped
<1>5. CASE UNCHANGED rcVars
  BY <1>5 DEF RcTypeOK, rcVars, rcData, rcDev
<1> QED BY <1>1, <1>2, <1>3, <1>4, <1>5 DEF RcNext

\* Every map that is read, and every map in the drivers, has codes and keys that
\* fit the halves of the word in which main hands them over.
THEOREM EntriesFit == RcSpec => []RcTypeOK
BY RcTypeInit, RcTypeNext, PTL DEF RcSpec

-----------------------------------------------------------------------------
(* One more line                                                           *)

RcLine ==
  [level : {"config"}, name : Names, value : Words]
    \cup [level : Levels \ {"config"}, name : Codes, value : Words]

\* A line stores a value for code c in level s.
LineAssigns(line, s, c) ==
  line.level = s /\ line.name.lo = c /\ c <= Limit(s) /\ Stores(s, line.value)

\* The lines before it stay where they are.
LEMMA AppendPlaces ==
  ASSUME read \in Seq(RcLine), NEW line \in RcLine, read' = Append(read, line),
         NEW last \in Nat, last = Len(read) + 1
  PROVE  /\ Places \subseteq Places' /\ last \in Places' /\ last \notin Places
         /\ \A n \in Places' : n \in Places \/ n = last
         /\ \A n \in Places : read'[n] = read[n] /\ n < last
         /\ read'[last] = line
         /\ \A n \in Places : n \in Nat /\ read[n] \in RcLine
BY DEF Places

\* A line that assigns is the last that does, and any other changes nothing.
LEMMA AppendAssigns ==
  ASSUME read \in Seq(RcLine), NEW line \in RcLine, read' = Append(read, line),
         NEW last \in Nat, last = Len(read) + 1, NEW s \in Levels, NEW c \in Half
  PROVE  /\ LineAssigns(line, s, c) => LastAssigns(last, s, c)'
         /\ ~LineAssigns(line, s, c) =>
              /\ \A n \in Places : LastAssigns(n, s, c) => LastAssigns(n, s, c)'
              /\ (\A n \in Places : ~Assigns(n, s, c)) => \A n \in Places' : ~Assigns(n, s, c)'
<1>0. /\ last \in Places' /\ Places \subseteq Places'
      /\ \A n \in Places' : n \in Places \/ n = last
      /\ \A n \in Places : read'[n] = read[n] /\ n < last /\ n \in Nat
      /\ read'[last] = line
  BY AppendPlaces, Zenon
<1>1. \A n \in Places : Assigns(n, s, c)' <=> Assigns(n, s, c)
  BY <1>0 DEF Assigns
<1>2. Assigns(last, s, c)' <=> LineAssigns(line, s, c)
  BY <1>0 DEF Assigns, LineAssigns
<1>3. \A n \in Places' : n \in Places \/ n = last
  BY <1>0
<1>4. \A n \in Places' : ~(n > last)
  BY <1>0
<1>5. LineAssigns(line, s, c) => LastAssigns(last, s, c)'
  BY <1>2, <1>4 DEF LastAssigns
<1>6. ~LineAssigns(line, s, c) =>
        \A n \in Places : LastAssigns(n, s, c) => LastAssigns(n, s, c)'
  BY <1>1, <1>2, <1>3 DEF LastAssigns
<1>7. ~LineAssigns(line, s, c) =>
        ((\A n \in Places : ~Assigns(n, s, c)) => \A n \in Places' : ~Assigns(n, s, c)')
  BY <1>1, <1>2, <1>3
<1> QED BY <1>5, <1>6, <1>7

\* The same for the name of a field.
LEMMA AppendSets ==
  ASSUME read \in Seq(RcLine), NEW line \in RcLine, read' = Append(read, line),
         NEW last \in Nat, last = Len(read) + 1, NEW name
  PROVE  LET sets == line.level = "config" /\ line.name = name
         IN /\ sets => LastSets(last, name)'
            /\ ~sets =>
                 /\ \A n \in Places : LastSets(n, name) => LastSets(n, name)'
                 /\ (\A n \in Places : ~SetsName(n, name)) => \A n \in Places' : ~SetsName(n, name)'
<1> DEFINE sets == line.level = "config" /\ line.name = name
<1>0. /\ last \in Places' /\ Places \subseteq Places'
      /\ \A n \in Places' : n \in Places \/ n = last
      /\ \A n \in Places : read'[n] = read[n] /\ n < last /\ n \in Nat
      /\ read'[last] = line
  BY AppendPlaces, Zenon
<1> HIDE DEF sets
<1>1. \A n \in Places : SetsName(n, name)' <=> SetsName(n, name)
  BY <1>0 DEF SetsName
<1>2. SetsName(last, name)' <=> sets
  BY <1>0 DEF SetsName, sets
<1>3. \A n \in Places' : n \in Places \/ n = last
  BY <1>0
<1>4. \A n \in Places' : ~(n > last)
  BY <1>0
<1>5. sets => LastSets(last, name)'
  BY <1>2, <1>4 DEF LastSets
<1>6. ~sets => \A n \in Places : LastSets(n, name) => LastSets(n, name)'
  BY <1>1, <1>2, <1>3 DEF LastSets
<1>7. ~sets =>
        ((\A n \in Places : ~SetsName(n, name)) => \A n \in Places' : ~SetsName(n, name)')
  BY <1>1, <1>2, <1>3
<1> QED BY <1>5, <1>6, <1>7 DEF sets

-----------------------------------------------------------------------------
(* What was read so far                                                    *)

Reading == rcPc # "exit" /\ way = "file"

\* The history has lines only, and a run has begun with what the drivers hold.
HistoryOK ==
  /\ read \in Seq(RcLine)
  /\ rcPc = "file" => way = "file"
  /\ rcPc # "file" => ircode = 0
  /\ rcPc = "exit" => maps = NoMaps /\ remote = Blank /\ factory = NoFactory
                       /\ adc_move_enable = 0
  /\ rcPc # "exit" => before = [param |-> devParam, map |-> devMap]
  /\ \A s \in MapLevels : \A c \in DOMAIN before.map[s] : c \in Half

KeysRead == Reading => \A s \in MapLevels, c \in Half : AsWritten(maps[s], Empty, s, c)

\* Without a line for an ADC key there is none to send.
AdcRead == adc_move_enable = 0 => DOMAIN maps["adc"] = {}

FieldAsRead(i) ==
  \/ \E n \in Places : LastSets(n, config_item[i]) /\ remote[i] = read[n].value
  \/ (\A n \in Places : ~SetsName(n, config_item[i])) /\ remote[i] = Unset

FieldsRead == Reading => \A i \in Items : FieldAsRead(i)

\* What the entries of the maps leave behind for a factory level.
LeftBehind ==
  rcPc = "file" /\ (\A n \in Places : Sound(n)) =>
    /\ ircode <= 255
    /\ (\E n \in Places : read[n].level \in MapLevels) => keycode # 0

FactoryRead ==
  Reading =>
    \A x \in FactoryIndex :
      /\ (\A n \in Places : ~Assigns(n, "factory", x)) => factory[x] = 0
      /\ FactorySound => \A n \in Places :
           LastAssigns(n, "factory", x) => factory[x] = read[n].value.lo

ReadInv == KeysRead /\ AdcRead /\ FieldsRead /\ LeftBehind /\ FactoryRead

RcInv == RcTypeOK /\ HistoryOK /\ ReadInv /\ DriverAsWritten

LEMMA RcInvInit == RcInit => RcInv
<1> SUFFICES ASSUME RcInit PROVE RcInv
  OBVIOUS
<1>1. ~Reading /\ rcPc # "file" /\ way # "file"
  BY DEF RcInit, Reading
<1>2. HistoryOK
  <2>1. read \in Seq(RcLine)
    BY DEF RcInit
  <2>2. \A s \in MapLevels : before.map[s] = Empty
    BY DEF RcInit, NoMaps
  <2> QED BY <1>1, <2>1, <2>2 DEF HistoryOK, RcInit, Empty
<1>3. AdcRead
  BY DEF AdcRead, RcInit, NoMaps, MapLevels, Empty
<1> QED
  BY <1>1, <1>2, <1>3, RcTypeInit
     DEF RcInv, ReadInv, KeysRead, FieldsRead, LeftBehind, FactoryRead, DriverAsWritten

\* A run begins without a line.
LEMMA BeginKeeps == RcInv /\ (BeginFile \/ BeginDefault) => RcInv'
<1> SUFFICES ASSUME RcInv, BeginFile \/ BeginDefault PROVE RcInv'
  OBVIOUS
<1>1. RcTypeOK'
  BY BeginTyped DEF RcInv
<1>2. /\ rcPc = "exit" /\ read' = <<>> /\ before' = [param |-> devParam, map |-> devMap]
      /\ UNCHANGED <<level, factory, ircode, keycode, adc_move_enable, devParam, devMap>>
      /\ rcPc' # "exit" /\ (rcPc' = "file" => way' = "file")
      /\ maps = NoMaps /\ remote = Blank /\ factory = NoFactory /\ ircode = 0
      /\ adc_move_enable = 0
  BY DEF BeginFile, BeginDefault, Begin, rcDev, RcInv, HistoryOK
<1>3. HistoryOK'
  <2>1. \A s \in MapLevels : \A c \in DOMAIN devMap[s] : c \in Half
    BY DEF RcInv, RcTypeOK, Limit, Half
  <2> QED BY <1>2, <2>1 DEF HistoryOK
<1>4. Places' = {}
  BY <1>2 DEF Places
<1>5. Reading' => maps' = NoMaps /\ remote' = Blank
  BY <1>2 DEF Reading, BeginFile, BeginDefault
<1>6. KeysRead'
  BY <1>4, <1>5 DEF KeysRead, AsWritten, NoMaps, Empty
<1>7. AdcRead'
  <2>1. maps'["adc"] = Empty
    BY <1>2 DEF BeginFile, BeginDefault, NoMaps, MapLevels
  <2> QED BY <2>1 DEF AdcRead, Empty
<1>8. FieldsRead'
  BY <1>4, <1>5 DEF FieldsRead, FieldAsRead, Blank
<1>9. LeftBehind' /\ FactoryRead'
  BY <1>2, <1>4 DEF LeftBehind, FactoryRead, NoFactory
<1> QED
  BY <1>1, <1>2, <1>3, <1>6, <1>7, <1>8, <1>9 DEF RcInv, ReadInv, DriverAsWritten

-----------------------------------------------------------------------------
(* A line is read                                                          *)

LineOf(name, value) == [level |-> level, name |-> name, value |-> value]

\* The history after a line.
LEMMA ReadsHistory ==
  ASSUME RcInv, NEW name, NEW value, Reads(name, value), LineOf(name, value) \in RcLine
  PROVE  HistoryOK' /\ Reading' /\ read \in Seq(RcLine) /\ read' = Append(read, LineOf(name, value))
<1>1. /\ rcPc = "file" /\ rcPc' = "file" /\ way' = "file" /\ before' = before
      /\ devParam' = devParam /\ devMap' = devMap /\ read \in Seq(RcLine)
  BY DEF RcInv, HistoryOK, Reads, rcDev
<1>2. read' = Append(read, LineOf(name, value))
  BY DEF Reads, LineOf
<1>3. read' \in Seq(RcLine)
  BY <1>1, <1>2
<1> QED BY <1>1, <1>2, <1>3 DEF RcInv, HistoryOK, Reading

\* One map over one more line.
LEMMA KeysOneMore ==
  ASSUME RcInv, NEW name, NEW value, Reads(name, value), LineOf(name, value) \in RcLine,
         NEW s \in MapLevels, NEW c \in Half,
         LineAssigns(LineOf(name, value), s, c) =>
           c \in DOMAIN maps'[s] /\ maps'[s][c] = Kept(s, value),
         ~LineAssigns(LineOf(name, value), s, c) =>
           /\ (c \in DOMAIN maps'[s]) <=> (c \in DOMAIN maps[s])
           /\ c \in DOMAIN maps[s] => maps'[s][c] = maps[s][c]
  PROVE  AsWritten(maps[s], Empty, s, c)'
<1> DEFINE line == LineOf(name, value)
           last == Len(read) + 1
<1>1. read \in Seq(RcLine) /\ read' = Append(read, line) /\ line \in RcLine
  BY ReadsHistory
<1>2. last \in Nat
  BY <1>1
<1>3. PICK k \in Nat : k = last
  BY <1>2
<1>4. /\ k \in Places' /\ read'[k] = line /\ Places \subseteq Places'
      /\ \A n \in Places : read'[n] = read[n]
  BY <1>1, <1>3, AppendPlaces, Zenon
<1>5. /\ LineAssigns(line, s, c) => LastAssigns(k, s, c)'
      /\ ~LineAssigns(line, s, c) =>
           /\ \A n \in Places : LastAssigns(n, s, c) => LastAssigns(n, s, c)'
           /\ (\A n \in Places : ~Assigns(n, s, c)) => \A n \in Places' : ~Assigns(n, s, c)'
  BY <1>1, <1>3, AppendAssigns, Zenon DEF Levels
<1>6. AsWritten(maps[s], Empty, s, c)
  BY DEF RcInv, ReadInv, KeysRead, Reading, Reads, HistoryOK
<1>7. line.value = value
  BY DEF LineOf
<1> HIDE DEF line, last
<1>8. DOMAIN Empty = {}
  BY DEF Empty
<1>9. CASE LineAssigns(line, s, c)
  BY <1>4, <1>5, <1>7, <1>9 DEF AsWritten, line
<1>10. CASE ~LineAssigns(line, s, c)
  <2>1. CASE \E n \in Places : LastAssigns(n, s, c) /\ c \in DOMAIN maps[s]
                               /\ maps[s][c] = Kept(s, read[n].value)
    BY <1>4, <1>5, <1>10, <2>1 DEF AsWritten, line
  <2>2. CASE (\A n \in Places : ~Assigns(n, s, c)) /\ c \notin DOMAIN maps[s]
    BY <1>5, <1>8, <1>10, <2>2 DEF AsWritten, line
  <2> QED BY <1>6, <1>8, <2>1, <2>2 DEF AsWritten
<1> QED BY <1>9, <1>10

\* One field over one more line.
LEMMA FieldsOneMore ==
  ASSUME RcInv, NEW name, NEW value, Reads(name, value), LineOf(name, value) \in RcLine,
         NEW i \in Items,
         remote'[i] = IF level = "config" /\ name = config_item[i] THEN value ELSE remote[i]
  PROVE  FieldAsRead(i)'
<1> DEFINE line == LineOf(name, value)
           last == Len(read) + 1
           item == config_item[i]
           sets == line.level = "config" /\ line.name = item
<1>1. read \in Seq(RcLine) /\ read' = Append(read, line) /\ line \in RcLine
  BY ReadsHistory
<1>2. last \in Nat
  BY <1>1
<1>3. PICK k \in Nat : k = last
  BY <1>2
<1>4. /\ k \in Places' /\ read'[k] = line /\ Places \subseteq Places'
      /\ \A n \in Places : read'[n] = read[n]
  BY <1>1, <1>3, AppendPlaces, Zenon
<1>5. /\ sets => LastSets(k, item)'
      /\ ~sets =>
           /\ \A n \in Places : LastSets(n, item) => LastSets(n, item)'
           /\ (\A n \in Places : ~SetsName(n, item)) => \A n \in Places' : ~SetsName(n, item)'
  BY <1>1, <1>3, AppendSets, Zenon
<1>6. FieldAsRead(i)
  BY DEF RcInv, ReadInv, FieldsRead, Reading, Reads, HistoryOK
<1>7. line.value = value /\ (sets <=> level = "config" /\ name = item)
  BY DEF LineOf
<1> HIDE DEF line, last, sets
<1>9. CASE sets
  BY <1>4, <1>5, <1>7, <1>9 DEF FieldAsRead
<1>10. CASE ~sets
  BY <1>4, <1>5, <1>6, <1>7, <1>10 DEF FieldAsRead
<1> QED BY <1>9, <1>10

AllSound == \A n \in Places : Sound(n)
SomeEntry == \E n \in Places : read[n].level \in MapLevels

\* What the factory level leans on, over one more line.
LEMMA SoundOneMore ==
  ASSUME read \in Seq(RcLine), NEW line \in RcLine, read' = Append(read, line)
  PROVE  /\ AllSound' => /\ AllSound
                         /\ line.level \in MapLevels =>
                              /\ line.name.lo <= Limit(line.level)
                              /\ Kept(line.level, line.value) # 0
         /\ SomeEntry' => SomeEntry \/ line.level \in MapLevels
         /\ FactorySound' => /\ AllSound' /\ FactorySound
                             /\ line.level = "factory" => SomeEntry
<1>1. Len(read) + 1 \in Nat
  OBVIOUS
<1>2. PICK k \in Nat : k = Len(read) + 1
  BY <1>1
<1>3. /\ k \in Places' /\ read'[k] = line /\ Places \subseteq Places'
      /\ \A n \in Places' : n \in Places \/ n = k
      /\ \A n \in Places : read'[n] = read[n] /\ n < k
  BY <1>2, AppendPlaces, Zenon
<1>4. \A n \in Places : Sound(n)' <=> Sound(n)
  BY <1>3 DEF Sound
<1>5. Sound(k)' => (line.level \in MapLevels => /\ line.name.lo <= Limit(line.level)
                                                /\ Kept(line.level, line.value) # 0)
  BY <1>3 DEF Sound
<1>6. AllSound' => AllSound /\ Sound(k)'
  BY <1>3, <1>4 DEF AllSound
<1>7. SomeEntry' => SomeEntry \/ line.level \in MapLevels
  BY <1>3 DEF SomeEntry
<1>8. ASSUME FactorySound' PROVE AllSound' /\ FactorySound /\ (line.level = "factory" => SomeEntry)
  <2>1. AllSound'
    BY <1>8 DEF FactorySound, AllSound
  <2>2. ASSUME NEW n \in Places, Leans(n)' PROVE Leans(n)
    <3>1. PICK m \in Places' : m < n /\ read'[m].level \in MapLevels
      BY <2>2 DEF Leans
    <3>2. m \in Places
      BY <1>3, <2>2, <3>1 DEF Places
    <3> QED BY <1>3, <3>1, <3>2 DEF Leans
  <2>3. FactorySound
    BY <1>3, <1>4, <1>8, <2>2 DEF FactorySound
  <2>4. ASSUME line.level = "factory" PROVE SomeEntry
    <3>1. Leans(k)'
      BY <1>3, <1>8, <2>4 DEF FactorySound
    <3>2. PICK m \in Places' : m < k /\ read'[m].level \in MapLevels
      BY <3>1 DEF Leans
    <3>3. m \in Places
      BY <1>3, <3>2 DEF Places
    <3> QED BY <1>3, <3>2, <3>3 DEF SomeEntry
  <2> QED BY <2>1, <2>3, <2>4
<1> QED BY <1>5, <1>6, <1>7, <1>8

\* The factory codes over one more line.
LEMMA FactoryOneMore ==
  ASSUME RcInv, NEW name, NEW value, Reads(name, value), LineOf(name, value) \in RcLine,
         level = "factory" /\ name.lo \in FactoryIndex =>
           /\ FactorySound' => factory'[name.lo] = value.lo
           /\ \A x \in FactoryIndex : x # name.lo => factory'[x] = factory[x],
         level # "factory" => factory' = factory,
         level = "factory" => name.lo \in FactoryIndex
  PROVE  FactoryRead'
<1> DEFINE line == LineOf(name, value)
<1>1. read \in Seq(RcLine) /\ read' = Append(read, line) /\ line \in RcLine
  BY ReadsHistory
<1>2. Len(read) + 1 \in Nat
  BY <1>1
<1>3. PICK k \in Nat : k = Len(read) + 1
  BY <1>2
<1>4. /\ k \in Places' /\ read'[k] = line /\ Places \subseteq Places'
      /\ \A n \in Places' : n \in Places \/ n = k
      /\ \A n \in Places : read'[n] = read[n]
  BY <1>1, <1>3, AppendPlaces, Zenon
<1>5. line.level = level /\ line.name = name /\ line.value = value
  BY DEF LineOf
<1>6. FactorySound' => FactorySound
  BY <1>1, SoundOneMore, Zenon
<1> HIDE DEF line
<1>7. SUFFICES ASSUME NEW x \in FactoryIndex
               PROVE  /\ (\A n \in Places' : ~Assigns(n, "factory", x)') => factory'[x] = 0
                      /\ FactorySound' => \A n \in Places' :
                           LastAssigns(n, "factory", x)' => factory'[x] = read'[n].value.lo
  BY DEF FactoryRead
<1>8. /\ (\A n \in Places : ~Assigns(n, "factory", x)) => factory[x] = 0
      /\ FactorySound => \A n \in Places :
           LastAssigns(n, "factory", x) => factory[x] = read[n].value.lo
  BY DEF RcInv, ReadInv, FactoryRead, Reading, Reads, HistoryOK
<1>9. \A n \in Places : Assigns(n, "factory", x)' <=> Assigns(n, "factory", x)
  BY <1>4 DEF Assigns
<1>10. Assigns(k, "factory", x)' <=> level = "factory" /\ name.lo = x
  BY <1>4, <1>5 DEF Assigns, Limit, Stores, FactoryIndex
<1>11. CASE level = "factory" /\ name.lo = x
  <2>1. \A n \in Places' : LastAssigns(n, "factory", x)' => n = k
    <3> SUFFICES ASSUME NEW n \in Places', LastAssigns(n, "factory", x)', n # k PROVE FALSE
      OBVIOUS
    <3>1. k > n
      BY <1>1, <1>3, <1>4 DEF Places
    <3> QED BY <1>4, <1>10, <1>11, <3>1 DEF LastAssigns
  <2>2. Assigns(k, "factory", x)'
    BY <1>10, <1>11
  <2>3. FactorySound' => factory'[x] = read'[k].value.lo
    BY <1>4, <1>5, <1>11
  <2> QED BY <1>4, <2>1, <2>2, <2>3
<1>12. CASE ~(level = "factory" /\ name.lo = x)
  <2>1. factory'[x] = factory[x]
    BY <1>12
  <2>2. \A n \in Places' : LastAssigns(n, "factory", x)' => n \in Places /\ LastAssigns(n, "factory", x)
    BY <1>4, <1>9, <1>10, <1>12 DEF LastAssigns
  <2>3. (\A n \in Places' : ~Assigns(n, "factory", x)') => \A n \in Places : ~Assigns(n, "factory", x)
    BY <1>4, <1>9
  <2> QED BY <1>4, <1>6, <1>8, <2>1, <2>2, <2>3
<1> QED BY <1>11, <1>12

\* No driver hears of a line.
LEMMA ReadsSilent ==
  ASSUME NEW name, NEW value, Reads(name, value), RcInv PROVE DriverAsWritten' /\ rcPc = "file"
BY DEF Reads, DriverAsWritten

LEMMA FieldKeeps ==
  ASSUME RcInv, NEW name \in Names, NEW value \in Words, remote_config_set(name, value)
  PROVE  RcInv'
<1> DEFINE line == LineOf(name, value)
<1>1. /\ Reads(name, value) /\ level = "config"
      /\ UNCHANGED <<level, maps, factory, ircode, keycode, adc_move_enable>>
  BY DEF remote_config_set
<1>2. line \in RcLine /\ line.level = "config"
  BY <1>1 DEF RcLine, LineOf
<1>3. HistoryOK' /\ read \in Seq(RcLine) /\ read' = Append(read, line)
  BY <1>1, <1>2, ReadsHistory
<1>4. RcTypeOK'
  BY FieldTyped DEF RcInv
<1>5. \A s \in MapLevels, c \in Half : ~LineAssigns(line, s, c)
  BY <1>2 DEF LineAssigns, MapLevels
<1>6. KeysRead'
  <2> SUFFICES ASSUME NEW s \in MapLevels, NEW c \in Half PROVE AsWritten(maps[s], Empty, s, c)'
    BY DEF KeysRead
  <2> QED BY <1>1, <1>2, <1>5, KeysOneMore
<1>7. FieldsRead'
  <2> SUFFICES ASSUME NEW i \in Items PROVE FieldAsRead(i)'
    BY DEF FieldsRead
  <2>1. remote'[i] = IF level = "config" /\ name = config_item[i] THEN value ELSE remote[i]
    BY <1>1 DEF remote_config_set
  <2> QED BY <1>1, <1>2, <2>1, FieldsOneMore
<1>8. FactoryRead'
  BY <1>1, <1>2, FactoryOneMore
<1>9. /\ AllSound' => AllSound
      /\ SomeEntry' => SomeEntry \/ line.level \in MapLevels
  BY <1>2, <1>3, SoundOneMore
<1>10. LeftBehind'
  BY <1>1, <1>2, <1>9, ReadsSilent
     DEF RcInv, ReadInv, LeftBehind, AllSound, SomeEntry, MapLevels
<1>11. AdcRead'
  BY <1>1 DEF RcInv, ReadInv, AdcRead
<1> QED
  BY <1>1, <1>3, <1>4, <1>6, <1>7, <1>8, <1>10, <1>11, ReadsSilent DEF RcInv, ReadInv

LEMMA EntryKeeps ==
  ASSUME RcInv, NEW code \in Codes, NEW value \in Words, ReadEntry(code, value)
  PROVE  RcInv'
<1> DEFINE line == LineOf(code, value)
<1>1. /\ Reads(code, value) /\ level \in MapLevels /\ UNCHANGED <<level, remote, factory>>
      /\ level # "config" /\ level # "factory"
  BY DEF ReadEntry, MapLevels
<1>2. line \in RcLine /\ line.level = level /\ line.name = code /\ line.value = value
  BY <1>1 DEF RcLine, LineOf, Levels
<1>3. HistoryOK' /\ read \in Seq(RcLine) /\ read' = Append(read, line)
  BY <1>1, <1>2, ReadsHistory
<1>4. RcTypeOK'
  BY EntryTyped DEF RcInv
<1>5. code.lo \in Half
  BY WordTyped, WordAssumption
<1> HIDE DEF line
<1>6. KeysRead'
  <2> SUFFICES ASSUME NEW s \in MapLevels, NEW c \in Half PROVE AsWritten(maps[s], Empty, s, c)'
    BY DEF KeysRead
  <2>1. DOMAIN maps = MapLevels
    BY DEF RcInv, RcTypeOK
  <2>2. CASE LineAssigns(line, s, c)
    <3>1. s = level /\ c = code.lo /\ ~(code.lo > Limit(level)) /\ Stores(level, value)
      BY <1>2, <1>5, <2>2 DEF LineAssigns, Limit, Half
    <3>2. maps' = [maps EXCEPT ![level] = Put(maps[level], code.lo, Kept(level, value))]
      BY <3>1 DEF ReadEntry
    <3>3. maps'[s] = Put(maps[s], c, Kept(s, value))
      BY <2>1, <3>1, <3>2
    <3>4. c \in DOMAIN maps'[s] /\ maps'[s][c] = Kept(s, value)
      BY <3>3 DEF Put
    <3> QED BY <1>1, <1>2, <2>2, <3>4, KeysOneMore DEF line
  <2>3. CASE ~LineAssigns(line, s, c)
    <3>1. CASE maps'[s] = maps[s]
      BY <1>1, <1>2, <2>3, <3>1, KeysOneMore DEF line
    <3>2. CASE maps'[s] # maps[s]
      <4>1. ~(code.lo > Limit(level)) /\ Stores(level, value)
        BY <3>2 DEF ReadEntry
      <4>2. maps' = [maps EXCEPT ![level] = Put(maps[level], code.lo, Kept(level, value))]
        BY <4>1 DEF ReadEntry
      <4>3. s = level
        BY <2>1, <3>2, <4>2
      <4>4. c # code.lo
        BY <1>2, <1>5, <2>3, <4>1, <4>3 DEF LineAssigns, Limit, Half
      <4>5. maps'[s] = Put(maps[s], code.lo, Kept(s, value))
        BY <2>1, <4>2, <4>3
      <4>6. /\ (c \in DOMAIN maps'[s]) <=> (c \in DOMAIN maps[s])
            /\ c \in DOMAIN maps[s] => maps'[s][c] = maps[s][c]
        BY <4>4, <4>5 DEF Put
      <4> QED BY <1>1, <1>2, <2>3, <4>6, KeysOneMore DEF line
    <3> QED BY <3>1, <3>2
  <2> QED BY <2>2, <2>3
<1>7. FieldsRead'
  <2> SUFFICES ASSUME NEW i \in Items PROVE FieldAsRead(i)'
    BY DEF FieldsRead
  <2> QED BY <1>1, <1>2, FieldsOneMore DEF line
<1>8. FactoryRead'
  BY <1>1, <1>2, FactoryOneMore DEF line
<1>9. AllSound' => AllSound /\ code.lo <= Limit(level) /\ Kept(level, value) # 0
  BY <1>1, <1>2, <1>3, SoundOneMore
<1>10. LeftBehind'
  <2> SUFFICES ASSUME AllSound' PROVE ircode' <= 255 /\ keycode' # 0
    BY DEF LeftBehind, AllSound
  <2>1. ~(code.lo > Limit(level)) /\ keycode' = Kept(level, value)
    BY <1>5, <1>9 DEF ReadEntry, Limit, Half
  <2>2. ircode <= 255
    BY <1>9, <1>1, ReadsSilent DEF RcInv, ReadInv, LeftBehind, AllSound
  <2>3. ircode' <= 255
    BY <1>5, <1>9, <2>2 DEF ReadEntry, Limit, Half
  <2> QED BY <1>9, <2>1, <2>3
<1>11. AdcRead'
  <2> SUFFICES ASSUME adc_move_enable' = 0 PROVE DOMAIN maps'["adc"] = {}
    BY DEF AdcRead
  <2>1. adc_move_enable = 0 /\ (maps'["adc"] = maps["adc"])
    <3>1. CASE code.lo > Limit(level)
      BY <3>1 DEF ReadEntry
    <3>2. CASE ~(code.lo > Limit(level))
      <4>1. level # "adc" /\ adc_move_enable = 0
        BY <3>2 DEF ReadEntry
      <4>2. \A v : [maps EXCEPT ![level] = v]["adc"] = maps["adc"]
        BY <4>1 DEF RcInv, RcTypeOK, MapLevels
      <4> QED BY <3>2, <4>1, <4>2 DEF ReadEntry
    <3> QED BY <3>1, <3>2
  <2> QED BY <2>1 DEF RcInv, ReadInv, AdcRead
<1> QED
  BY <1>1, <1>3, <1>4, <1>6, <1>7, <1>8, <1>10, <1>11, ReadsSilent DEF RcInv, ReadInv

LEMMA FactoryKeeps ==
  ASSUME RcInv, NEW code \in Codes, NEW value \in Words, ReadFactory(code, value)
  PROVE  RcInv'
<1> DEFINE line == LineOf(code, value)
<1>1. /\ Reads(code, value) /\ level = "factory" /\ code.lo \in FactoryIndex
      /\ UNCHANGED <<level, remote, maps, ircode, keycode, adc_move_enable>>
  BY DEF ReadFactory
<1>2. line \in RcLine /\ line.level = "factory" /\ line.level \notin MapLevels
  BY <1>1 DEF RcLine, LineOf, Levels, MapLevels
<1>3. HistoryOK' /\ read \in Seq(RcLine) /\ read' = Append(read, line)
  BY <1>1, <1>2, ReadsHistory
<1>4. RcTypeOK'
  BY FactoryTyped DEF RcInv
<1>5. \A s \in MapLevels, c \in Half : ~LineAssigns(line, s, c)
  BY <1>2 DEF LineAssigns
<1>6. KeysRead'
  <2> SUFFICES ASSUME NEW s \in MapLevels, NEW c \in Half PROVE AsWritten(maps[s], Empty, s, c)'
    BY DEF KeysRead
  <2> QED BY <1>1, <1>2, <1>5, KeysOneMore
<1>7. FieldsRead'
  <2> SUFFICES ASSUME NEW i \in Items PROVE FieldAsRead(i)'
    BY DEF FieldsRead
  <2> QED BY <1>1, <1>2, FieldsOneMore
<1>8. /\ AllSound' => AllSound
      /\ SomeEntry' => SomeEntry
      /\ FactorySound' => AllSound /\ SomeEntry
  BY <1>2, <1>3, SoundOneMore
<1>9. AllSound => ircode <= 255 /\ (SomeEntry => keycode # 0)
  BY <1>1, ReadsSilent DEF RcInv, ReadInv, LeftBehind, AllSound, SomeEntry
<1>10. LeftBehind'
  BY <1>1, <1>8, <1>9 DEF LeftBehind, AllSound, SomeEntry
<1>11. /\ FactorySound' => factory'[code.lo] = value.lo
       /\ \A x \in FactoryIndex : x # code.lo => factory'[x] = factory[x]
  BY <1>1, <1>8, <1>9 DEF ReadFactory, RcInv, RcTypeOK
<1>12. FactoryRead'
  BY <1>1, <1>2, <1>11, FactoryOneMore
<1>13. AdcRead'
  BY <1>1 DEF RcInv, ReadInv, AdcRead
<1> QED
  BY <1>1, <1>3, <1>4, <1>6, <1>7, <1>10, <1>12, <1>13, ReadsSilent DEF RcInv, ReadInv

-----------------------------------------------------------------------------
(* What is sent                                                            *)

\* The parameter of an item gets that item's value.
LEMMA ItemSent ==
  ASSUME set_config, NEW i \in Items
  PROVE  devParam'[remote_ioc_table[i]] =
           IF Shifted[i] = Unset THEN devParam[remote_ioc_table[i]] ELSE Shifted[i]
<1> DEFINE p == remote_ioc_table[i]
<1>1. p \in Params
  BY DEF Params
<1>2. (CHOOSE j \in Items : remote_ioc_table[j] = p) = i
  <2>1. \A j \in Items : remote_ioc_table[j] = p => j = i
    BY TableOnce
  <2> QED BY <2>1
<1> DEFINE j == CHOOSE k \in Items : remote_ioc_table[k] = p
           sent(q, k) == IF Shifted[k] = Unset THEN devParam[q] ELSE Shifted[k]
<1>3. devParam' = [q \in Params |-> sent(q, CHOOSE k \in Items : remote_ioc_table[k] = q)]
  BY DEF set_config
<1> HIDE DEF sent
<1>4. devParam'[p] = sent(p, j)
  BY <1>1, <1>3, Zenon
<1>5. sent(p, j) = sent(p, i)
  BY <1>2
<1> QED BY <1>4, <1>5 DEF sent

LEMMA ParamsSent ==
  ASSUME RcTypeOK, FieldsRead, Reading, read \in Seq(RcLine), set_config,
         before.param = devParam, UNCHANGED <<read, before>>
  PROVE  ParamsAsWritten'
<1> SUFFICES ASSUME NEW i \in Items
             PROVE  \/ \E n \in Places :
                         /\ LastSets(n, config_item[i])
                         /\ devParam'[remote_ioc_table[i]] =
                              IF remote_ioc_table[i] = CustomCode THEN W(0, read[n].value.hi)
                              ELSE IF read[n].value = Unset THEN before.param[remote_ioc_table[i]]
                              ELSE read[n].value
                    \/ /\ \A n \in Places : ~SetsName(n, config_item[i])
                       /\ devParam'[remote_ioc_table[i]] =
                            IF remote_ioc_table[i] = CustomCode THEN W(0, 65535)
                            ELSE before.param[remote_ioc_table[i]]
  BY DEF ParamsAsWritten, Places, LastSets, SetsName
<1> DEFINE p == remote_ioc_table[i]
<1>1. devParam'[p] = IF Shifted[i] = Unset THEN devParam[p] ELSE Shifted[i]
  BY ItemSent
<1>2. Shifted[i] = IF p = CustomCode THEN W(0, remote[i].hi) ELSE remote[i]
  BY CodeInPlace DEF Shifted
<1>3. \A h : W(0, h) # Unset
  BY DEF W, Unset
<1>4. Unset.hi = 65535
  BY DEF W, Unset
<1>5. FieldAsRead(i)
  BY DEF FieldsRead
<1> HIDE DEF p
<1>6. devParam'[p] = IF p = CustomCode THEN W(0, remote[i].hi)
                     ELSE IF remote[i] = Unset THEN before.param[p] ELSE remote[i]
  BY <1>1, <1>2, <1>3
<1> QED BY <1>4, <1>5, <1>6 DEF FieldAsRead, p

LEMMA MapsSent ==
  ASSUME RcInv, Reading, Send
  PROVE  MapsAsWritten'
<1>1. /\ devMap' = [s \in MapLevels |-> SentMap(s)] /\ UNCHANGED <<read, before, kp>>
      /\ before.map = devMap
  BY DEF Send, RcInv, HistoryOK, Reading
<1>2. Empty = Empty' /\ DOMAIN Empty = {}
  BY DEF Empty
<1> SUFFICES ASSUME NEW s \in MapLevels, NEW c \in Mentioned(s)'
             PROVE  IF s = "adc" /\ ~kp THEN devMap'[s] = before.map[s]
                    ELSE AsWritten(devMap[s], IF s = "key" THEN Empty ELSE before.map[s], s, c)'
  BY <1>1 DEF MapsAsWritten
<1>3. c \in Half
  <2>1. \A d \in DOMAIN devMap'[s] : d \in Half
    BY SendTyped DEF RcInv, RcTypeOK, Limit, Half
  <2>2. \A d \in DOMAIN before.map[s] : d \in Half
    BY DEF RcInv, HistoryOK
  <2>3. \A n \in Places : read[n].level = s => read[n].name.lo \in Half
    <3> SUFFICES ASSUME NEW n \in Places, read[n].level = s PROVE read[n].name.lo \in Half
      OBVIOUS
    <3>1. read[n] \in RcLine
      BY DEF RcInv, HistoryOK, Places
    <3>2. read[n].name \in Codes
      BY <3>1 DEF RcLine, MapLevels
    <3> QED BY <3>2, WordAssumption, WordTyped
  <2> QED BY <1>1, <2>1, <2>2, <2>3 DEF Mentioned, Places
<1>4. AsWritten(maps[s], Empty, s, c)
  BY <1>3 DEF RcInv, ReadInv, KeysRead
<1>5. devMap'[s] = SentMap(s)
  BY <1>1
<1>6. CASE s = "adc" /\ ~kp
  BY <1>1, <1>5, <1>6 DEF SentMap
<1>7. ASSUME NEW g, devMap'[s] = Over(g, maps[s]),
             g = IF s = "key" THEN Empty ELSE before.map[s]
      PROVE  AsWritten(devMap[s], IF s = "key" THEN Empty ELSE before.map[s], s, c)'
  <2>1. CASE \E n \in Places : LastAssigns(n, s, c) /\ c \in DOMAIN maps[s]
                               /\ maps[s][c] = Kept(s, read[n].value)
    BY <1>1, <1>7, <2>1 DEF AsWritten, Over, LastAssigns, Assigns, Places
  <2>2. CASE (\A n \in Places : ~Assigns(n, s, c)) /\ c \notin DOMAIN maps[s]
    BY <1>1, <1>2, <1>7, <2>2 DEF AsWritten, Over, Assigns, Places
  <2> QED BY <1>2, <1>4, <2>1, <2>2 DEF AsWritten
<1>8. CASE s = "key"
  BY <1>5, <1>7, <1>8 DEF SentMap
<1>9. CASE s \notin {"key", "adc"} \/ (s = "adc" /\ kp /\ adc_move_enable # 0)
  BY <1>1, <1>5, <1>7, <1>9 DEF SentMap
<1>10. CASE s = "adc" /\ kp /\ adc_move_enable = 0
  <2>1. DOMAIN maps[s] = {}
    BY <1>10 DEF RcInv, ReadInv, AdcRead
  <2>2. devMap'[s] = before.map[s]
    BY <1>1, <1>5, <1>10 DEF SentMap
  <2>3. \A n \in Places : ~Assigns(n, s, c)
    BY <1>4, <2>1 DEF AsWritten
  <2> QED BY <1>1, <1>10, <2>2, <2>3 DEF AsWritten, Assigns, Places
<1> QED BY <1>6, <1>8, <1>9, <1>10

LEMMA SendKeeps == RcInv /\ Send => RcInv'
<1> SUFFICES ASSUME RcInv, Send PROVE RcInv'
  OBVIOUS
<1>1. RcTypeOK'
  BY SendTyped DEF RcInv
<1>2. /\ rcPc = "send" /\ rcPc' = "exit" /\ UNCHANGED <<level, ircode, keycode, way, read, before>>
      /\ remote' = Blank /\ maps' = NoMaps /\ factory' = NoFactory /\ adc_move_enable' = 0
      /\ set_config /\ devFactory' = factory
  BY DEF Send
<1>3. HistoryOK'
  BY <1>2 DEF RcInv, HistoryOK
<1>4. ReadInv'
  BY <1>2 DEF ReadInv, KeysRead, FieldsRead, FactoryRead, LeftBehind, AdcRead, Reading, NoMaps,
              MapLevels, Empty
<1>5. DriverAsWritten'
  <2> SUFFICES ASSUME way = "file" PROVE MapsAsWritten' /\ ParamsAsWritten' /\ FactoryAsWritten'
    BY <1>2 DEF DriverAsWritten
  <2>1. Reading
    BY <1>2 DEF Reading
  <2>2. ParamsAsWritten'
    BY <1>2, <2>1, ParamsSent DEF RcInv, ReadInv, HistoryOK
  <2>3. FactoryAsWritten'
    BY <1>2, <2>1 DEF RcInv, ReadInv, FactoryRead, FactoryAsWritten, FactorySound, Sound, Leans,
                      LastAssigns, Assigns, Places
  <2> QED BY <2>1, <2>2, <2>3, MapsSent
<1> QED BY <1>1, <1>3, <1>4, <1>5 DEF RcInv

-----------------------------------------------------------------------------
(* The theorem                                                             *)

\* Lines that begin or end a level, and the end of the file, store nothing.
LEMMA LevelKeeps ==
  ASSUME RcInv, NEW s \in Levels \ {"config"}, BeginLevel(s) \/ EndLevel \/ EndOfFile
  PROVE  RcInv'
<1>1. RcTypeOK'
  <2>1. BeginLevel(s) \/ EndLevel => ReadLine
    BY DEF ReadLine
  <2> QED BY <2>1, RcTypeNext DEF RcInv, RcNext
<1>2. /\ rcPc = "file" /\ rcPc' \in {"file", "send"}
      /\ UNCHANGED <<remote, maps, factory, adc_move_enable, rcDev, way, read, before>>
      /\ rcPc' = "file" => UNCHANGED <<ircode, keycode>>
      /\ rcPc' = "send" => ircode' = 0
  BY DEF BeginLevel, EndLevel, EndOfFile, rcData
<1>3. HistoryOK'
  BY <1>2 DEF RcInv, HistoryOK, rcDev
<1>4. KeysRead' /\ AdcRead'
  BY <1>2 DEF RcInv, ReadInv, KeysRead, AdcRead, Reading, AsWritten, LastAssigns, Assigns, Places
<1>5. FieldsRead'
  BY <1>2 DEF RcInv, ReadInv, FieldsRead, FieldAsRead, Reading, LastSets, SetsName, Places
<1>6. FactoryRead'
  BY <1>2 DEF RcInv, ReadInv, FactoryRead, Reading, LastAssigns, Assigns, FactorySound, Sound,
              Leans, Places
<1>7. LeftBehind'
  BY <1>2 DEF RcInv, ReadInv, LeftBehind, Sound, Places
<1>8. DriverAsWritten'
  BY <1>2 DEF DriverAsWritten
<1> QED BY <1>1, <1>3, <1>4, <1>5, <1>6, <1>7, <1>8 DEF RcInv, ReadInv

LEMMA RcInvNext == RcInv /\ [RcNext]_rcVars => RcInv'
<1> SUFFICES ASSUME RcInv, [RcNext]_rcVars PROVE RcInv'
  OBVIOUS
<1>1. CASE BeginFile \/ BeginDefault
  BY <1>1, BeginKeeps
<1>2. CASE ReadLine
  BY <1>2, LevelKeeps, FieldKeeps, EntryKeeps, FactoryKeeps DEF ReadLine, Levels
<1>3. CASE EndOfFile
  BY <1>3, LevelKeeps DEF Levels
<1>4. CASE Send
  BY <1>4, SendKeeps
<1>5. CASE UNCHANGED rcVars
  BY <1>5, RcTypeNext
     DEF rcVars, rcData, rcDev, RcInv, ReadInv, HistoryOK, KeysRead, AdcRead, FieldsRead, FieldAsRead,
         FactoryRead, LeftBehind, Reading, AsWritten, LastAssigns, Assigns, LastSets, SetsName,
         FactorySound, Sound, Leans, Places, DriverAsWritten, MapsAsWritten, ParamsAsWritten,
         FactoryAsWritten, Mentioned
<1> QED BY <1>1, <1>2, <1>3, <1>4, <1>5 DEF RcNext

\* The drivers hold what the last file says, whatever earlier runs have told
\* them: the last key for each code, the last value for each name, and the
\* factory codes if an entry in range stands before them (parsefile.c, main).
THEOREM DriverHoldsFile == RcSpec => []DriverAsWritten
<1>1. RcInv => DriverAsWritten
  BY DEF RcInv
<1> QED BY <1>1, RcInvInit, RcInvNext, PTL DEF RcSpec
=============================================================================
