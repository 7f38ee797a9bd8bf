----------------------------- MODULE RemoteConf -----------------------------
(***************************************************************************)
(* remotecfg: reads the file of a remote control by lines (parsefile.c)    *)
(* and hands what it found to the driver (irremote.c, config.c).  It runs  *)
(* once or again; what the driver was told before stays there, but for the *)
(* keys, which are reset.                                                  *)
(* A word of 32 bits is a pair of halves.  A map is a function on the codes*)
(* that have an entry: KEY_RESERVED in the maps of keys and 0xffff in those*)
(* of the mouse and the ADC keys mean that there is none.                  *)
(* Blank lines and comments do nothing.  A run that finds no memory, device*)
(* or file, or an option, ends without a word to the driver.  Each line is *)
(* as the files of this directory have them: an entry has a number and a   *)
(* value, an ADC key is 0 or 1 or out of range, a factory index below 20.  *)
(***************************************************************************)
EXTENDS Naturals, Sequences

CONSTANTS
  Names, Codes, Words,   \* the names, codes and values in the lines of the files
  default_key_map,       \* the keys without a file
  MaxLines,              \* lines with a value, of all files together (a bound)
  MaxRuns                \* how often remotecfg is run (a bound)

Half == {n \in Nat : n < 65536}
Word == [hi : Half, lo : Half]
W(h, l) == [hi |-> h, lo |-> l]
Unset == W(65535, 65535)

\* The fields of the struct behind its four pointers.
remote_config_t == <<
  "repeat_delay", "repeat_peroid", "work_mode", "mouse_speed", "repeat_enable",
  "factory_infcode", "factory_unfcode", "factory_code", "release_delay", "release_fdelay",
  "release_sdelay", "debug_enable", "bit_count", "tw_leader_act", "tw_bit0", "tw_bit1",
  "tw_bit2", "tw_bit3", "tw_repeat_leader", "reg_base_gen", "reg_control", "reg_leader_act",
  "reg_leader_idle", "reg_repeat_leader", "reg_bit0_time", "fn_key_scancode",
  "left_key_scancode", "right_key_scancode", "up_key_scancode", "down_key_scancode",
  "ok_key_scancode", "pageup_key_scancode", "pagedown_key_scancode">>

\* "these string must in this order and sync with struct remote_config_t"
config_item == <<
  "repeat_delay", "repeat_peroid", "work_mode", "mouse_speed", "repeat_enable",
  "factory_infcode", "factory_unfcode", "factory_code", "release_delay", "release_fdelay",
  "release_sdelay", "debug_enable", "bit_count", "tw_leader_act", "tw_bit0", "tw_bit1",
  "tw_bit2", "tw_bit3", "tw_repeat_leader", "reg_base_gen", "reg_control", "reg_leader_act",
  "reg_leader_idle", "reg_repeat_leader", "reg_bit0_time", "fn_key_scancode",
  "left_key_scancode", "right_key_scancode", "up_key_scancode", "down_key_scancode",
  "ok_key_scancode", "pageup_key_scancode", "pagedown_key_scancode">>

\* The parameters of the driver, by the numbers of their ioctls.
remote_ioc_table == <<6, 7, 10, 11, 8, 13, 12, 100, 99, 97, 98, 9, 107, 108, 109, 110, 129, 130,
  111, 101, 102, 103, 104, 105, 106, 131, 132, 133, 134, 135, 136, 137, 138>>

Items == 1 .. 33
Params == {remote_ioc_table[i] : i \in Items}
CustomCode == 100

MapLevels == {"key", "repeat", "mouse", "adc"}
Levels == MapLevels \cup {"config", "factory"}
FactoryIndex == 0 .. 19

ASSUME WordAssumption == Codes \subseteq Word /\ Words \subseteq Word

ASSUME KeyAssumption ==
  \A c \in DOMAIN default_key_map : c \in 0 .. 255 /\ default_key_map[c] \in Half \ {0}

ASSUME RemoteBounds == MaxLines \in Nat /\ MaxRuns \in Nat

VARIABLES
  rcPc,        \* "exit", "file" or "send"
  level,       \* parse_flag
  remote,      \* the fields of remote_config_t, by their places
  maps,        \* key_map, repeat_key_map, mouse_map, adc_map
  factory,     \* factory_customercode_map
  ircode, keycode, adc_move_enable,
  devParam, devMap, devFactory, devMove,   \* what the drivers hold; Unset: their own
  kp,          \* the device of the ADC keys is there
  rcRuns, rcLines,   \* count up to MaxRuns and MaxLines
  \* history
  way,         \* the run was with a "file" or with the "default"s
  read,        \* the lines of the file, each with its level
  before       \* what the drivers held when the run began

rcData == <<remote, maps, factory, ircode, keycode, adc_move_enable>>
rcDev == <<devParam, devMap, devFactory, devMove, kp>>
rcVars == <<rcPc, level, rcData, rcDev, rcRuns, rcLines, way, read, before>>

Empty == [c \in {} |-> 0]
NoMaps == [s \in MapLevels |-> Empty]
Blank == [i \in Items |-> Unset]
Put(f, c, v) == [d \in (DOMAIN f) \cup {c} |-> IF d = c THEN v ELSE f[d]]

NoFactory == [i \in FactoryIndex |-> 0]

RcInit ==
  /\ rcPc = "exit" /\ level = "config" /\ remote = Blank /\ maps = NoMaps
  /\ factory = NoFactory /\ ircode = 0 /\ keycode = 0 /\ adc_move_enable = 0
  /\ devParam = [p \in Params |-> Unset] /\ devMap = NoMaps
  /\ devFactory = NoFactory /\ devMove = 0 /\ kp \in BOOLEAN
  /\ rcRuns = 0 /\ rcLines = 0
  /\ way = "none" /\ read = <<>> /\ before = [param |-> devParam, map |-> NoMaps]

-----------------------------------------------------------------------------
(* main, up to the file                                                    *)

\* The values without a file, field by field.
DefaultField(name) ==
  CASE name = "factory_code"  -> W(16448, 1)     \* 0x40400001
    [] name \in {"work_mode", "repeat_enable", "debug_enable"} -> W(0, 1)
    [] name = "release_delay" -> W(0, 150)
    [] name = "reg_control"   -> W(15, 48704)    \* 0xfbe40
    [] name = "repeat_delay"  -> W(0, 250)
    [] name = "repeat_peroid" -> W(0, 33)
    [] OTHER -> Unset

Begin ==
  /\ rcPc = "exit" /\ rcRuns < MaxRuns
  /\ rcRuns' = rcRuns + 1
  /\ read' = <<>> /\ before' = [param |-> devParam, map |-> devMap]
  /\ UNCHANGED <<level, factory, ircode, keycode, adc_move_enable, rcDev, rcLines>>

BeginFile ==
  /\ Begin
  /\ rcPc' = "file" /\ way' = "file" /\ UNCHANGED <<remote, maps>>

BeginDefault ==
  /\ Begin
  /\ rcPc' = "send" /\ way' = "default"
  /\ remote' = [i \in Items |-> DefaultField(remote_config_t[i])]
  /\ maps' = [NoMaps EXCEPT !["key"] = default_key_map]

-----------------------------------------------------------------------------
(* get_config_from_file                                                    *)

Reads(name, value) ==
  /\ rcPc = "file" /\ rcLines < MaxLines
  /\ rcLines' = rcLines + 1
  /\ read' = Append(read, [level |-> level, name |-> name, value |-> value])
  /\ UNCHANGED <<rcPc, rcDev, rcRuns, way, before>>

\* "key_begin" and the like; a level ends with a line of its own.
BeginLevel(s) ==
  /\ rcPc = "file" /\ level = "config" /\ level' = s
  /\ UNCHANGED <<rcPc, rcData, rcDev, rcRuns, rcLines, way, read, before>>

EndLevel ==
  /\ rcPc = "file" /\ level # "config" /\ level' = "config"
  /\ UNCHANGED <<rcPc, rcData, rcDev, rcRuns, rcLines, way, read, before>>

\* A name that is not in the list is reported and left out.
remote_config_set(name, value) ==
  /\ level = "config" /\ Reads(name, value)
  /\ remote' = [i \in Items |-> IF config_item[i] = name THEN value ELSE remote[i]]
  /\ UNCHANGED <<level, maps, factory, ircode, keycode, adc_move_enable>>

\* The last code of a level; of the factory's, the last that has a place.
Limit(s) == IF s \in {"key", "repeat"} THEN 255 ELSE IF s = "factory" THEN 19 ELSE 3
Kept(s, value) == IF s \in {"key", "repeat"} THEN value.lo ELSE value.lo % 256
\* A key of 0 is not stored, and a mouse or ADC key of 0 is.
Stores(s, value) == s \in {"key", "repeat"} => Kept(s, value) # 0

\* The codes and keys are cut off to 16 bits.
ReadEntry(code, value) ==
  /\ level \in MapLevels /\ Reads(code, value)
  /\ level = "adc" => code.lo \notin {2, 3}
  /\ ircode' = IF level = "adc" THEN ircode ELSE code.lo
  /\ IF code.lo > Limit(level) THEN UNCHANGED <<maps, keycode, adc_move_enable>>
     ELSE /\ keycode' = Kept(level, value)
          /\ maps' = IF Stores(level, value)
                     THEN [maps EXCEPT ![level] = Put(@, code.lo, Kept(level, value))]
                     ELSE maps
          /\ adc_move_enable' = IF level = "adc" THEN 1 ELSE adc_move_enable
  /\ UNCHANGED <<level, remote, factory>>

\* The tests are of what the last entry of another level has left behind.
ReadFactory(index, value) ==
  /\ level = "factory" /\ Reads(index, value)
  /\ index.lo \in FactoryIndex
  /\ factory' = IF ircode <= 255 /\ keycode # 0
                THEN [factory EXCEPT ![index.lo] = value.lo] ELSE factory
  /\ UNCHANGED <<level, remote, maps, ircode, keycode, adc_move_enable>>

ReadLine ==
  \/ \E s \in Levels \ {"config"} : BeginLevel(s)
  \/ EndLevel
  \/ \E value \in Words :
       \/ \E name \in Names : remote_config_set(name, value)
       \/ \E code \in Codes : ReadEntry(code, value) \/ ReadFactory(code, value)

\* What get_config_from_file kept for itself goes with it.
EndOfFile ==
  /\ rcPc = "file" /\ rcPc' = "send"
  /\ level' = "config" /\ ircode' = 0 /\ keycode' = 0
  /\ UNCHANGED <<remote, maps, factory, adc_move_enable, rcDev, rcRuns, rcLines, way, read, before>>

-----------------------------------------------------------------------------
(* main, behind the file                                                   *)

\* factory_code >>= 16, whether or not it was set.
Shifted ==
  [i \in Items |-> IF remote_config_t[i] = "factory_code" THEN W(0, remote[i].hi) ELSE remote[i]]

set_config ==
  devParam' = [p \in Params |->
    LET i == CHOOSE j \in Items : remote_ioc_table[j] = p
    IN IF Shifted[i] = Unset THEN devParam[p] ELSE Shifted[i]]

Over(f, g) == [c \in (DOMAIN f) \cup (DOMAIN g) |-> IF c \in DOMAIN g THEN g[c] ELSE f[c]]

\* Mutant: the keys are not reset.
SentMapOnly(s) == IF s = "adc" /\ ~(kp /\ adc_move_enable # 0) THEN devMap[s]
                  ELSE Over(devMap[s], maps[s])

\* The code goes in the high half of a word and the key in the low one.
\* External: REMOTE_IOC_RESET_KEY_MAPPING forgets the keys.
SentMap(s) ==
  CASE s = "key" -> Over(Empty, maps[s])
    [] s = "adc" /\ ~(kp /\ adc_move_enable # 0) -> devMap[s]
    [] OTHER -> Over(devMap[s], maps[s])

\* Then the process ends, and the next one starts with nothing.
Send ==
  /\ rcPc = "send" /\ rcPc' = "exit"
  /\ remote' = Blank /\ maps' = NoMaps /\ factory' = NoFactory /\ adc_move_enable' = 0
  /\ set_config
  /\ devMap' = [s \in MapLevels |-> SentMap(s)]
  /\ devFactory' = factory
  /\ devMove' = IF kp THEN adc_move_enable ELSE devMove
  /\ UNCHANGED <<level, ircode, keycode, kp, rcRuns, rcLines, way, read, before>>

RcNext == BeginFile \/ BeginDefault \/ ReadLine \/ EndOfFile \/ Send

RcSpec == RcInit /\ [][RcNext]_rcVars

-----------------------------------------------------------------------------
(* Properties                                                              *)

\* Words are words, and every map has codes and keys that fit a half of a word,
\* so that main packs both into one.
RcTypeOK ==
  /\ rcPc \in {"exit", "file", "send"} /\ level \in Levels
  /\ remote \in [Items -> Word]
  /\ DOMAIN maps = MapLevels /\ DOMAIN devMap = MapLevels
  /\ \A s \in MapLevels :
       /\ \A c \in DOMAIN maps[s] : c \in 0 .. Limit(s) /\ maps[s][c] \in Half
       /\ \A c \in DOMAIN devMap[s] : c \in 0 .. Limit(s) /\ devMap[s][c] \in Half
  /\ factory \in [FactoryIndex -> Half] /\ devFactory \in [FactoryIndex -> Half]
  /\ ircode \in Half /\ keycode \in Half
  /\ adc_move_enable \in {0, 1} /\ devMove \in {0, 1} /\ kp \in BOOLEAN
  /\ devParam \in [Params -> Word]
  /\ rcRuns \in 0 .. MaxRuns /\ rcLines \in 0 .. MaxLines
  /\ way \in {"none", "file", "default"}

Places == 1 .. Len(read)

\* Line n stores a value for code c in level s.
Assigns(n, s, c) ==
  read[n].level = s /\ read[n].name.lo = c /\ c <= Limit(s) /\ Stores(s, read[n].value)
LastAssigns(n, s, c) == Assigns(n, s, c) /\ \A m \in Places : m > n => ~Assigns(m, s, c)

\* Entry c of f is the one that the file gives it, or that of g.
AsWritten(f, g, s, c) ==
  \/ \E n \in Places : /\ LastAssigns(n, s, c)
                       /\ c \in DOMAIN f /\ f[c] = Kept(s, read[n].value)
  \/ /\ \A n \in Places : ~Assigns(n, s, c)
     /\ IF c \in DOMAIN g THEN c \in DOMAIN f /\ f[c] = g[c] ELSE c \notin DOMAIN f

Mentioned(s) ==
  DOMAIN devMap[s] \cup DOMAIN before.map[s]
    \cup {read[n].name.lo : n \in {m \in Places : read[m].level = s}}

MapsAsWritten ==
  \A s \in MapLevels : \A c \in Mentioned(s) :
    IF s = "adc" /\ ~kp THEN devMap[s] = before.map[s]
    ELSE AsWritten(devMap[s], IF s = "key" THEN Empty ELSE before.map[s], s, c)

\* The last line for a name decides.
SetsName(n, name) == read[n].level = "config" /\ read[n].name = name
LastSets(n, name) == SetsName(n, name) /\ \A m \in Places : m > n => ~SetsName(m, name)

ParamsAsWritten ==
  \A i \in Items :
    LET name == config_item[i]
        p == remote_ioc_table[i]
    IN \/ \E n \in Places :
            /\ LastSets(n, name)
            /\ devParam[p] = IF p = CustomCode THEN W(0, read[n].value.hi)
                             ELSE IF read[n].value = Unset THEN before.param[p]
                             ELSE read[n].value
       \/ /\ \A n \in Places : ~SetsName(n, name)
          /\ devParam[p] = IF p = CustomCode THEN W(0, 65535) ELSE before.param[p]

\* The lines that a factory level leans on are in range and have a key.
Sound(n) ==
  read[n].level \in MapLevels =>
    read[n].name.lo <= Limit(read[n].level) /\ Kept(read[n].level, read[n].value) # 0
Leans(n) == \E m \in Places : m < n /\ read[m].level \in MapLevels

FactorySound == \A n \in Places : Sound(n) /\ (read[n].level = "factory" => Leans(n))

FactoryAsWritten ==
  \A x \in FactoryIndex :
    /\ (\A n \in Places : ~Assigns(n, "factory", x)) => devFactory[x] = 0
    /\ FactorySound => \A n \in Places :
         LastAssigns(n, "factory", x) => devFactory[x] = read[n].value.lo

\* When remotecfg has read a file, the drivers hold what the file says: for
\* each code the last key of its level, for each name its last value, and the
\* rest as it was, but for the keys and the factory codes, which are none.
\* Those of the file arrive if an entry of another level stands before them and
\* all of those are in range and not 0 (get_config_from_file, set_config, main).
DriverAsWritten ==
  rcPc = "exit" /\ way = "file" => MapsAsWritten /\ ParamsAsWritten /\ FactoryAsWritten
=============================================================================
