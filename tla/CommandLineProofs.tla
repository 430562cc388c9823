------------------------- MODULE CommandLineProofs --------------------------
(***************************************************************************)
(* Theorems about the consoles and the settings, for any settings under    *)
(* study, any addresses, names, MACs and numbers typed, lines of any       *)
(* length, and saves that fail or are cut short anywhere.                  *)
(***************************************************************************)
EXTENDS CommandLine, ModularArithmetic, SequenceTheorems

\* The settings in use are a function on the keys, so that they can equal what is loaded.
RamIsFunction == ram = [k \in Keys |-> ram[k]]

\* The addresses of the WiFi are never set and never stored.
WifiUntouched ==
    \A k \in Keys \cap WifiAddress : ram[k] = Default[k] /\ k \notin DOMAIN flash

\* What an intact save under way has written is what is in use; while one is under way no
\* earlier save counts.
SaveProgress ==
    /\ saving # 0 => saved = NoSettings
    /\ saving # 0 /\ intact =>
          \A i \in 1..(saving - 1) :
             SaveOrder[i] \in Keys =>
                /\ SaveOrder[i] \in DOMAIN flash
                /\ flash[SaveOrder[i]] = ram[SaveOrder[i]]

SettingsInv ==
    /\ SettingsTypeOK /\ RamIsFunction /\ WifiUntouched /\ SaveProgress
    /\ SavedIsLoaded /\ UsableSettings

LinesOK ==
    /\ link \in [Console -> {"none", "open", "gone", "taken"}] /\ link["serial"] = "open"
    /\ sent \in [Console -> 0..MaxParts]
    /\ told \in [Console -> BOOLEAN]
    /\ buffer \in [Console -> Seq(0..MaxParts)]

IInv == SettingsInv /\ LinesOK /\ BufferIsLine

-----------------------------------------------------------------------------
(***************************************************************************)
(* Values of settings.                                                     *)
(***************************************************************************)
LEMMA Sizes == MacLen \in Nat \ {0} /\ HoursWord \in Nat \ {0}
  BY SettingsAssumption

LEMMA OneElement ==
  ASSUME NEW S, NEW a \in S
  PROVE  <<a>> \in Seq(S) /\ Len(<<a>>) = 1 /\ <<a>>[1] = a
  OBVIOUS

\* What is put behind one element leaves it the first.
LEMMA FirstStays ==
  ASSUME NEW S, NEW s \in Seq(S), Len(s) = 1, NEW t \in Seq(S)
  PROVE  (s \o t)[1] = s[1]
<1>1. Len(t) \in Nat
  BY LenProperties
<1>2. 1 \in 1..(Len(s) + Len(t)) /\ 1 <= Len(s)
  BY <1>1
<1> QED  BY <1>2, ConcatProperties

\* The only element of a sequence of length one.
LEMMA Single == ASSUME NEW S, NEW t \in {<<s>> : s \in S} PROVE t[1] \in S
<1>1. PICK s \in S : t = <<s>>
  OBVIOUS
<1>2. t[1] = <<s>>[1]
  BY <1>1
<1> QED  BY <1>2

LEMMA KeyValues ==
  /\ \A k \in Switch : Values(k) = BOOLEAN
  /\ \A k \in WiredAddress : Values(k) = Address
  /\ \A k \in WifiAddress : Values(k) = Address \cup {NoAddress}
  /\ \A k \in Text : Values(k) = Name
  /\ Values("mac") = [1..MacLen -> 0..255]
  /\ Values("ntp_interval") = 0..(HoursWord - 1)
  BY DEF Values, Switch, WiredAddress, WifiAddress, Text

\* A MAC has MacLen octets.
LEMMA MacLength ==
  ASSUME NEW mac \in [1..MacLen -> 0..255]
  PROVE  Len(mac) = MacLen
<1>1. MacLen \in Nat
  BY Sizes
<1> QED  BY <1>1

\* Whatever well-typed settings are stored, load() takes those it reads as they are.
LEMMA LoadStored ==
  ASSUME NEW stored, DOMAIN stored \subseteq Keys,
         \A k \in DOMAIN stored : stored[k] \in Values(k)
  PROVE  load(stored) = [k \in Keys |-> IF k \in DOMAIN stored \ WifiAddress
                                        THEN stored[k] ELSE Default[k]]
<1>1. "mac" \in DOMAIN stored => Len(stored["mac"]) = MacLen
  BY KeyValues, MacLength
<1> QED  BY <1>1 DEF load

LEMMA LoadEmpty == load(<< >>) = [k \in Keys |-> Default[k]]
  BY DEF load

LEMMA KeyArguments ==
  /\ \A k \in Switch : Arguments(k) = {<<b>> : b \in BOOLEAN}
  /\ \A k \in WiredAddress \cup WifiAddress : Arguments(k) = {<< >>} \cup {<<a>> : a \in Address}
  /\ \A k \in Text : Arguments(k) = {<<n>> : n \in Name}
  /\ Arguments("mac") = MacText
  /\ Arguments("ntp_interval") = {<<n>> : n \in Number}
  BY DEF Arguments, Switch, WiredAddress, WifiAddress, Text

LEMMA KeyAccepted ==
  ASSUME NEW text
  PROVE  /\ \A k \in Switch : accepted(k, text) = {text[1]}
         /\ \A k \in WiredAddress : accepted(k, text) = fromString(text)
         /\ \A k \in WifiAddress : accepted(k, text) = fromString(<<" ">> \o text)
         /\ \A k \in Text : accepted(k, text) = {text[1]}
         /\ accepted("mac", text) = parseMacAddress(text)
         /\ accepted("ntp_interval", text) = hoursOf(text[1])
<1>1. \A k \in WifiAddress : afterBlank(k, text) = <<" ">> \o text
  BY DEF afterBlank
<1>2. \A k \in WiredAddress : afterBlank(k, text) = text
  BY DEF afterBlank, WiredAddress, WifiAddress
<1> QED  BY <1>1, <1>2 DEF accepted, Switch, WiredAddress, WifiAddress, Text

LEMMA KindsDiffer ==
  /\ \A k \in Switch \cup WiredAddress \cup Text :
        k \notin WifiAddress /\ k # "mac" /\ k # "ntp_interval"
  /\ "mac" \notin WifiAddress /\ "ntp_interval" \notin WifiAddress
  BY DEF Switch, WiredAddress, WifiAddress, Text

\* No address is behind a blank.
LEMMA BlankRefused ==
  ASSUME NEW text \in {<< >>} \cup {<<a>> : a \in Address}
  PROVE  fromString(<<" ">> \o text) = {}
<1> SUFFICES ASSUME NEW v \in Address, <<" ">> \o text = <<v>> PROVE FALSE
  BY DEF fromString
<1> DEFINE S == Address \cup {" "}
<1>0. " " \in S /\ Address \subseteq S
  OBVIOUS
<1> HIDE DEF S
<1>1. text \in Seq(S)
  <2>1. CASE text = << >>
    BY <2>1, EmptySeq
  <2>2. CASE text \in {<<a>> : a \in Address}
    <3>1. PICK a \in Address : text = <<a>>
      BY <2>2
    <3> QED  BY <1>0, <3>1, OneElement
  <2> QED  BY <2>1, <2>2
<1>2. <<" ">> \in Seq(S) /\ Len(<<" ">>) = 1 /\ <<" ">>[1] = " "
  BY <1>0, OneElement
<1>3. (<<" ">> \o text)[1] = " "
  BY <1>1, <1>2, FirstStays
<1>4. <<v>>[1] = v
  OBVIOUS
<1> QED  BY <1>3, <1>4, SettingsAssumption

LEMMA ParsedMac ==
  ASSUME NEW text \in Seq(0..255), NEW v \in parseMacAddress(text)
  PROVE  v \in [1..MacLen -> 0..255] /\ v # Zero /\ v[1] % 2 = 0
<1>1. MacLen \in Nat \ {0}
  BY Sizes
<1>2. Len(text) \in Nat /\ text \in [1..Len(text) -> 0..255]
  BY LenProperties
<1>3. /\ Len(text) >= MacLen /\ v = SubSeq(text, 1, MacLen)
      /\ v # Zero /\ v[1] % 2 = 0
  <2>1. ~(Len(text) < MacLen)
    BY DEF parseMacAddress
  <2> QED  BY <1>1, <1>2, <2>1 DEF parseMacAddress
<1>4. \A i \in 1..MacLen : text[i] \in 0..255
  BY <1>3, <1>1, <1>2
<1>5. v \in Seq(0..255) /\ Len(v) = MacLen
  BY <1>3, <1>1, <1>4, SubSeqProperties
<1> QED  BY <1>3, <1>5, LenProperties

\* What a command accepts is a usable value of its setting; the WiFi address commands
\* accept nothing.
LEMMA Accepted ==
  ASSUME NEW k \in Keys, NEW text \in Arguments(k), NEW v \in accepted(k, text)
  PROVE  /\ v \in Values(k) /\ k \notin WifiAddress
         /\ k = "mac" => v # Zero /\ v[1] % 2 = 0
         /\ k = "ntp_interval" => v # 0
<1>1. k \in Key
  BY SettingsAssumption
<1>2. CASE k \in Switch
  <2>1. text \in {<<b>> : b \in BOOLEAN} /\ v = text[1]
    BY <1>2, KeyArguments, KeyAccepted
  <2>2. v \in BOOLEAN
    BY <2>1, Single
  <2> QED  BY <1>2, <2>2, KeyValues, KindsDiffer
<1>3. CASE k \in Text
  <2>1. text \in {<<n>> : n \in Name} /\ v = text[1]
    BY <1>3, KeyArguments, KeyAccepted
  <2>2. v \in Name
    BY <2>1, Single
  <2> QED  BY <1>3, <2>2, KeyValues, KindsDiffer
<1>4. CASE k \in WiredAddress
  <2>1. v \in fromString(text)
    BY <1>4, KeyAccepted
  <2>2. v \in Address
    BY <2>1 DEF fromString
  <2> QED  BY <1>4, <2>2, KeyValues, KindsDiffer
<1>5. CASE k \in WifiAddress
  <2>1. text \in {<< >>} \cup {<<a>> : a \in Address}
    BY <1>5, KeyArguments
  <2>2. accepted(k, text) = {}
    BY <1>5, <2>1, KeyAccepted, BlankRefused
  <2> QED  BY <2>2
<1>6. CASE k = "mac"
  <2>1. text \in Seq(0..255) /\ v \in parseMacAddress(text)
    BY <1>6, KeyArguments, KeyAccepted, SettingsAssumption
  <2> QED  BY <1>6, <2>1, ParsedMac, KeyValues, KindsDiffer
<1>7. CASE k = "ntp_interval"
  <2>1. text \in {<<n>> : n \in Number} /\ v \in hoursOf(text[1])
    BY <1>7, KeyArguments, KeyAccepted
  <2>2. text[1] \in Int /\ v = text[1] % HoursWord /\ v # 0
    <3>1. text[1] \in Number
      BY <2>1, Single
    <3> QED  BY <2>1, <3>1, SettingsAssumption DEF hoursOf
  <2>3. v \in 0..(HoursWord - 1)
    BY <2>2, Sizes, DivMod
  <2> QED  BY <1>7, <2>2, <2>3, KeyValues, KindsDiffer
<1> QED  BY <1>1, <1>2, <1>3, <1>4, <1>5, <1>6, <1>7 DEF Key

-----------------------------------------------------------------------------
(***************************************************************************)
(* Steps of the settings.                                                  *)
(***************************************************************************)
\* save() writes every key but those of the WiFi addresses.
LEMMA SaveOrderKeys ==
  /\ Len(SaveOrder) = 14
  /\ \A i \in 1..14 : SaveOrder[i] \notin WifiAddress
  /\ \A k \in Key \ WifiAddress : \E i \in 1..14 : SaveOrder[i] = k
<1>1. Len(SaveOrder) = 14
  BY DEF SaveOrder
<1>2. /\ SaveOrder[1] = "dhcp" /\ SaveOrder[2] = "hostname" /\ SaveOrder[3] = "ip"
      /\ SaveOrder[4] = "subnet" /\ SaveOrder[5] = "gateway" /\ SaveOrder[6] = "dns"
      /\ SaveOrder[7] = "mac" /\ SaveOrder[8] = "wifi_en" /\ SaveOrder[9] = "wifi_ssid"
      /\ SaveOrder[10] = "wifi_pwd" /\ SaveOrder[11] = "wifi_dhcp"
      /\ SaveOrder[12] = "ntp_server" /\ SaveOrder[13] = "ntp_auto"
      /\ SaveOrder[14] = "ntp_interval"
  BY DEF SaveOrder
<1>3. \A i \in 1..14 : SaveOrder[i] \notin WifiAddress
  <2>1. \A i \in 1..14 : i \in {1, 2, 3, 4, 5, 6, 7, 8, 9, 10, 11, 12, 13, 14}
    OBVIOUS
  <2> QED  BY <1>2, <2>1 DEF WifiAddress
<1>4. ASSUME NEW k \in Key \ WifiAddress PROVE \E i \in 1..14 : SaveOrder[i] = k
  <2>1. {1, 2, 3, 4, 5, 6, 7, 8, 9, 10, 11, 12, 13, 14} \subseteq 1..14
    OBVIOUS
  <2> QED  BY ZenonT(60), <1>2, <2>1 DEF Key, Switch, WiredAddress, WifiAddress, Text
<1> QED  BY <1>1, <1>3, <1>4

\* What load() takes from flash, and that it is well-typed.
LEMMA LoadFlash ==
  ASSUME SettingsTypeOK
  PROVE  /\ load(flash) = [k \in Keys |-> IF k \in DOMAIN flash \ WifiAddress
                                         THEN flash[k] ELSE Default[k]]
         /\ \A k \in Keys : load(flash)[k] \in Values(k)
<1>1. load(flash) = [k \in Keys |-> IF k \in DOMAIN flash \ WifiAddress
                                   THEN flash[k] ELSE Default[k]]
  BY LoadStored DEF SettingsTypeOK
<1> QED  BY <1>1, DefaultAssumption DEF SettingsTypeOK

LEMMA InitSettings == SettingsInit => SettingsInv
<1> SUFFICES ASSUME SettingsInit PROVE SettingsInv
  OBVIOUS
<1>1. /\ flash = << >> /\ DOMAIN flash = {} /\ ram = [k \in Keys |-> Default[k]]
      /\ load(flash) = ram
  BY LoadEmpty DEF SettingsInit
<1>2. SettingsTypeOK
  <2>1. 0 \in 0..Len(SaveOrder)
    BY SaveOrderKeys
  <2> QED  BY <1>1, <2>1, DefaultAssumption DEF SettingsInit, SettingsTypeOK
<1>3. RamIsFunction /\ WifiUntouched /\ SaveProgress /\ SavedIsLoaded
  BY <1>1 DEF SettingsInit, RamIsFunction, WifiUntouched, SaveProgress, SavedIsLoaded
<1>4. UsableSettings
  BY <1>1, DefaultAssumption DEF UsableSettings, Usable
<1> QED  BY <1>2, <1>3, <1>4 DEF SettingsInv

\* A command that sets something, outside save().
LEMMA ChangeStep ==
  ASSUME SettingsInv, saving = 0, NEW k \in Keys, NEW text \in Arguments(k), change(k, text)
  PROVE  SettingsInv'
<1> DEFINE v == CHOOSE w \in accepted(k, text) : TRUE
<1>1. UNCHANGED <<flash, mounted, saving, intact, saved>>
  BY DEF change
<1>2. CASE accepted(k, text) = {}
  BY <1>1, <1>2 DEF change, SettingsInv, SettingsTypeOK, RamIsFunction, WifiUntouched,
                    SaveProgress, SavedIsLoaded, UsableSettings, Usable, load
<1>3. CASE accepted(k, text) # {}
  <2>1. v \in accepted(k, text)
    BY <1>3
  <2>2. ram' = [ram EXCEPT ![k] = v]
    BY <1>3 DEF change
  <2> HIDE DEF v
  <2>3. /\ v \in Values(k) /\ k \notin WifiAddress
        /\ k = "mac" => v # Zero /\ v[1] % 2 = 0
        /\ k = "ntp_interval" => v # 0
    BY <2>1, Accepted
  <2>4. /\ ram' = [j \in Keys |-> ram'[j]] /\ ram'[k] = v
        /\ \A j \in Keys \ {k} : ram'[j] = ram[j]
    BY <2>2 DEF SettingsInv, SettingsTypeOK
  <2>5. DOMAIN ram' = Keys
    BY <2>4
  <2>6. SettingsTypeOK'
    BY <1>1, <2>3, <2>4, <2>5 DEF SettingsInv, SettingsTypeOK
  <2>7. RamIsFunction' /\ WifiUntouched' /\ SaveProgress' /\ SavedIsLoaded'
    BY <1>1, <2>3, <2>4
       DEF SettingsInv, RamIsFunction, WifiUntouched, SaveProgress, SavedIsLoaded, load
  <2>8. UsableSettings'
    BY <1>1, <2>3, <2>4 DEF SettingsInv, UsableSettings, Usable, load
  <2> QED  BY <2>6, <2>7, <2>8 DEF SettingsInv
<1> QED  BY <1>2, <1>3

LEMMA SaveStep == ASSUME SettingsInv, save PROVE SettingsInv'
<1>1. saving' = 1 /\ saved' = NoSettings /\ UNCHANGED <<ram, flash, mounted>> /\ intact' = TRUE
  BY DEF save
<1>2. 1 \in 0..Len(SaveOrder)
  BY SaveOrderKeys
<1> QED
  BY <1>1, <1>2 DEF SettingsInv, SettingsTypeOK, RamIsFunction, WifiUntouched, SaveProgress,
                    SavedIsLoaded, UsableSettings, Usable, load

\* A restart loads what flash holds, or the defaults.
LEMMA RestartStep == ASSUME SettingsInv, settingsRestart PROVE SettingsInv'
<1>1. /\ mounted' \in BOOLEAN /\ saving' = 0 /\ intact' = FALSE
      /\ UNCHANGED <<flash, saved>> /\ load(flash') = load(flash)
      /\ ram' = load(flash) \/ ram' = load(<< >>)
  BY DEF settingsRestart, loaded
<1>2. 0 \in 0..Len(SaveOrder)
  BY SaveOrderKeys
<1>3. /\ ram' = [k \in Keys |-> ram'[k]] /\ \A k \in Keys : ram'[k] \in Values(k)
      /\ \A k \in Keys \cap WifiAddress : ram'[k] = Default[k]
      /\ Usable(ram')
  <2>1. CASE ram' = load(flash)
    BY <2>1, LoadFlash DEF SettingsInv, UsableSettings
  <2>2. CASE ram' = load(<< >>)
    BY <2>2, LoadEmpty, DefaultAssumption DEF Usable
  <2> QED  BY <1>1, <2>1, <2>2
<1>4. SettingsTypeOK'
  BY <1>1, <1>2, <1>3 DEF SettingsInv, SettingsTypeOK
<1>5. RamIsFunction' /\ WifiUntouched' /\ SaveProgress' /\ SavedIsLoaded' /\ UsableSettings'
  BY <1>1, <1>3 DEF SettingsInv, RamIsFunction, WifiUntouched, SaveProgress, SavedIsLoaded,
                    UsableSettings
<1> QED  BY <1>4, <1>5 DEF SettingsInv

\* A key is written, or is not; after the last one an intact save is what load() takes.
LEMMA PutStep ==
  ASSUME SettingsInv, NEW stored \in BOOLEAN, put(stored)
  PROVE  SettingsInv'
<1> DEFINE key == SaveOrder[saving]
           written == stored /\ key \in Keys
<1>1. /\ saving \in 1..14 /\ key \notin WifiAddress
      /\ UNCHANGED <<ram, mounted>>
      /\ intact' = (intact /\ (stored \/ key \notin Keys))
      /\ flash' = IF written
                  THEN [k \in DOMAIN flash \cup {key} |-> IF k = key THEN ram[k] ELSE flash[k]]
                  ELSE flash
  BY SaveOrderKeys DEF put, SettingsInv, SettingsTypeOK
<1>2. \/ saving = 14 /\ saving' = 0 /\ saved' = IF intact' THEN ram ELSE NoSettings
      \/ saving # 14 /\ saving' = saving + 1 /\ saved' = saved
  BY SaveOrderKeys DEF put
<1> HIDE DEF key
<1>3. /\ DOMAIN flash' = DOMAIN flash \cup (IF written THEN {key} ELSE {})
      /\ \A k \in DOMAIN flash' \ {key} : k \in DOMAIN flash /\ flash'[k] = flash[k]
      /\ written => flash'[key] = ram[key]
      /\ ~written => flash' = flash
  BY <1>1
<1>4. DOMAIN flash' \subseteq Keys /\ \A k \in DOMAIN flash' : flash'[k] \in Values(k)
  BY <1>1, <1>3 DEF SettingsInv, SettingsTypeOK
<1>5. saving' \in 0..14 /\ intact' \in BOOLEAN /\ (saved' = NoSettings \/ DOMAIN saved' = Keys)
  <2>1. intact' \in BOOLEAN
    BY <1>1 DEF SettingsInv, SettingsTypeOK
  <2> QED  BY <1>1, <1>2, <2>1 DEF SettingsInv, SettingsTypeOK
<1>6. SettingsTypeOK'
  BY <1>1, <1>4, <1>5, SaveOrderKeys DEF SettingsInv, SettingsTypeOK
<1>7. RamIsFunction' /\ WifiUntouched'
  BY <1>1, <1>3 DEF SettingsInv, RamIsFunction, WifiUntouched
<1>8. intact' => \A i \in 1..saving :
                   SaveOrder[i] \in Keys =>
                      SaveOrder[i] \in DOMAIN flash' /\ flash'[SaveOrder[i]] = ram'[SaveOrder[i]]
  <2> SUFFICES ASSUME intact', NEW i \in 1..saving, SaveOrder[i] \in Keys
               PROVE  SaveOrder[i] \in DOMAIN flash' /\ flash'[SaveOrder[i]] = ram'[SaveOrder[i]]
    OBVIOUS
  <2>1. CASE SaveOrder[i] = key
    BY <1>1, <1>3, <2>1
  <2>2. CASE SaveOrder[i] # key
    <3>1. i \in 1..(saving - 1)
      BY <1>1, <2>2 DEF key
    <3>2. intact /\ saving # 0
      <4>1. intact
        BY <1>1, Zenon
      <4>2. saving # 0
        BY <1>1
      <4> QED  BY <4>1, <4>2
    <3>3. SaveOrder[i] \in DOMAIN flash /\ flash[SaveOrder[i]] = ram[SaveOrder[i]]
      BY <3>1, <3>2 DEF SettingsInv, SaveProgress
    <3>4. SaveOrder[i] \in DOMAIN flash'
      BY <1>3, <3>3
    <3> QED  BY <1>1, <1>3, <2>2, <3>3, <3>4
  <2> QED  BY <2>1, <2>2
<1>9. SaveProgress'
  <2>1. saving' # 0 => saving' - 1 = saving /\ saved' = NoSettings
    BY <1>1, <1>2 DEF SettingsInv, SaveProgress
  <2> QED  BY <1>8, <2>1 DEF SaveProgress
<1>10. SavedIsLoaded'
  <2> SUFFICES ASSUME saved' # NoSettings PROVE load(flash') = saved'
    BY DEF SavedIsLoaded
  <2>1. saving = 14 /\ intact' /\ saved' = ram
    BY <1>1, <1>2 DEF SettingsInv, SaveProgress
  <2>2. load(flash') = [k \in Keys |-> IF k \in DOMAIN flash' \ WifiAddress
                                      THEN flash'[k] ELSE Default[k]]
    BY <1>4, LoadStored
  <2>3. \A k \in Keys \ WifiAddress : k \in DOMAIN flash' /\ flash'[k] = ram[k]
    <3> SUFFICES ASSUME NEW k \in Keys \ WifiAddress
                 PROVE  k \in DOMAIN flash' /\ flash'[k] = ram[k]
      OBVIOUS
    <3>1. PICK i \in 1..14 : SaveOrder[i] = k
      BY SaveOrderKeys, SettingsAssumption
    <3> QED  BY <1>1, <1>8, <2>1, <3>1
  <2>4. \A k \in Keys \cap WifiAddress : ram[k] = Default[k]
    BY DEF SettingsInv, WifiUntouched
  <2>5. load(flash') = [k \in Keys |-> ram[k]]
    BY <2>2, <2>3, <2>4
  <2> QED  BY <2>1, <2>5 DEF SettingsInv, RamIsFunction
<1>11. UsableSettings'
  <2>1. load(flash') = [k \in Keys |-> IF k \in DOMAIN flash' \ WifiAddress
                                      THEN flash'[k] ELSE Default[k]]
    BY <1>4, LoadStored
  <2>2. load(flash) = [k \in Keys |-> IF k \in DOMAIN flash \ WifiAddress
                                     THEN flash[k] ELSE Default[k]]
    BY LoadFlash DEF SettingsInv
  <2>3. \A k \in Keys : load(flash')[k] = load(flash)[k] \/ load(flash')[k] = ram[k]
    BY <1>3, <2>1, <2>2
  <2>4. Usable(load(flash'))
    BY <2>3 DEF SettingsInv, UsableSettings, Usable
  <2> QED  BY <1>1, <2>4 DEF SettingsInv, UsableSettings, Usable
<1> QED  BY <1>6, <1>7, <1>9, <1>10, <1>11 DEF SettingsInv

-----------------------------------------------------------------------------
(***************************************************************************)
(* Steps of the lines.                                                     *)
(***************************************************************************)
\* A line of n parts.
LEMMA LineGrows ==
  ASSUME NEW n \in Nat
  PROVE  Append([i \in 1..n |-> i], n + 1) = [i \in 1..(n + 1) |-> i]
<1> DEFINE s == [i \in 1..n |-> i]
           t == [i \in 1..(n + 1) |-> i]
<1>1. s \in Seq(Nat) /\ t \in Seq(Nat) /\ Len(s) = n /\ Len(t) = n + 1
  OBVIOUS
<1>2. /\ Append(s, n + 1) \in Seq(Nat) /\ Len(Append(s, n + 1)) = n + 1
      /\ \A i \in 1..n : Append(s, n + 1)[i] = s[i]
      /\ Append(s, n + 1)[n + 1] = n + 1
  BY <1>1, AppendProperties
<1>3. \A i \in 1..(n + 1) : Append(s, n + 1)[i] = t[i]
  BY <1>2
<1> QED  BY <1>1, <1>2, <1>3, SeqEqual

LEMMA EmptyLine == << >> = [i \in 1..0 |-> i] /\ << >> \in Seq(0..MaxParts)
  OBVIOUS

\* A line that begins anew, with its connection as it was or gone, or accepted.
LEMMA NewLineStep ==
  ASSUME LinesOK, BufferIsLine, NEW c \in Console, newLine(c),
         link' \in [Console -> {"none", "open", "gone", "taken"}], link'["serial"] = "open",
         \A d \in Console \ {c} : link'[d] = "open" => link[d] = "open"
  PROVE  LinesOK' /\ BufferIsLine'
<1>1. 0 \in 0..MaxParts
  BY CommandLineAssumption
<1>2. /\ sent'[c] = 0 /\ buffer'[c] = << >>
      /\ \A d \in Console \ {c} : /\ sent'[d] = sent[d] /\ buffer'[d] = buffer[d]
                                  /\ told'[d] = told[d]
  BY DEF newLine, LinesOK
<1>3. LinesOK'
  BY <1>1, EmptyLine DEF newLine, LinesOK
<1>4. BufferIsLine'
  BY <1>2, EmptyLine DEF BufferIsLine
<1> QED  BY <1>3, <1>4

\* Connections that end.
LEMMA LinkStep ==
  ASSUME LinesOK, BufferIsLine, UNCHANGED lines,
         link' \in [Console -> {"none", "open", "gone", "taken"}], link'["serial"] = "open",
         \A d \in Console : link'[d] = "open" => link[d] = "open"
  PROVE  LinesOK' /\ BufferIsLine'
  BY DEF lines, LinesOK, BufferIsLine

\* A part that is read, and one that is refused.
LEMMA ReadPartStep ==
  ASSUME LinesOK, BufferIsLine, NEW c \in Console, readPart(c)
  PROVE  LinesOK' /\ BufferIsLine'
<1>1. /\ link' = link /\ told' = told
      /\ sent' = [sent EXCEPT ![c] = sent[c] + 1]
      /\ buffer' = [buffer EXCEPT ![c] = Append(buffer[c], sent'[c])]
      /\ sent[c] < MaxParts
  BY DEF readPart, next
<1>2. sent[c] \in Nat /\ sent'[c] = sent[c] + 1 /\ sent'[c] \in 1..MaxParts
  BY <1>1, CommandLineAssumption DEF LinesOK
<1>3. Append(buffer[c], sent'[c]) \in Seq(0..MaxParts)
  BY <1>2, AppendProperties DEF LinesOK
<1>4. LinesOK'
  BY <1>1, <1>2, <1>3, CommandLineAssumption DEF LinesOK
<1>5. ASSUME NEW d \in Console, link'[d] = "open", ~told'[d]
      PROVE  buffer'[d] = [i \in 1..sent'[d] |-> i]
  <2>1. buffer[d] = [i \in 1..sent[d] |-> i]
    BY <1>1, <1>5 DEF BufferIsLine
  <2>2. CASE d = c
    <3>1. buffer'[c] = Append(buffer[c], sent[c] + 1)
      BY <1>1, <1>2 DEF LinesOK
    <3> QED  BY <1>2, <2>1, <2>2, <3>1, LineGrows
  <2>3. CASE d # c
    BY <1>1, <2>1, <2>3 DEF LinesOK
  <2> QED  BY <2>2, <2>3
<1> QED  BY <1>4, <1>5 DEF BufferIsLine

LEMMA RefuseStep ==
  ASSUME LinesOK, BufferIsLine, refusePart
  PROVE  LinesOK' /\ BufferIsLine'
<1>1. /\ link' = link /\ "wifi" \in Console /\ sent["wifi"] < MaxParts
      /\ sent' = [sent EXCEPT !["wifi"] = sent["wifi"] + 1]
      /\ buffer' = [buffer EXCEPT !["wifi"] = << >>]
      /\ told' = [told EXCEPT !["wifi"] = TRUE]
  BY DEF refusePart, next, Console, Remote
<1>2. sent["wifi"] + 1 \in 0..MaxParts
  BY <1>1, CommandLineAssumption DEF LinesOK
<1>3. LinesOK'
  BY <1>1, <1>2, EmptyLine DEF LinesOK
<1>4. told'["wifi"] /\ \A d \in Console \ {"wifi"} :
         sent'[d] = sent[d] /\ buffer'[d] = buffer[d] /\ told'[d] = told[d]
  BY <1>1 DEF LinesOK
<1> QED  BY <1>1, <1>3, <1>4 DEF BufferIsLine

\* Bytes of a datagram end up in a buffer whose user is gone.
LEMMA ForeignStep ==
  ASSUME LinesOK, BufferIsLine, readForeign
  PROVE  LinesOK' /\ BufferIsLine'
<1>1. /\ link' = link /\ sent' = sent /\ told' = told
      /\ link["tcp"] = "taken" /\ "tcp" \in Console
      /\ buffer' = [buffer EXCEPT !["tcp"] = Append(buffer["tcp"], 0)]
  BY DEF readForeign, Console, Remote
<1>2. 0 \in 0..MaxParts
  BY CommandLineAssumption
<1>3. Append(buffer["tcp"], 0) \in Seq(0..MaxParts)
  BY <1>1, <1>2, AppendProperties DEF LinesOK
<1>4. LinesOK'
  BY <1>1, <1>3 DEF LinesOK
<1>5. \A c \in Console : link[c] = "open" => buffer'[c] = buffer[c]
  BY <1>1 DEF LinesOK
<1> QED  BY <1>1, <1>4, <1>5 DEF BufferIsLine

LEMMA RestartLines ==
  ASSUME LinesOK, restart
  PROVE  LinesOK' /\ BufferIsLine'
<1>1. /\ link' = [c \in Console |-> IF c = "serial" THEN "open" ELSE "none"]
      /\ sent' = [sent EXCEPT !["tcp"] = 0, !["wifi"] = 0]
      /\ buffer' = [c \in Console |-> << >>]
      /\ told' = [c \in Console |-> c = "serial" /\ sent[c] > 0]
  BY DEF restart
<1>2. 0 \in 0..MaxParts /\ "serial" \in Console
  BY CommandLineAssumption DEF Console
<1>3. LinesOK'
  BY <1>1, <1>2, EmptyLine DEF LinesOK
<1>4. sent'["serial"] = sent["serial"] /\ sent["serial"] \in Nat
  BY <1>1, <1>2, CommandLineAssumption DEF LinesOK
<1>5. ASSUME NEW c \in Console, link'[c] = "open", ~told'[c]
      PROVE  buffer'[c] = [i \in 1..sent'[c] |-> i]
  <2>1. c = "serial"
    BY <1>1, <1>5
  <2>2. ~(sent["serial"] > 0)
    BY <1>1, <1>2, <1>5, <2>1
  <2>3. sent'[c] = 0 /\ buffer'[c] = << >>
    BY <1>1, <1>4, <2>1, <2>2
  <2> QED  BY <2>3, EmptyLine
<1> QED  BY <1>3, <1>5 DEF BufferIsLine

-----------------------------------------------------------------------------
LEMMA InitIInv == CommandLineInit => IInv
<1> SUFFICES ASSUME CommandLineInit PROVE IInv
  OBVIOUS
<1>1. SettingsInv
  BY InitSettings DEF CommandLineInit
<1>2. 0 \in 0..MaxParts /\ "serial" \in Console
  BY CommandLineAssumption DEF Console
<1>3. LinesOK /\ BufferIsLine
  BY <1>2, EmptyLine DEF CommandLineInit, LinesOK, BufferIsLine
<1> QED  BY <1>1, <1>3 DEF IInv

LEMMA UnchangedSettings == ASSUME SettingsInv, UNCHANGED settings PROVE SettingsInv'
  BY DEF settings, SettingsInv, SettingsTypeOK, RamIsFunction, WifiUntouched, SaveProgress,
         SavedIsLoaded, UsableSettings, Usable, load

\* Connections and characters change no setting.
LEMMA ConsoleStep ==
  ASSUME IInv,
         \/ \E c \in Remote : accept(c) \/ leave(c)
         \/ availableNone \/ stopGone \/ refusePart \/ exit
         \/ numberTaken \/ numberFreed \/ readForeign
         \/ \E c \in Console : readPart(c) \/ emptyLine(c) \/ executeOther(c)
  PROVE  IInv'
<1>1. UNCHANGED settings
  BY DEF accept, leave, availableNone, stopGone, refusePart, exit, readPart, next, emptyLine,
         executeOther, noSetting, numberTaken, numberFreed, readForeign
<1>2. SettingsInv'
  BY <1>1, UnchangedSettings DEF IInv
<1>3. Remote \subseteq Console /\ "tcp" \in Remote /\ "wifi" \in Remote /\ "serial" \notin Remote
  BY DEF Console, Remote
<1> USE DEF IInv
<1>4. ASSUME NEW c \in Remote, accept(c) PROVE LinesOK' /\ BufferIsLine'
  <2>1. link' = [link EXCEPT ![c] = "open"] /\ newLine(c)
    BY <1>4 DEF accept
  <2>2. /\ link' \in [Console -> {"none", "open", "gone", "taken"}] /\ link'["serial"] = "open"
        /\ \A d \in Console \ {c} : link'[d] = "open" => link[d] = "open"
    BY <1>3, <2>1 DEF LinesOK
  <2> QED  BY <1>3, <2>1, <2>2, NewLineStep
<1>5. ASSUME NEW c \in Remote, leave(c) PROVE LinesOK' /\ BufferIsLine'
  <2>1. link' = [link EXCEPT ![c] = "gone"] /\ UNCHANGED lines
    BY <1>5 DEF leave
  <2> QED  BY SMTT(30), <1>3, <2>1, LinkStep DEF LinesOK
<1>6. CASE availableNone
  <2>1. link' = [link EXCEPT !["tcp"] = "none"] /\ UNCHANGED lines
    BY <1>6 DEF availableNone
  <2> QED  BY SMTT(30), <1>2, <1>3, <2>1, LinkStep DEF LinesOK
<1>7. CASE stopGone
  <2>1. link' = [link EXCEPT !["tcp"] = "none"] /\ newLine("tcp")
    BY <1>7 DEF stopGone
  <2> QED  BY <1>2, <1>3, <2>1, NewLineStep DEF LinesOK
<1>8. CASE exit
  <2>1. link' = [link EXCEPT !["wifi"] = "none"] /\ newLine("wifi")
    BY <1>8 DEF exit, endOfLine
  <2> QED  BY <1>2, <1>3, <2>1, NewLineStep DEF LinesOK
<1>9. ASSUME NEW c \in Console, emptyLine(c) \/ executeOther(c)
      PROVE  LinesOK' /\ BufferIsLine'
  <2>1. link' = link /\ newLine(c)
    BY <1>9 DEF emptyLine, executeOther, endOfLine
  <2> QED  BY <2>1, NewLineStep DEF LinesOK
<1>10. CASE numberTaken
  <2>1. link' = [link EXCEPT !["tcp"] = "taken"] /\ UNCHANGED lines
    BY <1>10 DEF numberTaken
  <2> QED  BY SMTT(30), <1>2, <1>3, <2>1, LinkStep DEF LinesOK
<1>11. CASE numberFreed
  <2>1. link' = [link EXCEPT !["tcp"] = "gone"] /\ UNCHANGED lines
    BY <1>11 DEF numberFreed
  <2> QED  BY SMTT(30), <1>2, <1>3, <2>1, LinkStep DEF LinesOK
<1> QED
  BY <1>2, <1>4, <1>5, <1>6, <1>7, <1>8, <1>9, <1>10, <1>11, ReadPartStep, RefuseStep,
     ForeignStep

\* Commands that act on the settings.
LEMMA ExecuteStep ==
  ASSUME IInv, NEW c \in Console, executeSave(c) \/ \E k \in Keys : executeChange(c, k)
  PROVE  IInv'
<1>1. newLine(c) /\ saving = 0
  BY DEF executeSave, executeChange, endOfLine, looping
<1>2. CASE executeSave(c)
  <2>1. save /\ link' = link
    BY <1>2 DEF executeSave
  <2> QED  BY <1>1, <2>1, SaveStep, NewLineStep DEF IInv, LinesOK
<1>3. ASSUME NEW k \in Keys, executeChange(c, k) PROVE IInv'
  <2>1. PICK text \in Arguments(k) :
          /\ change(k, text)
          /\ link' = IF k = "wifi_en" /\ text = <<FALSE>> /\ link["wifi"] = "open"
                     THEN [link EXCEPT !["wifi"] = "gone"] ELSE link
    BY <1>3 DEF executeChange
  <2>2. link' = link \/ link' = [link EXCEPT !["wifi"] = "gone"]
    BY <2>1
  <2>3. SettingsInv'
    BY <1>1, <2>1, ChangeStep DEF IInv
  <2>4. LinesOK' /\ BufferIsLine'
    BY <1>1, <2>2, NewLineStep DEF IInv, LinesOK, Console, Remote
  <2> QED  BY <2>3, <2>4 DEF IInv
<1> QED  BY <1>2, <1>3

LEMMA NextIInv == IInv /\ [CommandLineNext]_vars => IInv'
<1> SUFFICES ASSUME IInv, [CommandLineNext]_vars PROVE IInv'
  OBVIOUS
<1>1. CASE UNCHANGED vars
  <2>1. UNCHANGED settings /\ UNCHANGED lines /\ link' = link
    BY <1>1 DEF vars, consoles
  <2> QED  BY <2>1, UnchangedSettings, LinkStep DEF IInv, LinesOK
<1>2. CASE saveStep
  <2>1. PICK stored \in BOOLEAN : put(stored) /\ UNCHANGED lines /\ link' = link
    BY <1>2 DEF saveStep, consoles
  <2> QED  BY <2>1, PutStep, LinkStep DEF IInv, LinesOK
<1>3. CASE restart
  <2>1. settingsRestart
    BY <1>3 DEF restart
  <2> QED  BY <1>3, <2>1, RestartStep, RestartLines DEF IInv
<1> QED
  BY <1>1, <1>2, <1>3, ConsoleStep, ExecuteStep DEF CommandLineNext

LEMMA InvariantIInv == Spec => []IInv
  BY InitIInv, NextIInv, PTL DEF Spec

\* Every setting keeps a value of its kind, in use and in flash: what a number or a MAC
\* becomes when a command reads it fits its field, and no line outgrows what its user sent.
THEOREM TypeCorrect == Spec => []TypeOK
<1>1. IInv => TypeOK
  BY DEF IInv, SettingsInv, LinesOK, TypeOK
<1> QED  BY <1>1, InvariantIInv, PTL

\* What executeCommand() gets is the line that was typed, whoever came, went or restarted
\* before, as long as its user is connected.
THEOREM LineExecuted == Spec => []BufferIsLine
<1>1. IInv => BufferIsLine
  BY DEF IInv
<1> QED  BY <1>1, InvariantIInv, PTL

\* load() reads back what an intact save() wrote, all of it.
THEOREM SavedLoaded == Spec => []SavedIsLoaded
<1>1. IInv => SavedIsLoaded
  BY DEF IInv, SettingsInv
<1> QED  BY <1>1, InvariantIInv, PTL

\* The settings in use and in flash can be used, a save cut short included.
THEOREM SettingsUsable == Spec => []UsableSettings
<1>1. IInv => UsableSettings
  BY DEF IInv, SettingsInv
<1> QED  BY <1>1, InvariantIInv, PTL
=============================================================================
