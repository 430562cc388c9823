------------------------------ MODULE Settings ------------------------------
(***************************************************************************)
(* ConfigManager and the commands that change a setting: the settings in   *)
(* use, and what save() keeps of them in flash for the next start.  save() *)
(* writes key after key; each write may fail unnoticed, and the power may  *)
(* go between two of them.                                                 *)
(*                                                                         *)
(*   ram     - netConfig, wifiConfig and ntpConfig                         *)
(*   flash   - the keys stored in the namespace "ntpserver"                *)
(*   mounted - prefs.begin() succeeded; setup() ignores its result         *)
(*   saving  - index of the key that save() writes next, 0 outside save()  *)
(*   intact  - (history) every write of the save under way was stored      *)
(*   saved   - (history) the settings of the last save if all of it was    *)
(*             stored, NoSettings if there is none or it was not           *)
(*                                                                         *)
(* A command is [key, text]: the setting it names and its argument, a      *)
(* sequence.  Names and passwords are one part; so is an address, when it  *)
(* is well formed; a MAC is the sequence of its octets and an interval the *)
(* number toInt() reads.                                                   *)
(***************************************************************************)
EXTENDS Integers, Sequences

CONSTANTS Keys,        \* the settings under study, of Key
          Address,     \* well-formed IP addresses
          Name,        \* host names, SSIDs and passwords
          MacText,     \* what a user may type for a MAC, sequences of octets
          MacLen,      \* octets of a MAC, 6
          Number,      \* what toInt() may return
          HoursWord,   \* number of values of a uint32_t, 2^32
          Default,     \* the setting load() takes when the key is not stored
          NoAddress,   \* an IPAddress nobody set, 0.0.0.0
          NoSettings

Switch == {"dhcp", "wifi_en", "wifi_dhcp", "ntp_auto"}
WiredAddress == {"ip", "subnet", "gateway", "dns"}
WifiAddress == {"wifi ip", "wifi subnet", "wifi gateway", "wifi dns"}
Text == {"hostname", "wifi_ssid", "wifi_pwd", "ntp_server"}
Key == Switch \cup WiredAddress \cup WifiAddress \cup Text \cup {"mac", "ntp_interval"}

Zero == [i \in 1..MacLen |-> 0]
Broadcast == [i \in 1..MacLen |-> 255]

ASSUME SettingsAssumption ==
    /\ Keys \subseteq Key
    /\ MacText \subseteq Seq(0..255) /\ MacLen \in Nat \ {0}
    /\ Number \subseteq Int /\ HoursWord \in Nat \ {0}
    /\ NoAddress \notin Address /\ " " \notin Address

\* The values of a setting.
Values(k) ==
    CASE k \in Switch -> BOOLEAN
      [] k \in WiredAddress -> Address
      [] k \in WifiAddress -> Address \cup {NoAddress}
      [] k \in Text -> Name
      [] k = "mac" -> [1..MacLen -> 0..255]
      [] k = "ntp_interval" -> 0..(HoursWord - 1)

\* The settings s can be used: the chip's MAC is neither zero nor that of a group, and the
\* interval of the automatic sync is not 0.
Usable(s) ==
    /\ "mac" \in Keys => s["mac"] # Zero /\ s["mac"][1] % 2 = 0
    /\ "ntp_interval" \in Keys => s["ntp_interval"] # 0

\* The code's defaults are 02:00:00:00:00:01 and 24 hours.
ASSUME DefaultAssumption ==
    /\ DOMAIN Default = Keys
    /\ \A k \in Keys : Default[k] \in Values(k)
    /\ Usable(Default)

VARIABLES ram, flash, mounted, saving, intact, saved

settings == <<ram, flash, mounted, saving, intact, saved>>

\* Not the code: a save() that forgets a key.
SaveOrder_forgets ==
    <<"dhcp", "hostname", "ip", "subnet", "gateway", "dns", "wifi_en", "wifi_ssid", "wifi_pwd",
      "wifi_dhcp", "ntp_server", "ntp_auto", "ntp_interval">>

\* The keys save() writes, in its order.  The WiFi addresses are not among them.
SaveOrder ==
    <<"dhcp", "hostname", "ip", "subnet", "gateway", "dns", "mac", "wifi_en", "wifi_ssid",
      "wifi_pwd", "wifi_dhcp", "ntp_server", "ntp_auto", "ntp_interval">>

\* load(): a setting whose key is not stored is the default, a MAC also when what is stored
\* has another length; the WiFi addresses are never read.
load(stored) ==
    [k \in Keys |->
        IF \/ k \notin DOMAIN stored \ WifiAddress
           \/ k = "mac" /\ Len(stored[k]) # MacLen
        THEN Default[k] ELSE stored[k]]

\* What setup() loads when prefs.begin() did or did not succeed.
loaded(ok) == load(IF ok THEN flash ELSE << >>)

SettingsInit ==
    /\ flash = << >>
    /\ mounted \in BOOLEAN
    /\ ram = load(flash)
    /\ saving = 0 /\ intact = FALSE /\ saved = NoSettings

-----------------------------------------------------------------------------
(***************************************************************************)
(* The commands.  accepted(k, text) holds the one value that the argument  *)
(* of the command for k stands for, or none when the command is refused.   *)
(***************************************************************************)
fromString(text) == {a \in Address : text = <<a>>}

\* Not the code: a parser that only refuses the addresses of groups.
parseMacAddress_acceptsZero(text) ==
    IF Len(text) < MacLen THEN {}
    ELSE {mac \in {SubSeq(text, 1, MacLen)} : mac[1] % 2 = 0}

\* parseMacAddress(): fewer octets are refused and what follows the last is ignored; all
\* zero, all FF and the address of a group are refused.
parseMacAddress(text) ==
    IF Len(text) < MacLen THEN {}
    ELSE {mac \in {SubSeq(text, 1, MacLen)} :
            mac # Zero /\ mac # Broadcast /\ mac[1] % 2 = 0}

\* Not the code: a number that keeps its sign.
hoursOf_signed(n) == {h \in {n} : h # 0}

\* uint32_t hours = value.toInt(): a negative number becomes a large one.
hoursOf(n) == {h \in {n % HoursWord} : h # 0}

\* "wifi ip " and its likes cut the command one character too early: the blank stays.
afterBlank(k, text) == IF k \in WifiAddress THEN <<" ">> \o text ELSE text

accepted(k, text) ==
    CASE k \in Switch -> {text[1]}
      [] k \in WiredAddress \cup WifiAddress -> fromString(afterBlank(k, text))
      [] k \in Text -> {text[1]}
      [] k = "mac" -> parseMacAddress(text)
      [] k = "ntp_interval" -> hoursOf(text[1])

\* The arguments a user may type for k.
Arguments(k) ==
    CASE k \in Switch -> {<<b>> : b \in BOOLEAN}
      [] k \in WiredAddress \cup WifiAddress -> {<< >>} \cup {<<a>> : a \in Address}
      [] k \in Text -> {<<n>> : n \in Name}
      [] k = "mac" -> MacText
      [] k = "ntp_interval" -> {<<n>> : n \in Number}

\* A command that sets something: accepted, it is in use at once; refused, nothing changes.
change(k, text) ==
    /\ ram' = IF accepted(k, text) = {} THEN ram
              ELSE [ram EXCEPT ![k] = CHOOSE v \in accepted(k, text) : TRUE]
    /\ UNCHANGED <<flash, mounted, saving, intact, saved>>

\* "save": the first of the writes is next.
save ==
    /\ saving' = 1 /\ intact' = TRUE /\ saved' = NoSettings
    /\ UNCHANGED <<ram, flash, mounted>>

\* Commands that touch no setting: the shows, "help", "ntp sync", "net restart", "wifi
\* connect", "time set" and whatever is not known.
noSetting == UNCHANGED settings

\* The write of one key, which save() does not check; the last returns to the command.
\* Only what becomes of the settings under study is recorded.
put(stored) ==
    LET key == SaveOrder[saving]
    IN  /\ saving # 0
        /\ stored => mounted
        /\ flash' = IF stored /\ key \in Keys
                    THEN [k \in DOMAIN flash \cup {key} |-> IF k = key THEN ram[k] ELSE flash[k]]
                    ELSE flash
        /\ intact' = (intact /\ (stored \/ key \notin Keys))
        /\ IF saving = Len(SaveOrder)
           THEN saving' = 0 /\ saved' = IF intact' THEN ram ELSE NoSettings
           ELSE saving' = saving + 1 /\ saved' = saved
        /\ UNCHANGED <<ram, mounted>>

\* A loss of power, a crash or "reboot": setup() starts from what flash holds.
settingsRestart ==
    /\ mounted' \in BOOLEAN
    /\ ram' = loaded(mounted')
    /\ saving' = 0 /\ intact' = FALSE
    /\ UNCHANGED <<flash, saved>>

-----------------------------------------------------------------------------
SettingsTypeOK ==
    /\ DOMAIN ram = Keys /\ \A k \in Keys : ram[k] \in Values(k)
    /\ DOMAIN flash \subseteq Keys /\ \A k \in DOMAIN flash : flash[k] \in Values(k)
    /\ saving \in 0..Len(SaveOrder)
    /\ mounted \in BOOLEAN /\ intact \in BOOLEAN
    /\ saved = NoSettings \/ DOMAIN saved = Keys

\* A save whose writes were all stored is what the next start loads, whatever was typed,
\* left unsaved or lost at a restart since: the fourteen keys that save() writes and load()
\* reads by name are the same ones, and nothing but a later save touches them.
SavedIsLoaded == saved # NoSettings => load(flash) = saved

\* The settings in use, and those the next start would load, can be used, even those a
\* save that was cut short left behind.
UsableSettings == Usable(ram) /\ Usable(load(flash))
=============================================================================
