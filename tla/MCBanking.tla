----------------------------- MODULE MCBanking -----------------------------
(* One image of every bank-switching type, and the registers and values    *)
(* that select another bank, drive the lines or disable the cartridge.     *)
EXTENDS Banking

Rom(bank, load, size) == [bank |-> bank, load |-> load, size |-> size]

Of(type, exrom, game, chips) ==
  [type |-> type, exrom |-> exrom, game |-> game, chips |-> chips]

\* Two 8K banks at $8000, for the types that only switch banks.
TwoBanks(type) == Of(type, 0, 1, <<Rom(0, 32768, 8192), Rom(1, 32768, 8192)>>)

MCImage ==
  {TwoBanks(t) : t \in {"ocean", "fun_play", "super_games", "c64_game_system", "dinamic",
                        "magic_desk", "final_cartridge_iii", "atomic_power", "ross"}}
  \cup {Of("normal", 1, 0, <<Rom(0, 57344, 8192)>>),          \* Ultimax
        Of("normal", 1, 0, <<Rom(0, 61440, 4096)>>),          \* Ultimax, 4K at $F000
        Of("normal", 255, 0, <<Rom(0, 57344, 8192)>>),        \* a line byte other than 0 or 1
        Of("normal", 0, 0, <<Rom(0, 32768, 16384)>>),         \* 16K in one chip
        Of("simons_basic", 0, 1, <<Rom(0, 32768, 8192), Rom(0, 40960, 8192)>>),
        Of("warpspeed", 0, 0, <<Rom(0, 32768, 16384)>>),
        Of("easyflash", 1, 0, <<Rom(0, 32768, 8192), Rom(0, 57344, 8192),
                                Rom(1, 32768, 8192)>>)}

MCIoAddress == {56832, 56833, 56834, 57088, 57343}  \* $DE00, $DE01, $DE02, $DF00, $DFFF
MCIoValue   == {0, 1, 4, 5, 6, 7, 12, 128, 134}
=============================================================================
