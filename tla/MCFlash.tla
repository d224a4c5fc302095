------------------------------- MODULE MCFlash -------------------------------
(* Boards on two ports, re-plugged while init works; or two boards and a    *)
(* download beside init, with a kill.                                       *)
EXTENDS Flash, TLC

\* An ESP32-C3 and a Nano with the older ATmega168, both behind a CH340, whose
\* VID:PID is that of two families; a Pico and a Pico 2; an STM32F4.  (A
\* SAMD board has no backend, and is skipped.)
Known == "c3" :> [chip |-> "esp32c3", family |-> "esp32", ids |-> <<"esp32", "avr">>]
      @@ "nano" :> [chip |-> "atmega168", family |-> "avr", ids |-> <<"esp32", "avr">>]
      @@ "pico" :> [chip |-> "rp2040", family |-> "rp2040", ids |-> <<"rp2040">>]
      @@ "pico2" :> [chip |-> "rp2350", family |-> "rp2040", ids |-> <<"rp2040">>]
      @@ "f4" :> [chip |-> "stm32f4", family |-> "stm32", ids |-> <<"stm32">>]

Chips == [b \in Boards |-> Known[b].chip]
FamilyOf == [b \in Boards |-> Known[b].family]
VidPids == [b \in Boards |-> Known[b].ids]
Tools == "esp32" :> "esptool" @@ "avr" :> "avrdude" @@ "rp2040" :> "uf2"
      @@ "stm32" :> "stm32loader" @@ "samd" :> "bossac"

TwoWorkloads ==
    { [boards |-> Boards, replugs |-> 2, kills |-> 0, downloads |-> 0],
      [boards |-> {"c3", "pico"}, replugs |-> 0, kills |-> 1, downloads |-> 1] }
=============================================================================
