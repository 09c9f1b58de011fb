------------------------------ MODULE UartPort ------------------------------
(***************************************************************************)
(* The serial port as the bridges open and set it up (open_port, set_opt), *)
(* and what the settings make of a byte.  set_opt builds the termios from  *)
(* zero: no line editing, no echo, and a read that returns at once.        *)
(***************************************************************************)
EXTENDS Integers

NoPort == -1

\* The number of the ttySAC (ttyAMA) that open_port opens for comport 1 to 4;
\* any other comport opens nothing and gives back the fd it was called with.
OpenPort(fd, comport, opens) ==
  IF comport \notin 1 .. 4 THEN fd
  ELSE IF opens THEN comport - 1 ELSE NoPort

\* Mutant: the case 'N' falls into the case 'E'.
SetOptFallsThrough(nSpeed, nBits, nEvent, nStop) ==
  [speed |-> nSpeed,
   size  |-> nBits,
   cflag |-> {"CLOCAL", "CREAD", "PARENB"},
   iflag |-> {"INPCK", "ISTRIP"}]

SetOpt(nSpeed, nBits, nEvent, nStop) ==
  [speed |-> IF nSpeed \in {2400, 4800, 9600, 115200} THEN nSpeed ELSE 9600,
   size  |-> IF nBits \in {7, 8} THEN nBits ELSE 5,
   cflag |-> {"CLOCAL", "CREAD"}
               \cup (IF nEvent \in {"O", "E"} THEN {"PARENB"} ELSE {})
               \cup (IF nEvent = "O" THEN {"PARODD"} ELSE {})
               \cup (IF nStop = 2 THEN {"CSTOPB"} ELSE {}),
   iflag |-> IF nEvent \in {"O", "E"} THEN {"INPCK", "ISTRIP"} ELSE {}]

\* The byte a write puts on the line, and the one a read takes from it.
OnLine(termios, byte) == byte % 2 ^ termios.size
FromLine(termios, byte) ==
  IF "ISTRIP" \in termios.iflag THEN OnLine(termios, byte) % 128
                                ELSE OnLine(termios, byte)
=============================================================================
