--------------------------------- MODULE OCA ---------------------------------
(***************************************************************************)
(* oca/controller.go, the arithmetic of Adjust: the PID terms with the     *)
(* default gains, the limits on the output and the mapping to a level.     *)
(*                                                                         *)
(* Units: ratios and errors in hundredths, time in tenths of a             *)
(* millisecond, the integral in millionths, the output in ten-thousandths, *)
(* timeouts in milliseconds.  With Kp = 1, Ki = 0.1 and Kd = 0.05 the      *)
(* three terms are 100 * error, integral / 1000 and 50000 * change / gap.  *)
(***************************************************************************)
EXTENDS Integers

MinQueueSize == 10
MaxQueueSize == 1000
MinTimeout == 10
MaxTimeout == 1000
OutputLimit == 1000000

Between(x, low, high) == IF x < low THEN low ELSE IF x > high THEN high ELSE x

\* "dt <= 0" is taken for a millisecond.
Elapsed(gap) == IF gap = 0 THEN 10 ELSE gap

Integrated(integral, error, gap) == integral + error * gap

\* The derivative is left out of steps of a tenth of a millisecond or less.
Derived(gap) == gap > 1
Derivative(change, gap) == IF Derived(gap) THEN (50000 * change) \div gap ELSE 0

PIDOutput(error, integral, change, gap) ==
    Between(100 * error + integral \div 1000 + Derivative(change, gap),
            -OutputLimit, OutputLimit)

\* From the loosest value at the lowest output to the strictest at the highest.
Mapped(output, strictest, loosest) ==
    Between((loosest * 2 * OutputLimit - (loosest - strictest) * (output + OutputLimit))
                \div (2 * OutputLimit), strictest, loosest)

\* Wrong variant: the output is taken for its distance from the lowest value.
MapOutputUnshifted(output) ==
    [QueueSize |-> MaxQueueSize - ((MaxQueueSize - MinQueueSize) * (output \div 1000)) \div 1000,
     Timeout |-> MaxTimeout - ((MaxTimeout - MinTimeout) * (output \div 1000)) \div 1000]

MapOutputToCL(output) ==
    [QueueSize |-> Mapped(output, MinQueueSize, MaxQueueSize),
     Timeout |-> Mapped(output, MinTimeout, MaxTimeout)]
=============================================================================
