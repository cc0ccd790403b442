-------------------------------- MODULE Battery --------------------------------
(***************************************************************************)
(* The battery: what an action does to its state of charge, what of it the *)
(* reserved capability leaves free, and the standard candidate paths that  *)
(* are simulated period by period.                                         *)
(*                                                                         *)
(* Energy and power are whole numbers and a delivery period is the unit of *)
(* time: a MW charged adds Gain to the SoC in a period (the charge         *)
(* efficiency), a MW discharged takes Loss (one over the discharge         *)
(* efficiency).  Where the code divides, the quotient is rounded down.     *)
(***************************************************************************)
EXTENDS Integers

CONSTANTS
  EMin, EMax,                \* the SoC envelope
  ChargeMax, DischargeMax,   \* power limits
  Gain, Loss,
  UpReserved, DownReserved,  \* power reserved for services
  ReservePeriods             \* how long a reservation must be sustained

ASSUME BatteryAssumption ==
  /\ EMin \in Nat /\ EMax \in Nat /\ EMin <= EMax
  /\ ChargeMax \in Nat /\ DischargeMax \in Nat
  /\ Gain \in Nat \ {0} /\ Loss \in Nat \ {0}
  /\ UpReserved \in Nat /\ DownReserved \in Nat /\ ReservePeriods \in Nat

SoC == EMin..EMax

\* next_soc
NextSoc(soc, charge, discharge) == soc + Gain * charge - Loss * discharge

----------------------------------------------------------------------------
\* calculate_feasibility

ReserveFloor   == EMin + UpReserved * ReservePeriods * Loss
ReserveCeiling == EMax - Gain * (DownReserved * ReservePeriods)

\* the states it has an answer for; for any other it raises
CanSustain(soc) ==
  /\ EMin <= soc /\ soc <= EMax
  /\ UpReserved <= DischargeMax /\ DownReserved <= ChargeMax
  /\ ReserveFloor <= soc /\ soc <= ReserveCeiling

Lesser(a, b) == IF a <= b THEN a ELSE b

\* max_charge and max_discharge, and what _available_flexibility() makes of an error
MaxCharge(soc) ==
  IF CanSustain(soc) THEN Lesser(ChargeMax - DownReserved, (ReserveCeiling - soc) \div Gain) ELSE 0

MaxDischarge(soc) ==
  IF CanSustain(soc) THEN Lesser(DischargeMax - UpReserved, (soc - ReserveFloor) \div Loss) ELSE 0

----------------------------------------------------------------------------
\* The standard paths

PathKinds == {"NO_ACTION", "P50_COVERAGE", "PRESERVE_FLEXIBILITY"}

\* PRESERVE_FRACTION is a quarter
Share(kind, power) == IF kind = "PRESERVE_FLEXIBILITY" THEN power \div 4 ELSE power

\* the action of one period, for its P50 exposure: a surplus is charged, a shortage discharged
StandardAction(kind, soc, p50) ==
  [charge    |-> IF kind # "NO_ACTION" /\ p50 > 0
                 THEN Share(kind, Lesser(p50, MaxCharge(soc))) ELSE 0,
   discharge |-> IF kind # "NO_ACTION" /\ p50 < 0
                 THEN Share(kind, Lesser(-p50, MaxDischarge(soc))) ELSE 0]

After(soc, action) == NextSoc(soc, action.charge, action.discharge)

----------------------------------------------------------------------------
\* What simulate_battery_path holds against an action

Codes ==
  {"NEGATIVE_CHARGE", "NEGATIVE_DISCHARGE", "SIMULTANEOUS_CHARGE_DISCHARGE",
   "CHARGE_POWER_LIMIT", "DISCHARGE_POWER_LIMIT", "SOC_BELOW_MINIMUM", "SOC_ABOVE_MAXIMUM",
   "UPWARD_POWER_RESERVATION", "DOWNWARD_POWER_RESERVATION",
   "UPWARD_ENERGY_DURATION", "DOWNWARD_ENERGY_DURATION"}

NetExport(action) == action.discharge - action.charge

Violated(code, action, ending) ==
  \/ code = "NEGATIVE_CHARGE"               /\ action.charge < 0
  \/ code = "NEGATIVE_DISCHARGE"            /\ action.discharge < 0
  \/ code = "SIMULTANEOUS_CHARGE_DISCHARGE" /\ action.charge > 0 /\ action.discharge > 0
  \/ code = "CHARGE_POWER_LIMIT"            /\ action.charge > ChargeMax
  \/ code = "DISCHARGE_POWER_LIMIT"         /\ action.discharge > DischargeMax
  \/ code = "SOC_BELOW_MINIMUM"             /\ ending < EMin
  \/ code = "SOC_ABOVE_MAXIMUM"             /\ ending > EMax
  \/ code = "UPWARD_POWER_RESERVATION"      /\ DischargeMax - NetExport(action) - UpReserved < 0
  \/ code = "DOWNWARD_POWER_RESERVATION"    /\ ChargeMax + NetExport(action) - DownReserved < 0
  \/ code = "UPWARD_ENERGY_DURATION"        /\ ending < ReserveFloor
  \/ code = "DOWNWARD_ENERGY_DURATION"      /\ ending > ReserveCeiling

Violations(action, ending) == {code \in Codes : Violated(code, action, ending)}
================================================================================
