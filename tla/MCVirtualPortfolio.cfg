SPECIFICATION Spec
CONSTANTS
    Ticker = {A, B}
    Capital = 5
    Lots <- MCLots
    Price <- MCPrice
    Commission <- MCCommission
    Deposits <- MCDeposits
    Dividends <- MCDividends
    BonusPct <- MCBonusPct
    MaxCash = 5
    MaxDebt = 1
    MaxLots = 6
INVARIANTS TypeOK GrossSettlementHeld
PROPERTIES OverdraftOnlyByCommission ImplementsAccount
