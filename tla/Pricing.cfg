SPECIFICATION PricingSpec
CONSTANTS
  usdt = usdt  btc = btc
  Assets = {usdt, btc}
  One <- Scales
  Pairs <- BothWays
  RateUnits <- Units3
  RateOne <- Ones3
  Whole = 10
  Significand = 10000
  Steps <- TwoSteps
  Price <- Prices
  Endowments <- Starts
  MaxQuotes = 1
INVARIANTS PricingTypeOK QuotesExact
PROPERTIES NoFreeMoney
